------------------------ MODULE PipelineCacheProofs -------------------------
(***************************************************************************)
(* For any threads, sources and limits.  If no two sources have the same    *)
(* hash, and the library's entry points name the sources it was built from, *)
(* every call returns the pipeline it asked for: every entry of both tiers  *)
(* is the pipeline of all requests with its key, of which there is one.     *)
(* If no two sources have the same hash, L1 holds the pipelines used last.  *)
(* And whatever the hashes, L2 keeps its limit and a kernel is built at     *)
(* most once per thread until L2 evicts it: while it is not in L2, all that *)
(* built it are still to publish it.                                        *)
(***************************************************************************)
EXTENDS PipelineCache, FiniteSetTheorems, FunctionTheorems, TLAPS

NoCollision == \A s, r \in Sources : Hash[s] = Hash[r] => s = r

EntryNamesSource ==
  \A s \in Precompiled : \A r \in Sources \ Specialized : Entry[s] = Entry[r] => s = r

LocalOwn ==
  \A t \in Threads : \A k \in DOMAIN l1[t] : \A w \in Wants :
    Key(w) = k => l1[t][k].pipeline = w

SharedOwn == \A k \in DOMAIN l2 : \A w \in Wants : Key(w) = k => l2[k] = w

\* A thread in a call knows what it wants, and publishes that.
Asked ==
  \A t \in Threads :
    /\ tpc[t] # "idle" => want[t] \in Wants
    /\ tpc[t] = "publish" => built[t] = want[t]

Typed ==
  /\ DOMAIN l1 = Threads
  /\ tpc \in [Threads -> {"idle", "local", "shared", "build", "publish"}]
  /\ DOMAIN want = Threads /\ DOMAIN built = Threads /\ DOMAIN got = Threads
  /\ l1 = [t \in Threads |-> l1[t]] /\ want = [t \in Threads |-> want[t]]
  /\ built = [t \in Threads |-> built[t]] /\ got = [t \in Threads |-> got[t]]

IInv == Typed /\ LocalOwn /\ SharedOwn /\ Asked /\ ReturnsOwnPipeline

\* The key determines the request.
LEMMA KeyOwn ==
  ASSUME NoCollision, NEW w \in Wants, NEW v \in Wants, Key(w) = Key(v)
  PROVE  w = v
<1>1. /\ Hash[w.source] = Hash[v.source] /\ w.icb = v.icb
      /\ w.source \in Sources /\ v.source \in Sources
  BY DEF Key, Wants
<1>2. w.source = v.source
  BY <1>1 DEF NoCollision
<1> QED BY <1>1, <1>2 DEF Wants

LEMMA InitIInv == Init => IInv
<1> SUFFICES ASSUME Init PROVE IInv
  OBVIOUS
<1>1. Typed /\ \A t \in Threads : l1[t] = Empty /\ tpc[t] = "idle" /\ got[t] = Nothing
  BY DEF Init, Typed
<1>2. l2 = Empty /\ DOMAIN Empty = {}
  BY DEF Init, Empty
<1> QED BY <1>1, <1>2
  DEF IInv, LocalOwn, SharedOwn, Asked, ReturnsOwnPipeline, Nothing

-----------------------------------------------------------------------------
\* Inserting the pipeline that is wanted, whatever makes room for it.
LEMMA InsertOwn ==
  ASSUME NoCollision, IInv, NEW t \in Threads, want[t] \in Wants,
         NEW pipeline, pipeline = want[t], InsertL1(t, pipeline)
  PROVE  l1' = [r \in Threads |-> l1'[r]] /\ LocalOwn'
<1> DEFINE k == Key(want[t])
           new == [source |-> want[t].source, pipeline |-> pipeline]
<1>1. PICK kept : /\ DOMAIN kept \subseteq DOMAIN l1[t]
                  /\ \A j \in DOMAIN kept : kept[j] = l1[t][j]
                  /\ l1' = [l1 EXCEPT ![t] = With(kept, k, new)]
  BY DEF InsertL1, Without
<1>2. /\ l1' = [r \in Threads |-> l1'[r]]
      /\ l1'[t] = With(kept, k, new)
      /\ \A r \in Threads : r # t => l1'[r] = l1[r]
  BY <1>1 DEF IInv, Typed
<1>3. new.pipeline = want[t]
  OBVIOUS
<1> HIDE DEF new
<1>4. ASSUME NEW w \in Wants, Key(w) \in DOMAIN l1'[t]
      PROVE  l1'[t][Key(w)].pipeline = w
  <2>1. CASE Key(w) = k
    <3>1. w = want[t]
      BY <2>1, KeyOwn
    <3> QED BY <1>2, <1>3, <2>1, <3>1 DEF With
  <2>2. CASE Key(w) # k
    <3>1. Key(w) \in DOMAIN l1[t] /\ l1'[t][Key(w)] = l1[t][Key(w)]
      BY <1>1, <1>2, <1>4, <2>2 DEF With
    <3> QED BY <3>1 DEF IInv, LocalOwn
  <2> QED BY <2>1, <2>2
<1>5. LocalOwn'
  <2> SUFFICES ASSUME NEW r \in Threads, NEW w \in Wants, Key(w) \in DOMAIN l1'[r]
               PROVE  l1'[r][Key(w)].pipeline = w
    BY DEF LocalOwn, Key, Wants
  <2>1. CASE r = t
    BY <1>4, <2>1
  <2>2. CASE r # t
    BY <1>2, <2>2 DEF IInv, LocalOwn
  <2> QED BY <2>1, <2>2
<1> QED BY <1>2, <1>5

\* Returning the pipeline that is wanted.
LEMMA ReturnOwn ==
  ASSUME IInv, NEW t \in Threads, want[t] \in Wants,
         NEW outcome, outcome \in {Answer(t, want[t]), [result |-> "error"]},
         Return(t, outcome)
  PROVE  /\ ReturnsOwnPipeline'
         /\ tpc' = [tpc EXCEPT ![t] = "idle"]
         /\ got' = [r \in Threads |-> got'[r]]
         /\ want' = [r \in Threads |-> want'[r]]
         /\ \A r \in Threads : r # t => want'[r] = want[r]
<1>1. /\ tpc' = [tpc EXCEPT ![t] = "idle"]
      /\ want' = [want EXCEPT ![t] = NoWant]
      /\ got' = [got EXCEPT ![t] = outcome]
  BY DEF Return, Go
<1>2. /\ got' = [r \in Threads |-> got'[r]]
      /\ want' = [r \in Threads |-> want'[r]]
      /\ \A r \in Threads : r # t => want'[r] = want[r] /\ got'[r] = got[r]
      /\ got'[t] = outcome
  BY <1>1 DEF IInv, Typed
<1>3. outcome.result = "ok" => outcome.pipeline = outcome.want
  BY DEF Answer
<1>4. ReturnsOwnPipeline'
  BY <1>2, <1>3 DEF IInv, ReturnsOwnPipeline
<1> QED BY <1>1, <1>2, <1>4

LEMMA BeginIInv ==
  ASSUME IInv, NEW t \in Threads, NEW w \in Wants, Begin(t, w) PROVE IInv'
<1>1. /\ want' = [want EXCEPT ![t] = w] /\ tpc' = [tpc EXCEPT ![t] = "local"]
      /\ got' = [got EXCEPT ![t] = Nothing]
      /\ UNCHANGED <<l1, l2, built>>
  BY DEF Begin, Go
<1>2. Typed' /\ want'[t] = w /\ got'[t] = Nothing /\ tpc'[t] = "local"
      /\ \A r \in Threads : r # t =>
           want'[r] = want[r] /\ got'[r] = got[r] /\ tpc'[r] = tpc[r]
  BY <1>1 DEF IInv, Typed
<1>3. Asked'
  BY <1>1, <1>2 DEF IInv, Asked
<1>4. ReturnsOwnPipeline'
  BY <1>2 DEF IInv, ReturnsOwnPipeline, Nothing
<1>5. LocalOwn' /\ SharedOwn'
  BY <1>1 DEF IInv, LocalOwn, SharedOwn, Key, Wants
<1> QED BY <1>2, <1>3, <1>4, <1>5 DEF IInv

LEMMA LookLocalIInv ==
  ASSUME IInv, NEW t \in Threads, LookLocal(t) PROVE IInv'
<1>1. want[t] \in Wants /\ tpc[t] = "local" /\ UNCHANGED <<l1, l2, built>>
  BY DEF IInv, Asked, LookLocal
<1>2. LocalOwn' /\ SharedOwn'
  BY <1>1 DEF IInv, LocalOwn, SharedOwn, Key, Wants
<1>3. CASE Hit(t)
  <2>1. l1[t][Key(want[t])].pipeline = want[t]
    BY <1>1, <1>3 DEF IInv, LocalOwn, Hit
  <2>2. Return(t, Answer(t, want[t]))
    BY <1>3, <2>1 DEF LookLocal
  <2>3. /\ ReturnsOwnPipeline'
        /\ tpc' = [tpc EXCEPT ![t] = "idle"]
        /\ got' = [r \in Threads |-> got'[r]]
        /\ want' = [r \in Threads |-> want'[r]]
        /\ \A r \in Threads : r # t => want'[r] = want[r]
    BY <1>1, <2>2, ReturnOwn
  <2> QED BY <1>1, <1>2, <2>3 DEF IInv, Typed, Asked
<1>4. CASE ~Hit(t)
  <2>1. tpc' = [tpc EXCEPT ![t] = "shared"] /\ UNCHANGED <<want, got>>
    BY <1>4 DEF LookLocal, Go
  <2> QED BY <1>1, <1>2, <2>1 DEF IInv, Typed, Asked, ReturnsOwnPipeline
<1> QED BY <1>3, <1>4

LEMMA LookSharedIInv ==
  ASSUME NoCollision, IInv, NEW t \in Threads, LookShared(t) PROVE IInv'
<1>1. want[t] \in Wants /\ tpc[t] = "shared" /\ UNCHANGED <<l2, built>>
  BY DEF IInv, Asked, LookShared
<1>2. SharedOwn'
  BY <1>1 DEF IInv, SharedOwn, Key, Wants
<1>3. CASE Key(want[t]) \in DOMAIN l2
  <2>1. l2[Key(want[t])] = want[t]
    BY <1>1, <1>3 DEF IInv, SharedOwn
  <2>2. InsertL1(t, want[t]) /\ Return(t, Answer(t, want[t]))
    BY <1>3, <2>1 DEF LookShared
  <2>3. l1' = [r \in Threads |-> l1'[r]] /\ LocalOwn'
    BY <1>1, <2>2, InsertOwn
  <2>4. /\ ReturnsOwnPipeline'
        /\ tpc' = [tpc EXCEPT ![t] = "idle"]
        /\ got' = [r \in Threads |-> got'[r]]
        /\ want' = [r \in Threads |-> want'[r]]
        /\ \A r \in Threads : r # t => want'[r] = want[r]
    BY <1>1, <2>2, ReturnOwn
  <2> QED BY <1>1, <1>2, <2>3, <2>4 DEF IInv, Typed, Asked
<1>4. CASE Key(want[t]) \notin DOMAIN l2
  <2>1. tpc' = [tpc EXCEPT ![t] = "build"] /\ UNCHANGED <<l1, want, got>>
    BY <1>4 DEF LookShared, Go
  <2> QED BY <1>1, <1>2, <2>1 DEF IInv, Typed, LocalOwn, Asked, ReturnsOwnPipeline, Key, Wants
<1> QED BY <1>3, <1>4

LEMMA BuildIInv ==
  ASSUME NoCollision, EntryNamesSource, IInv, NEW t \in Threads, Build(t) PROVE IInv'
<1>1. want[t] \in Wants /\ tpc[t] = "build" /\ UNCHANGED l2
  BY DEF IInv, Asked, Build
<1>2. SharedOwn'
  BY <1>1 DEF IInv, SharedOwn, Key, Wants
<1>3. ASSUME NEW s \in IF InLibrary(want[t]) # {} THEN InLibrary(want[t]) ELSE {want[t].source},
             InsertL1(t, [source |-> s, icb |-> want[t].icb]),
             built' = [built EXCEPT ![t] = [source |-> s, icb |-> want[t].icb]],
             Go(t, "publish"), UNCHANGED <<want, got>>
      PROVE  IInv'
  <2>1. s = want[t].source
    <3>1. want[t].source \in Sources
      BY <1>1 DEF Wants
    <3> QED BY <3>1 DEF InLibrary, EntryNamesSource
  <2>2. [source |-> s, icb |-> want[t].icb] = want[t]
    BY <1>1, <2>1 DEF Wants
  <2>3. l1' = [r \in Threads |-> l1'[r]] /\ LocalOwn'
    BY <1>1, <1>3, <2>2, InsertOwn
  <2>4. tpc' = [tpc EXCEPT ![t] = "publish"] /\ built' = [built EXCEPT ![t] = want[t]]
    BY <1>3, <2>2 DEF Go
  <2>5. Typed' /\ ReturnsOwnPipeline'
    BY <1>3, <2>3, <2>4 DEF IInv, Typed, ReturnsOwnPipeline
  <2>6. Asked'
    BY <1>1, <1>3, <2>4 DEF IInv, Typed, Asked
  <2> QED BY <1>2, <2>3, <2>5, <2>6 DEF IInv
<1>4. ASSUME Return(t, [result |-> "error"]), UNCHANGED <<l1, built>>
      PROVE  IInv'
  <2>1. /\ ReturnsOwnPipeline'
        /\ tpc' = [tpc EXCEPT ![t] = "idle"]
        /\ got' = [r \in Threads |-> got'[r]]
        /\ want' = [r \in Threads |-> want'[r]]
        /\ \A r \in Threads : r # t => want'[r] = want[r]
    BY <1>1, <1>4, ReturnOwn
  <2>2. LocalOwn'
    BY <1>4 DEF IInv, LocalOwn, Key, Wants
  <2>3. Typed' /\ Asked'
    BY <1>4, <2>1 DEF IInv, Typed, Asked
  <2> QED BY <1>2, <2>1, <2>2, <2>3 DEF IInv
<1> QED BY <1>3, <1>4 DEF Build

LEMMA PublishIInv ==
  ASSUME NoCollision, IInv, NEW t \in Threads, Publish(t) PROVE IInv'
<1>1. want[t] \in Wants /\ tpc[t] = "publish" /\ built[t] = want[t] /\ UNCHANGED l1
  BY DEF IInv, Asked, Publish
<1>2. PICK cache \in Room : l2' = With(cache, Key(want[t]), want[t])
  BY <1>1 DEF Publish, Published
<1>3. /\ DOMAIN cache \subseteq DOMAIN l2
      /\ \A k \in DOMAIN cache : cache[k] = l2[k]
  BY DEF Room, Without
<1>4. SharedOwn'
  <2> SUFFICES ASSUME NEW w \in Wants, Key(w) \in DOMAIN l2'
               PROVE  l2'[Key(w)] = w
    BY DEF SharedOwn, Key, Wants
  <2>1. CASE Key(w) = Key(want[t])
    <3>1. w = want[t]
      BY <1>1, <2>1, KeyOwn
    <3> QED BY <1>2, <3>1 DEF With
  <2>2. CASE Key(w) # Key(want[t])
    <3>1. Key(w) \in DOMAIN l2 /\ l2'[Key(w)] = l2[Key(w)]
      BY <1>2, <1>3, <2>2 DEF With
    <3> QED BY <3>1 DEF IInv, SharedOwn
  <2> QED BY <2>1, <2>2
<1>5. Return(t, Answer(t, want[t])) /\ built' = [built EXCEPT ![t] = NotBuilt]
  BY <1>1 DEF Publish
<1>6. /\ ReturnsOwnPipeline'
      /\ tpc' = [tpc EXCEPT ![t] = "idle"]
      /\ got' = [r \in Threads |-> got'[r]]
      /\ want' = [r \in Threads |-> want'[r]]
      /\ \A r \in Threads : r # t => want'[r] = want[r]
  BY <1>1, <1>5, ReturnOwn
<1>7. LocalOwn'
  BY <1>1 DEF IInv, LocalOwn, Key, Wants
<1>8. Typed' /\ Asked'
  BY <1>1, <1>5, <1>6 DEF IInv, Typed, Asked
<1> QED BY <1>4, <1>6, <1>7, <1>8 DEF IInv

\* For any number of threads and any limits of the tiers: with hashes that do
\* not collide and a library named by its entry points, every call returns the
\* pipeline of its own source and flavour.
THEOREM OwnPipelineReturned ==
  ASSUME NoCollision, EntryNamesSource
  PROVE  Spec => []ReturnsOwnPipeline
<1>1. IInv /\ [Next]_vars => IInv'
  <2> SUFFICES ASSUME IInv, [Next]_vars PROVE IInv'
    OBVIOUS
  <2>1. CASE UNCHANGED vars
    BY <2>1 DEF vars, IInv, Typed, LocalOwn, SharedOwn, Asked, ReturnsOwnPipeline, Key, Wants
  <2>2. CASE Next
    BY <2>2, BeginIInv, LookLocalIInv, LookSharedIInv, BuildIInv, PublishIInv DEF Next
  <2> QED BY <2>1, <2>2
<1>2. IInv => ReturnsOwnPipeline
  BY DEF IInv
<1> QED BY <1>1, <1>2, InitIInv, PTL DEF Spec

-----------------------------------------------------------------------------
\* The order of use, as a sequence in which no key is repeated.
NoRepeat(q) == \A i, j \in DOMAIN q : q[i] = q[j] => i = j

Order(S) == {q \in Seq(S) : NoRepeat(q)}

\* As many positions as keys.
LEMMA OrderLength ==
  ASSUME NEW S, NEW q \in Order(S)
  PROVE  IsFiniteSet(Elements(q)) /\ Cardinality(Elements(q)) = Len(q)
<1>1. Len(q) \in Nat /\ DOMAIN q = 1..Len(q)
  BY DEF Order
<1>2. IsFiniteSet(1..Len(q)) /\ Cardinality(1..Len(q)) = Len(q)
  <2> DEFINE n == Len(q)
  <2> HIDE DEF n
  <2>1. n \in Nat /\ n \in Int /\ 1 \in Int
    BY <1>1 DEF n
  <2>2. IsFiniteSet(1..n) /\ Cardinality(1..n) = IF 1 > n THEN 0 ELSE n - 1 + 1
    BY <2>1, FS_Interval
  <2>3. Cardinality(1..n) = n
    BY <2>1, <2>2
  <2> QED BY <2>2, <2>3 DEF n
<1>3. q \in [1..Len(q) -> Elements(q)]
  BY <1>1 DEF Order, Elements
<1>4. q \in Bijection(1..Len(q), Elements(q))
  BY <1>1, <1>3 DEF Order, NoRepeat, Elements, Bijection, Injection, Surjection, IsInjective
<1>5. ExistsBijection(1..Len(q), Elements(q))
  BY <1>4 DEF ExistsBijection
<1> QED BY <1>2, <1>5, FS_Bijection

\* A key that is not there is put behind the others.
LEMMA StampNew ==
  ASSUME NEW S, NEW q \in Order(S), NEW k \in S, k \notin Elements(q)
  PROVE  /\ Removed(q, k) = q /\ Stamped(q, k) = Append(q, k)
         /\ Stamped(q, k) \in Order(S)
         /\ Elements(Stamped(q, k)) = Elements(q) \cup {k}
         /\ Len(Stamped(q, k)) = Len(q) + 1
<1>1. q \in Seq(S) /\ NoRepeat(q) /\ Len(q) \in Nat /\ DOMAIN q = 1..Len(q)
  BY DEF Order
<1>2. \A i \in DOMAIN q : q[i] # k
  BY DEF Elements
<1>3. Removed(q, k) = q /\ Stamped(q, k) = Append(q, k)
  BY <1>2 DEF Removed, Stamped
<1> DEFINE new == Append(q, k)
<1>4. /\ new \in Seq(S) /\ Len(new) = Len(q) + 1
      /\ DOMAIN new = 1..(Len(q) + 1)
      /\ \A i \in 1..Len(q) : new[i] = q[i]
      /\ new[Len(q) + 1] = k
  BY <1>1
<1> HIDE DEF new
<1>5. NoRepeat(new)
  <2> SUFFICES ASSUME NEW i \in 1..(Len(q) + 1), NEW j \in 1..(Len(q) + 1), new[i] = new[j]
               PROVE  i = j
    BY <1>4 DEF NoRepeat
  <2>1. CASE i \in 1..Len(q) /\ j \in 1..Len(q)
    BY <1>1, <1>4, <2>1 DEF NoRepeat
  <2>2. CASE ~(i \in 1..Len(q) /\ j \in 1..Len(q))
    BY <1>1, <1>2, <1>4, <2>2
  <2> QED BY <2>1, <2>2
<1>6. Elements(new) = Elements(q) \cup {k}
  <2>1. ASSUME NEW x \in Elements(new) PROVE x \in Elements(q) \cup {k}
    BY <1>1, <1>4 DEF Elements
  <2>2. ASSUME NEW x \in Elements(q) PROVE x \in Elements(new)
    <3>1. PICK i \in 1..Len(q) : x = q[i]
      BY <1>1 DEF Elements
    <3>2. i \in DOMAIN new /\ new[i] = x
      BY <1>1, <1>4, <3>1
    <3> QED BY <3>2 DEF Elements
  <2>3. k \in Elements(new)
    <3>1. Len(q) + 1 \in DOMAIN new
      BY <1>1, <1>4
    <3> QED BY <1>4, <3>1 DEF Elements
  <2> QED BY <2>1, <2>2, <2>3
<1> QED BY <1>3, <1>4, <1>5, <1>6 DEF Order, new

\* Taking out a key that is there.
LEMMA RemoveThere ==
  ASSUME NEW S, NEW q \in Order(S), NEW k \in Elements(q)
  PROVE  /\ Removed(q, k) \in Order(S)
         /\ Elements(Removed(q, k)) = Elements(q) \ {k}
         /\ Len(Removed(q, k)) = Len(q) - 1
<1>1. q \in Seq(S) /\ NoRepeat(q) /\ Len(q) \in Nat /\ DOMAIN q = 1..Len(q)
  BY DEF Order
<1> DEFINE at == CHOOSE i \in DOMAIN q : q[i] = k
           new == [i \in 1..Len(q) - 1 |-> IF i < at THEN q[i] ELSE q[i + 1]]
<1>2. at \in 1..Len(q) /\ q[at] = k
  BY <1>1 DEF Elements
<1>3. Removed(q, k) = new
  BY <1>2, <1>1 DEF Removed
<1> HIDE DEF at
<1>4. Len(q) - 1 \in Nat
  BY <1>1, <1>2
<1>5. \A i \in 1..Len(q) - 1 :
        /\ new[i] \in S
        /\ i < at => i \in 1..Len(q) /\ new[i] = q[i]
        /\ ~(i < at) => i + 1 \in 1..Len(q) /\ new[i] = q[i + 1]
  BY <1>1, <1>2
<1>6. new \in [1..Len(q) - 1 -> S]
  BY <1>5
<1> HIDE DEF new
<1>7. new \in Seq(S) /\ Len(new) = Len(q) - 1 /\ DOMAIN new = 1..Len(q) - 1
  BY <1>4, <1>6
<1>8. NoRepeat(new)
  <2> SUFFICES ASSUME NEW i \in 1..Len(q) - 1, NEW j \in 1..Len(q) - 1, new[i] = new[j]
               PROVE  i = j
    BY <1>7 DEF NoRepeat
  <2> DEFINE a == IF i < at THEN i ELSE i + 1
             b == IF j < at THEN j ELSE j + 1
  <2>1. a \in 1..Len(q) /\ b \in 1..Len(q) /\ new[i] = q[a] /\ new[j] = q[b]
    BY <1>5
  <2>2. a = b
    BY <1>1, <2>1 DEF NoRepeat
  <2> QED BY <1>1, <1>2, <2>2
<1>9. Elements(new) = Elements(q) \ {k}
  <2>1. ASSUME NEW i \in 1..Len(q) - 1 PROVE new[i] \in Elements(q) \ {k}
    <3> DEFINE a == IF i < at THEN i ELSE i + 1
    <3>1. a \in 1..Len(q) /\ a # at /\ new[i] = q[a]
      BY <1>1, <1>2, <1>5
    <3> QED BY <1>1, <1>2, <3>1 DEF Elements, NoRepeat
  <2>2. ASSUME NEW x \in Elements(q), x # k PROVE x \in Elements(new)
    <3>1. PICK i \in 1..Len(q) : q[i] = x
      BY <1>1 DEF Elements
    <3>2. i # at
      BY <1>2, <2>2, <3>1
    <3> DEFINE a == IF i < at THEN i ELSE i - 1
    <3>3. a \in 1..Len(q) - 1 /\ (i < at => a < at /\ a = i)
          /\ (~(i < at) => ~(a < at) /\ a + 1 = i)
      BY <1>1, <1>2, <3>2
    <3>4. new[a] = q[i]
      BY <1>5, <3>3
    <3> QED BY <1>7, <3>1, <3>3, <3>4 DEF Elements
  <2> QED BY <1>7, <2>1, <2>2 DEF Elements
<1> QED BY <1>3, <1>7, <1>8, <1>9 DEF Order

\* The key used last moves behind the others.
LEMMA StampThere ==
  ASSUME NEW S, NEW q \in Order(S), NEW k \in Elements(q), k \in S
  PROVE  /\ Stamped(q, k) \in Order(S)
         /\ Elements(Stamped(q, k)) = Elements(q)
         /\ Len(Stamped(q, k)) = Len(q)
<1> DEFINE r == Removed(q, k)
<1>1. r \in Order(S) /\ Elements(r) = Elements(q) \ {k} /\ Len(r) = Len(q) - 1
      /\ Len(q) \in Nat
  BY RemoveThere DEF Order
<1>2. k \notin Elements(r)
  BY <1>1
<1>3. Stamped(q, k) = Append(r, k)
  BY DEF Stamped
<1> HIDE DEF r
<1>4. /\ Stamped(r, k) = Append(r, k)
      /\ Stamped(r, k) \in Order(S)
      /\ Elements(Stamped(r, k)) = Elements(r) \cup {k}
      /\ Len(Stamped(r, k)) = Len(r) + 1
  BY <1>1, <1>2, StampNew
<1> QED BY <1>1, <1>3, <1>4

\* Taking out the oldest leaves the tail.
LEMMA RemoveOldest ==
  ASSUME NEW S, NEW q \in Order(S), q # <<>>
  PROVE  /\ Head(q) \in Elements(q) /\ Removed(q, Head(q)) = Tail(q)
         /\ \A k \in S : Tail(Append(q, k)) = Append(Tail(q), k)
<1>1. /\ q \in Seq(S) /\ NoRepeat(q) /\ Len(q) \in Nat \ {0} /\ DOMAIN q = 1..Len(q)
      /\ Head(q) = q[1] /\ Tail(q) \in Seq(S) /\ Len(Tail(q)) = Len(q) - 1
      /\ \A i \in 1..Len(q) - 1 : Tail(q)[i] = q[i + 1]
  BY DEF Order
<1>2. Head(q) \in Elements(q)
  BY <1>1 DEF Elements
<1>3. (CHOOSE i \in DOMAIN q : q[i] = Head(q)) = 1
  BY <1>1 DEF NoRepeat
<1>4. Removed(q, Head(q)) = [i \in 1..Len(q) - 1 |-> IF i < 1 THEN q[i] ELSE q[i + 1]]
  BY <1>1, <1>3 DEF Removed
<1>5. Removed(q, Head(q)) = [i \in 1..Len(q) - 1 |-> Tail(q)[i]]
  BY <1>1, <1>4
<1>6. Tail(q) = [i \in 1..Len(q) - 1 |-> Tail(q)[i]]
  <2> DEFINE r == Tail(q)
  <2>1. r \in Seq(S) /\ Len(r) = Len(q) - 1
    BY <1>1
  <2> HIDE DEF r
  <2>2. r = [i \in 1..Len(r) |-> r[i]]
    BY <2>1
  <2> QED BY <2>1, <2>2 DEF r
<1>7. ASSUME NEW k \in S PROVE Tail(Append(q, k)) = Append(Tail(q), k)
  <2>1. /\ Tail(Append(q, k)) \in Seq(S) /\ Append(Tail(q), k) \in Seq(S)
        /\ Len(Tail(Append(q, k))) = Len(q) /\ Len(Append(Tail(q), k)) = Len(q)
    BY <1>1
  <2>2. ASSUME NEW i \in 1..Len(q) PROVE Tail(Append(q, k))[i] = Append(Tail(q), k)[i]
    <3>1. Tail(Append(q, k))[i] = Append(q, k)[i + 1]
      BY <1>1
    <3>2. CASE i = Len(q)
      BY <1>1, <3>1, <3>2
    <3>3. CASE i # Len(q)
      <4>1. i \in 1..(Len(q) - 1)
        <5> DEFINE n == Len(q)
        <5>1. n \in Nat /\ i \in 1..n /\ i # n
          BY <1>1, <3>3
        <5> HIDE DEF n
        <5>2. i \in 1..(n - 1)
          BY <5>1
        <5> QED BY <5>2 DEF n
      <4> QED BY <1>1, <3>1, <4>1
    <3> QED BY <3>2, <3>3
  <2> DEFINE a == Tail(Append(q, k))
             b == Append(Tail(q), k)
  <2>3. /\ a \in Seq(S) /\ b \in Seq(S) /\ Len(a) = Len(b)
        /\ \A i \in 1..Len(b) : a[i] = b[i]
    BY <2>1, <2>2
  <2> HIDE DEF a, b
  <2>4. a = [i \in 1..Len(a) |-> a[i]] /\ b = [i \in 1..Len(b) |-> b[i]]
    BY <2>3
  <2>5. a = b
    BY <2>3, <2>4
  <2> QED BY <2>5 DEF a, b
<1> QED BY <1>2, <1>5, <1>6, <1>7

-----------------------------------------------------------------------------
\* Where the calls are, for any hashes.
CallTyped ==
  /\ tpc \in [Threads -> {"idle", "local", "shared", "build", "publish"}]
  /\ DOMAIN want = Threads /\ want = [t \in Threads |-> want[t]]
  /\ \A t \in Threads : tpc[t] # "idle" => want[t] \in Wants

\* A thread that begins a call, goes on with it, or returns from it.
LEMMA CallStep ==
  ASSUME CallTyped, [Next]_vars
  PROVE  CallTyped'
<1>1. CASE UNCHANGED <<tpc, want>>
  BY <1>1 DEF CallTyped
<1>2. ASSUME NEW r \in Threads, NEW where \in {"local", "shared", "build", "publish"},
             NEW w \in Wants,
             tpc' = [tpc EXCEPT ![r] = where], want' = [want EXCEPT ![r] = w]
      PROVE  CallTyped'
  BY <1>2 DEF CallTyped
<1>3. ASSUME NEW r \in Threads, NEW where \in {"shared", "build", "publish"},
             tpc[r] # "idle", tpc' = [tpc EXCEPT ![r] = where], want' = want
      PROVE  CallTyped'
  BY <1>3 DEF CallTyped
<1>4. ASSUME NEW r \in Threads, NEW outcome, Return(r, outcome)
      PROVE  CallTyped'
  BY <1>4 DEF CallTyped, Return, Go
<1>5. CASE UNCHANGED vars
  BY <1>1, <1>5 DEF vars
<1>6. CASE Next
  <2>1. PICK r \in Threads :
          \/ \E w \in Wants : Begin(r, w)
          \/ LookLocal(r) \/ LookShared(r) \/ Build(r) \/ Publish(r)
    BY <1>6 DEF Next
  <2>2. CASE \E w \in Wants : Begin(r, w)
    BY <1>2, <2>2 DEF Begin, Go
  <2>3. CASE LookLocal(r)
    <3>1. (\E outcome : Return(r, outcome)) \/ (Go(r, "shared") /\ want' = want)
      BY <2>3 DEF LookLocal
    <3> QED BY <1>3, <1>4, <2>3, <3>1 DEF LookLocal, Go
  <2>4. CASE LookShared(r)
    <3>1. (\E outcome : Return(r, outcome)) \/ (Go(r, "build") /\ want' = want)
      BY <2>4 DEF LookShared
    <3> QED BY <1>3, <1>4, <2>4, <3>1 DEF LookShared, Go
  <2>5. CASE Build(r)
    <3>1. (\E outcome : Return(r, outcome)) \/ (Go(r, "publish") /\ want' = want)
      BY <2>5 DEF Build
    <3> QED BY <1>3, <1>4, <2>5, <3>1 DEF Build, Go
  <2>6. CASE Publish(r)
    BY <1>4, <2>6 DEF Publish
  <2> QED BY <2>1, <2>2, <2>3, <2>4, <2>5, <2>6
<1> QED BY <1>5, <1>6

-----------------------------------------------------------------------------
\* L1 has the keys used last, under the sources they stand for.
Latest ==
  /\ DOMAIN l1 = Threads /\ l1 = [t \in Threads |-> l1[t]]
  /\ recency \in [Threads -> Order(Keys)] /\ used = recency
  /\ \A t \in Threads : /\ DOMAIN l1[t] = Elements(recency[t])
                        /\ Len(recency[t]) <= LocalRoom
  /\ \A t \in Threads : \A w \in Wants :
       Key(w) \in DOMAIN l1[t] => l1[t][Key(w)].source = w.source

\* A thread that missed L1 still misses it when it inserts: nobody else does.
Missed ==
  \A t \in Threads : tpc[t] \in {"shared", "build"} => Key(want[t]) \notin DOMAIN l1[t]

\* Inserting a key that was missed takes the place of the one used least
\* recently, exactly when there was no room.
LEMMA InsertLatest ==
  ASSUME NoCollision, Latest, NEW t \in Threads, want[t] \in Wants,
         Key(want[t]) \notin DOMAIN l1[t], NEW pipeline, InsertL1(t, pipeline)
  PROVE  /\ Latest'
         /\ \A r \in Threads : r # t => l1'[r] = l1[r]
<1> DEFINE k == Key(want[t])
           q == recency[t]
           full == Cardinality(DOMAIN l1[t]) >= MaxEntries /\ q # <<>>
           kept == IF full THEN Without(l1[t], Victim(t)) ELSE l1[t]
           order == IF full THEN Removed(q, Victim(t)) ELSE q
           new == [source |-> want[t].source, pipeline |-> pipeline]
<1>1. /\ l1' = [l1 EXCEPT ![t] = With(kept, k, new)]
      /\ recency' = [recency EXCEPT ![t] = Stamped(order, k)]
      /\ used' = [used EXCEPT ![t] = UsedNow(used[t], k)]
  BY DEF InsertL1
<1>2. k \in Keys /\ new.source = want[t].source
  BY DEF Keys
<1>3. /\ q \in Order(Keys) /\ q \in Seq(Keys) /\ Len(q) \in Nat /\ Len(q) <= LocalRoom
      /\ DOMAIN l1[t] = Elements(q) /\ Cardinality(DOMAIN l1[t]) = Len(q)
      /\ k \notin Elements(q)
  BY OrderLength DEF Latest, Order
<1>4. /\ Stamped(q, k) = Append(q, k) /\ Stamped(q, k) \in Order(Keys)
      /\ Elements(Stamped(q, k)) = Elements(q) \cup {k}
      /\ Len(Stamped(q, k)) = Len(q) + 1
  <2> HIDE DEF k, q
  <2> QED BY <1>2, <1>3, StampNew
<1>5. LocalRoom \in Nat \ {0} /\ MaxEntries \in Nat
      /\ LocalRoom = (IF MaxEntries = 0 THEN 1 ELSE MaxEntries)
  BY CacheAssumption DEF LocalRoom
<1>6. full <=> Len(q) >= LocalRoom
  <2>1. q # <<>> <=> Len(q) # 0
    <3> HIDE DEF q
    <3> QED BY <1>3
  <2>2. full <=> Len(q) >= MaxEntries /\ Len(q) # 0
    BY <1>3, <2>1
  <2> HIDE DEF full, q
  <2> QED BY <1>3, <1>5, <2>2
<1>7. /\ Stamped(order, k) = UsedNow(q, k) /\ Stamped(order, k) \in Order(Keys)
      /\ Len(Stamped(order, k)) <= LocalRoom
      /\ Elements(Stamped(order, k)) = DOMAIN kept \cup {k}
      /\ DOMAIN kept \subseteq DOMAIN l1[t]
      /\ \A j \in DOMAIN kept : kept[j] = l1[t][j]
  <2>1. CASE ~full
    <3>1. order = q /\ kept = l1[t] /\ Len(q) + 1 <= LocalRoom
      BY <1>3, <1>5, <1>6, <2>1
    <3>2. UsedNow(q, k) = Stamped(q, k)
      BY <1>3, <1>4, <1>5, <3>1 DEF UsedNow
    <3> HIDE DEF q, k, order, kept
    <3> QED BY <1>3, <1>4, <3>1, <3>2
  <2>2. CASE full
    <3>1. q # <<>> /\ Victim(t) = Head(q)
      BY <2>2 DEF Victim
    <3>2. /\ Head(q) \in Elements(q) /\ Removed(q, Head(q)) = Tail(q)
          /\ Tail(Append(q, k)) = Append(Tail(q), k)
      <4> HIDE DEF q, k
      <4> QED BY <1>2, <1>3, <3>1, RemoveOldest
    <3>3. order = Tail(q) /\ kept = Without(l1[t], Head(q))
      BY <2>2, <3>1, <3>2
    <3>4. /\ Tail(q) \in Order(Keys) /\ Elements(Tail(q)) = Elements(q) \ {Head(q)}
          /\ Len(Tail(q)) = Len(q) - 1
      <4> DEFINE h == Head(q)
      <4>1. h \in Elements(q) /\ Removed(q, h) = Tail(q)
        BY <3>2
      <4> HIDE DEF q, h
      <4>2. /\ Removed(q, h) \in Order(Keys) /\ Len(Removed(q, h)) = Len(q) - 1
            /\ Elements(Removed(q, h)) = Elements(q) \ {h}
        BY <1>3, <4>1, RemoveThere
      <4> QED BY <4>1, <4>2 DEF h
    <3>5. UsedNow(q, k) = Append(Tail(q), k)
      BY <1>3, <1>4, <1>5, <1>6, <2>2, <3>2 DEF UsedNow
    <3>6. /\ Stamped(Tail(q), k) = Append(Tail(q), k)
          /\ Stamped(Tail(q), k) \in Order(Keys)
          /\ Elements(Stamped(Tail(q), k)) = Elements(Tail(q)) \cup {k}
          /\ Len(Stamped(Tail(q), k)) = Len(Tail(q)) + 1
      <4>1. k \notin Elements(Tail(q))
        BY <1>3, <3>4
      <4> HIDE DEF q, k
      <4> QED BY <1>2, <3>4, <4>1, StampNew
    <3>7. /\ DOMAIN kept = DOMAIN l1[t] \ {Head(q)}
          /\ \A j \in DOMAIN kept : kept[j] = l1[t][j]
      BY <3>3 DEF Without
    <3>8. Len(Stamped(order, k)) <= LocalRoom
      BY <1>3, <1>5, <3>3, <3>4, <3>6
    <3> HIDE DEF q, k, order, kept
    <3> QED BY <1>3, <3>3, <3>4, <3>5, <3>6, <3>7, <3>8
  <2> QED BY <2>1, <2>2
<1> HIDE DEF k, q, full, kept, order, new
<1>8. /\ DOMAIN l1 = Threads /\ l1 = [r \in Threads |-> l1[r]]
      /\ recency \in [Threads -> Order(Keys)] /\ used = recency
  BY DEF Latest
<1>9. /\ DOMAIN l1' = Threads /\ l1' = [r \in Threads |-> l1'[r]]
      /\ l1'[t] = With(kept, k, new)
      /\ \A r \in Threads : r # t => l1'[r] = l1[r]
  BY <1>1, <1>8
<1>10. /\ recency' \in [Threads -> Order(Keys)]
       /\ recency'[t] = Stamped(order, k)
       /\ \A r \in Threads : r # t => recency'[r] = recency[r]
  BY <1>1, <1>7, <1>8
<1>11. used' = recency'
  BY <1>1, <1>7, <1>8 DEF q
<1>12. DOMAIN l1'[t] = DOMAIN kept \cup {k} /\ l1'[t][k] = new
       /\ \A j \in DOMAIN kept : j # k => l1'[t][j] = kept[j]
  BY <1>9 DEF With
<1>13. ASSUME NEW r \in Threads
       PROVE  /\ DOMAIN l1'[r] = Elements(recency'[r]) /\ Len(recency'[r]) <= LocalRoom
              /\ \A w \in Wants : Key(w) \in DOMAIN l1'[r] => l1'[r][Key(w)].source = w.source
  <2>1. CASE r # t
    BY <1>9, <1>10, <2>1 DEF Latest
  <2>2. CASE r = t
    <3>1. DOMAIN l1'[t] = Elements(recency'[t]) /\ Len(recency'[t]) <= LocalRoom
      BY <1>7, <1>10, <1>12
    <3>2. ASSUME NEW w \in Wants, Key(w) \in DOMAIN l1'[t]
          PROVE  l1'[t][Key(w)].source = w.source
      <4>1. CASE Key(w) = k
        <5>1. w = want[t]
          BY <4>1, KeyOwn DEF k
        <5> QED BY <1>2, <1>12, <4>1, <5>1
      <4>2. CASE Key(w) # k
        <5>1. Key(w) \in DOMAIN kept /\ l1'[t][Key(w)] = l1[t][Key(w)]
          BY <1>7, <1>12, <3>2, <4>2
        <5> QED BY <1>7, <5>1 DEF Latest
      <4> QED BY <4>1, <4>2
    <3> QED BY <2>2, <3>1, <3>2
  <2> QED BY <2>1, <2>2
<1>14. Latest'
  <2>1. \A r \in Threads : DOMAIN l1'[r] = Elements(recency'[r]) /\ Len(recency'[r]) <= LocalRoom
    BY <1>13
  <2>2. \A r \in Threads : \A w \in Wants :
          Key(w) \in DOMAIN l1'[r] => l1'[r][Key(w)].source = w.source
    BY <1>13
  <2> QED BY <1>9, <1>10, <1>11, <2>1, <2>2 DEF Latest, Key, Keys, Wants, LocalRoom
<1> QED BY <1>9, <1>14


LatestInv == CallTyped /\ Latest /\ Missed

\* Steps that leave L1 alone, and of the calls change that of one thread only.
LEMMA LocalUntouched ==
  ASSUME LatestInv, CallTyped', UNCHANGED <<l1, recency, used>>, NEW t \in Threads,
         tpc' = [tpc EXCEPT ![t] = tpc'[t]],
         \A r \in Threads : r # t => want'[r] = want[r],
         tpc'[t] \in {"shared", "build"} =>
           want'[t] = want[t] /\ Key(want[t]) \notin DOMAIN l1[t]
  PROVE  LatestInv'
<1>1. Latest'
  BY DEF LatestInv, Latest, Key, Keys, Wants, LocalRoom
<1>2. \A r \in Threads : r # t => tpc'[r] = tpc[r]
  BY DEF LatestInv, CallTyped
<1>3. Missed'
  <2> SUFFICES ASSUME NEW r \in Threads, tpc'[r] \in {"shared", "build"}
               PROVE  Key(want'[r]) \notin DOMAIN l1'[r]
    BY DEF Missed, Key
  <2>1. CASE r = t
    BY <2>1
  <2>2. CASE r # t
    BY <1>2, <2>2 DEF LatestInv, Missed
  <2> QED BY <2>1, <2>2
<1> QED BY <1>1, <1>3 DEF LatestInv

\* A step that inserts the key its thread missed.
LEMMA LocalInserted ==
  ASSUME NoCollision, LatestInv, CallTyped', NEW t \in Threads,
         tpc[t] \in {"shared", "build"}, NEW pipeline, InsertL1(t, pipeline),
         tpc' = [tpc EXCEPT ![t] = tpc'[t]], tpc'[t] \notin {"shared", "build"},
         \A r \in Threads : r # t => want'[r] = want[r]
  PROVE  LatestInv'
<1>1. want[t] \in Wants /\ Key(want[t]) \notin DOMAIN l1[t]
  BY DEF LatestInv, CallTyped, Missed
<1>2. Latest' /\ \A r \in Threads : r # t => l1'[r] = l1[r]
  BY <1>1, InsertLatest DEF LatestInv
<1>3. \A r \in Threads : r # t => tpc'[r] = tpc[r]
  BY DEF LatestInv, CallTyped
<1>4. Missed'
  <2> SUFFICES ASSUME NEW r \in Threads, tpc'[r] \in {"shared", "build"}
               PROVE  Key(want'[r]) \notin DOMAIN l1'[r]
    BY DEF Missed, Key
  <2> QED BY <1>2, <1>3 DEF LatestInv, Missed
<1> QED BY <1>2, <1>4 DEF LatestInv

\* A hit stamps a key that is there.
LEMMA LocalHit ==
  ASSUME LatestInv, CallTyped', NEW t \in Threads, tpc[t] = "local", Hit(t), LookLocal(t)
  PROVE  LatestInv'
<1> DEFINE k == Key(want[t])
           q == recency[t]
<1>1. /\ recency' = [recency EXCEPT ![t] = Stamped(q, k)]
      /\ used' = [used EXCEPT ![t] = UsedNow(used[t], k)]
      /\ l1' = l1 /\ tpc' = [tpc EXCEPT ![t] = "idle"]
      /\ want' = [want EXCEPT ![t] = NoWant]
  BY DEF LookLocal, Return, Go
<1>2. /\ DOMAIN l1 = Threads /\ l1 = [r \in Threads |-> l1[r]]
      /\ recency \in [Threads -> Order(Keys)] /\ used = recency
      /\ q \in Order(Keys) /\ k \in Elements(q) /\ k \in Keys
      /\ Len(q) \in Nat /\ Len(q) <= LocalRoom
  <2>1. want[t] \in Wants
    BY DEF LatestInv, CallTyped
  <2>2. k \in Keys
    BY <2>1 DEF Keys
  <2>3. q \in Order(Keys) /\ Len(q) <= LocalRoom /\ k \in Elements(q)
    BY DEF LatestInv, Latest, Hit
  <2>4. Len(q) \in Nat
    BY <2>3 DEF Order
  <2> QED BY <2>2, <2>3, <2>4 DEF LatestInv, Latest
<1> HIDE DEF k
<1>3. /\ Stamped(q, k) \in Order(Keys)
      /\ Elements(Stamped(q, k)) = Elements(q)
      /\ Len(Stamped(q, k)) = Len(q)
  <2> HIDE DEF q
  <2> QED BY <1>2, StampThere
<1>4. UsedNow(q, k) = Stamped(q, k)
  <2>1. LocalRoom \in Nat
    BY CacheAssumption DEF LocalRoom
  <2> HIDE DEF q
  <2> QED BY <1>2, <1>3, <2>1 DEF UsedNow
<1>5. /\ recency' \in [Threads -> Order(Keys)] /\ used' = recency'
      /\ \A r \in Threads : /\ Elements(recency'[r]) = Elements(recency[r])
                            /\ Len(recency'[r]) = Len(recency[r])
  BY <1>1, <1>2, <1>3, <1>4
<1>6. Latest'
  BY <1>1, <1>2, <1>5 DEF LatestInv, Latest, Key, Keys, Wants, LocalRoom
<1>7. \A r \in Threads : r # t => tpc'[r] = tpc[r] /\ want'[r] = want[r]
  BY <1>1 DEF LatestInv, CallTyped
<1>8. tpc'[t] = "idle"
  BY <1>1 DEF LatestInv, CallTyped
<1>9. Missed'
  <2> SUFFICES ASSUME NEW r \in Threads, tpc'[r] \in {"shared", "build"}
               PROVE  Key(want'[r]) \notin DOMAIN l1'[r]
    BY DEF Missed, Key
  <2> QED BY <1>1, <1>7, <1>8 DEF LatestInv, Missed
<1> QED BY <1>6, <1>9 DEF LatestInv

\* What a return does to the calls.
LEMMA ReturnCall ==
  ASSUME CallTyped, NEW t \in Threads, NEW outcome, Return(t, outcome)
  PROVE  /\ tpc' = [tpc EXCEPT ![t] = tpc'[t]] /\ tpc'[t] = "idle"
         /\ \A r \in Threads : r # t => want'[r] = want[r]
BY DEF CallTyped, Return, Go

LEMMA StepLatest == ASSUME NoCollision, LatestInv, [Next]_vars PROVE LatestInv'
<1>1. CallTyped'
  BY CallStep DEF LatestInv
<1>2. CASE UNCHANGED vars
  BY <1>2 DEF vars, LatestInv, CallTyped, Latest, Missed, Key, Keys, Wants, LocalRoom
<1>3. CASE Next
  <2>1. PICK t \in Threads :
          \/ \E w \in Wants : Begin(t, w)
          \/ LookLocal(t) \/ LookShared(t) \/ Build(t) \/ Publish(t)
    BY <1>3 DEF Next
  <2>2. tpc \in [Threads -> {"idle", "local", "shared", "build", "publish"}]
        /\ DOMAIN want = Threads
    BY DEF LatestInv, CallTyped
  <2>3. ASSUME NEW outcome, Return(t, outcome)
        PROVE  /\ tpc' = [tpc EXCEPT ![t] = tpc'[t]] /\ tpc'[t] = "idle"
               /\ \A r \in Threads : r # t => want'[r] = want[r]
    BY <2>3, ReturnCall DEF LatestInv
  <2>4. CASE \E w \in Wants : Begin(t, w)
    <3>1. /\ tpc' = [tpc EXCEPT ![t] = tpc'[t]] /\ tpc'[t] = "local"
          /\ \A r \in Threads : r # t => want'[r] = want[r]
          /\ UNCHANGED <<l1, recency, used>>
      BY <2>2, <2>4 DEF Begin, Go
    <3> QED BY <1>1, <3>1, LocalUntouched
  <2>5. CASE LookLocal(t)
    <3>1. CASE Hit(t)
      BY <1>1, <2>5, <3>1, LocalHit DEF LookLocal
    <3>2. CASE ~Hit(t)
      <4>1. /\ tpc' = [tpc EXCEPT ![t] = "shared"] /\ want' = want
            /\ UNCHANGED <<l1, recency, used>> /\ tpc[t] = "local"
        BY <2>5, <3>2 DEF LookLocal, Go
      <4>2. Key(want[t]) \notin DOMAIN l1[t]
        <5>1. want[t] \in Wants
          BY <4>1 DEF LatestInv, CallTyped
        <5> QED BY <3>2, <5>1 DEF Hit, LatestInv, Latest
      <4>3. tpc' = [tpc EXCEPT ![t] = tpc'[t]]
        BY <2>2, <4>1
      <4> QED BY <1>1, <4>1, <4>2, <4>3, LocalUntouched
    <3> QED BY <3>1, <3>2
  <2>6. CASE LookShared(t)
    <3>1. CASE Key(want[t]) \in DOMAIN l2
      <4>1. /\ InsertL1(t, l2[Key(want[t])]) /\ tpc[t] = "shared"
            /\ Return(t, Answer(t, l2[Key(want[t])]))
        BY <2>6, <3>1 DEF LookShared
      <4>2. /\ tpc' = [tpc EXCEPT ![t] = tpc'[t]] /\ tpc'[t] = "idle"
            /\ \A r \in Threads : r # t => want'[r] = want[r]
        BY <2>3, <4>1
      <4> QED BY <1>1, <4>1, <4>2, LocalInserted
    <3>2. CASE Key(want[t]) \notin DOMAIN l2
      <4>1. /\ tpc' = [tpc EXCEPT ![t] = "build"] /\ want' = want /\ tpc[t] = "shared"
            /\ UNCHANGED <<l1, recency, used>>
        BY <2>6, <3>2 DEF LookShared, Go
      <4>2. Key(want[t]) \notin DOMAIN l1[t]
        BY <4>1 DEF LatestInv, Missed
      <4>3. tpc' = [tpc EXCEPT ![t] = tpc'[t]]
        BY <2>2, <4>1
      <4> QED BY <1>1, <4>1, <4>2, <4>3, LocalUntouched
    <3> QED BY <3>1, <3>2
  <2>7. CASE Build(t)
    <3>1. CASE \E pipeline : InsertL1(t, pipeline) /\ Go(t, "publish") /\ want' = want
      <4>1. PICK pipeline : InsertL1(t, pipeline)
        BY <3>1
      <4>2. /\ tpc' = [tpc EXCEPT ![t] = tpc'[t]] /\ tpc'[t] = "publish" /\ want' = want
            /\ tpc[t] = "build"
        BY <2>2, <2>7, <3>1 DEF Go, Build
      <4> QED BY <1>1, <4>1, <4>2, LocalInserted
    <3>2. CASE Return(t, [result |-> "error"]) /\ UNCHANGED <<l1, recency, used>>
      <4>1. /\ tpc' = [tpc EXCEPT ![t] = tpc'[t]] /\ tpc'[t] = "idle"
            /\ \A r \in Threads : r # t => want'[r] = want[r]
        BY <2>3, <3>2
      <4> QED BY <1>1, <3>2, <4>1, LocalUntouched
    <3> QED BY <2>7, <3>1, <3>2 DEF Build
  <2>8. CASE Publish(t)
    <3>1. Return(t, Answer(t, built[t])) /\ UNCHANGED <<l1, recency, used>>
      BY <2>8 DEF Publish
    <3>2. /\ tpc' = [tpc EXCEPT ![t] = tpc'[t]] /\ tpc'[t] = "idle"
          /\ \A r \in Threads : r # t => want'[r] = want[r]
      BY <2>3, <3>1
    <3> QED BY <1>1, <3>1, <3>2, LocalUntouched
  <2> QED BY <2>1, <2>4, <2>5, <2>6, <2>7, <2>8
<1> QED BY <1>2, <1>3

\* For any number of threads and any limit, with hashes that do not collide:
\* L1 holds exactly the pipelines its thread used last, and its stamps tell
\* their order.
THEOREM LatestUsedHeld ==
  ASSUME NoCollision
  PROVE  Spec => []HoldsLatestUsed
<1>1. Init => LatestInv
  <2> SUFFICES ASSUME Init PROVE LatestInv
    OBVIOUS
  <2>1. CallTyped /\ \A t \in Threads : tpc[t] = "idle"
    BY DEF Init, CallTyped
  <2>2. /\ DOMAIN l1 = Threads /\ l1 = [t \in Threads |-> l1[t]]
        /\ used = recency /\ recency = [t \in Threads |-> <<>>]
        /\ \A t \in Threads : l1[t] = Empty /\ recency[t] = <<>>
    BY DEF Init
  <2>3. DOMAIN Empty = {} /\ Elements(<<>>) = {}
    BY DEF Empty, Elements
  <2>4. <<>> \in Order(Keys) /\ Len(<<>>) = 0
    BY DEF Order, NoRepeat
  <2>5. LocalRoom \in Nat
    BY CacheAssumption DEF LocalRoom
  <2>6. Latest
    <3>1. recency \in [Threads -> Order(Keys)]
      BY <2>2, <2>4
    <3>2. \A t \in Threads : DOMAIN l1[t] = {} /\ Elements(recency[t]) = {} /\ Len(recency[t]) = 0
      BY <2>2, <2>3, <2>4
    <3>3. \A t \in Threads : DOMAIN l1[t] = Elements(recency[t]) /\ Len(recency[t]) <= LocalRoom
      <4>1. 0 <= LocalRoom
        BY <2>5
      <4> QED BY <3>2, <4>1, Zenon
    <3>4. \A t \in Threads : \A w \in Wants :
            Key(w) \in DOMAIN l1[t] => l1[t][Key(w)].source = w.source
      BY <3>2
    <3> QED BY <2>2, <3>1, <3>3, <3>4 DEF Latest
  <2> QED BY <2>1, <2>6 DEF LatestInv, Missed
<1>2. LatestInv /\ [Next]_vars => LatestInv'
  BY StepLatest
<1>3. LatestInv => HoldsLatestUsed
  BY DEF LatestInv, Latest, HoldsLatestUsed
<1> QED BY <1>1, <1>2, <1>3, PTL DEF Spec

-----------------------------------------------------------------------------
\* The threads at a point of the call for a kernel: those that missed it in
\* L2, and those that built it and have yet to publish it.
At(where, k, tp, wa) == {t \in Threads : tp[t] = where /\ Key(wa[t]) = k}
Building(k) == At("build", k, tpc, want)
Publishing(k) == At("publish", k, tpc, want)

\* While a kernel is not in L2, all that built it since it was there last are
\* still to publish it.  Once it is there, only those build it that missed it
\* before.
BuildsInv ==
  /\ builds \in [Keys -> Nat]
  /\ IsFiniteSet(DOMAIN l2) /\ Cardinality(DOMAIN l2) <= SharedMax
  /\ \A k \in Keys :
       /\ k \notin DOMAIN l2 => builds[k] <= Cardinality(Publishing(k))
       /\ k \in DOMAIN l2 => builds[k] + Cardinality(Building(k)) <= Cardinality(Threads)

\* Building and publishing threads are different ones.
LEMMA BusyThreads ==
  ASSUME IsFiniteSet(Threads), NEW k
  PROVE  /\ IsFiniteSet(Building(k)) /\ IsFiniteSet(Publishing(k))
         /\ Cardinality(Building(k)) \in Nat /\ Cardinality(Publishing(k)) \in Nat
         /\ Cardinality(Threads) \in Nat
         /\ Cardinality(Building(k)) + Cardinality(Publishing(k)) <= Cardinality(Threads)
<1> DEFINE B == Building(k)
           P == Publishing(k)
<1>1. B \subseteq Threads /\ P \subseteq Threads /\ B \cap P = {} /\ B \cup P \subseteq Threads
  BY DEF Building, Publishing, At
<1> HIDE DEF B, P
<1>2. IsFiniteSet(B) /\ IsFiniteSet(P) /\ Cardinality(B \cup P) <= Cardinality(Threads)
  BY <1>1, FS_Subset
<1>3. Cardinality(B) \in Nat /\ Cardinality(P) \in Nat /\ Cardinality(Threads) \in Nat
  BY <1>2, FS_CardinalityType
<1>4. Cardinality(B \cup P) = Cardinality(B) + Cardinality(P)
  <2>1. Cardinality(B \cup P) = Cardinality(B) + Cardinality(P) - Cardinality(B \cap P)
    BY <1>2, FS_Union
  <2>2. Cardinality(B \cap P) = 0
    BY <1>1, FS_EmptySet
  <2> QED BY <1>3, <2>1, <2>2
<1> QED BY <1>2, <1>3, <1>4 DEF B, P

\* Steps that build and publish nothing: a thread may come to build what it
\* did not find in L2, or give up building.
LEMMA NothingBuilt ==
  ASSUME IsFiniteSet(Threads), BuildsInv, CallTyped, UNCHANGED <<l2, builds>>,
         NEW t \in Threads,
         \A r \in Threads : r # t => tpc'[r] = tpc[r] /\ want'[r] = want[r],
         tpc[t] # "publish", tpc'[t] # "publish",
         tpc'[t] = "build" => Key(want'[t]) \notin DOMAIN l2
  PROVE  BuildsInv'
<1>1. ASSUME NEW k \in Keys
      PROVE  /\ Publishing(k)' = Publishing(k)
             /\ k \in DOMAIN l2 => Cardinality(Building(k)') <= Cardinality(Building(k))
  <2>1. Publishing(k)' = Publishing(k)
    BY DEF Publishing, Key, At
  <2>2. k \in DOMAIN l2 => Building(k)' \subseteq Building(k)
    BY DEF Building, Key, At
  <2>3. k \in DOMAIN l2 => Cardinality(Building(k)') <= Cardinality(Building(k))
    BY <2>2, BusyThreads, FS_Subset
  <2> QED BY <2>1, <2>3
<1>2. ASSUME NEW k \in Keys
      PROVE  /\ k \notin DOMAIN l2' => builds'[k] <= Cardinality(Publishing(k)')
             /\ k \in DOMAIN l2' =>
                  builds'[k] + Cardinality(Building(k)') <= Cardinality(Threads)
  <2>1. /\ Cardinality(Building(k)) \in Nat /\ Cardinality(Threads) \in Nat
        /\ builds[k] \in Nat
    BY BusyThreads DEF BuildsInv
  <2>2. Building(k)' \subseteq Threads
    BY DEF Building, At
  <2>3. Cardinality(Building(k)') \in Nat
    BY <2>2, FS_Subset, FS_CardinalityType
  <2> QED BY <1>1, <2>1, <2>3 DEF BuildsInv
<1> QED BY <1>2 DEF BuildsInv, Keys, Key, Wants

LEMMA BuildCounted ==
  ASSUME IsFiniteSet(Threads), BuildsInv, CallTyped, NEW t \in Threads,
         tpc[t] = "build", tpc' = [tpc EXCEPT ![t] = "publish"], want' = want, l2' = l2,
         builds' = [builds EXCEPT ![Key(want[t])] = @ + 1]
  PROVE  BuildsInv'
<1>1. PICK k \in Keys : k = Key(want[t])
  BY DEF CallTyped, Keys
<1>2. tpc'[t] = "publish" /\ \A r \in Threads : r # t => tpc'[r] = tpc[r]
  BY DEF CallTyped
<1>3. /\ builds' \in [Keys -> Nat] /\ builds'[k] = builds[k] + 1
      /\ \A j \in Keys : j # k => builds'[j] = builds[j]
  BY <1>1 DEF BuildsInv
<1>4. /\ Building(k)' = Building(k) \ {t} /\ Publishing(k)' = Publishing(k) \cup {t}
      /\ t \in Building(k) /\ t \notin Publishing(k)
      /\ \A j \in Keys : j # k => Building(j)' = Building(j) /\ Publishing(j)' = Publishing(j)
  BY <1>1, <1>2 DEF Building, Publishing, Key, At
<1>5. /\ Cardinality(Building(k)') = Cardinality(Building(k)) - 1
      /\ Cardinality(Publishing(k)') = Cardinality(Publishing(k)) + 1
      /\ Cardinality(Building(k)) \in Nat /\ Cardinality(Publishing(k)) \in Nat
  <2>1. /\ IsFiniteSet(Building(k)) /\ IsFiniteSet(Publishing(k))
        /\ Cardinality(Building(k)) \in Nat /\ Cardinality(Publishing(k)) \in Nat
    BY BusyThreads
  <2>2. Cardinality(Building(k) \ {t}) = Cardinality(Building(k)) - 1
    BY <1>4, <2>1, FS_RemoveElement
  <2>3. Cardinality(Publishing(k) \cup {t}) = Cardinality(Publishing(k)) + 1
    BY <1>4, <2>1, FS_AddElement
  <2> QED BY <1>4, <2>1, <2>2, <2>3
<1>6. ASSUME NEW j \in Keys
      PROVE  /\ j \notin DOMAIN l2' => builds'[j] <= Cardinality(Publishing(j)')
             /\ j \in DOMAIN l2' =>
                  builds'[j] + Cardinality(Building(j)') <= Cardinality(Threads)
  <2>1. CASE j = k
    <3>1. builds[k] \in Nat /\ Cardinality(Threads) \in Nat
      BY <1>1, BusyThreads DEF BuildsInv
    <3>2. k \notin DOMAIN l2 => builds[k] <= Cardinality(Publishing(k))
      BY <1>1 DEF BuildsInv
    <3>3. k \in DOMAIN l2 => builds[k] + Cardinality(Building(k)) <= Cardinality(Threads)
      BY <1>1 DEF BuildsInv
    <3>4. k \notin DOMAIN l2' => builds'[k] <= Cardinality(Publishing(k)')
      BY <1>3, <1>5, <3>1, <3>2
    <3>5. k \in DOMAIN l2' => builds'[k] + Cardinality(Building(k)') <= Cardinality(Threads)
      BY <1>3, <1>5, <3>1, <3>3
    <3>6. Building(j)' = Building(k)' /\ Publishing(j)' = Publishing(k)'
      BY <2>1 DEF Building, Publishing
    <3> QED BY <2>1, <3>4, <3>5, <3>6
  <2>2. CASE j # k
    BY <1>3, <1>4, <2>2 DEF BuildsInv
  <2> QED BY <2>1, <2>2
<1> QED BY <1>3, <1>6 DEF BuildsInv, Keys, Key, Wants

LEMMA PublishCounted ==
  ASSUME IsFiniteSet(Threads), BuildsInv, CallTyped, NEW t \in Threads, Publish(t)
  PROVE  BuildsInv'
<1> DEFINE k == Key(want[t])
<1>1. /\ tpc[t] = "publish" /\ want[t] \in Wants /\ k \in Keys
      /\ tpc' = [tpc EXCEPT ![t] = "idle"] /\ want' = [want EXCEPT ![t] = NoWant]
  BY DEF Publish, Return, Go, CallTyped, Keys
<1>2. tpc'[t] = "idle" /\ \A r \in Threads : r # t => tpc'[r] = tpc[r] /\ want'[r] = want[r]
  BY <1>1 DEF CallTyped
<1>3. PICK cache \in Room : l2' = With(cache, k, built[t])
  BY DEF Publish, Published
<1>4. builds' = [j \in Keys |-> IF j \in DOMAIN l2 \ DOMAIN l2' THEN 0 ELSE builds[j]]
  BY DEF Publish
<1>5. DOMAIN l2' = DOMAIN cache \cup {k}
  BY <1>3 DEF With
<1>6. /\ IsFiniteSet(DOMAIN cache) /\ Cardinality(DOMAIN cache) \in Nat
      /\ Cardinality(DOMAIN cache) + 1 <= SharedMax
  <2>1. /\ IsFiniteSet(DOMAIN l2) /\ Cardinality(DOMAIN l2) \in Nat
        /\ SharedMax \in Nat \ {0} /\ Cardinality(DOMAIN l2) <= SharedMax
    BY CacheAssumption, FS_CardinalityType DEF BuildsInv
  <2>2. CASE Cardinality(DOMAIN l2) < SharedMax
    BY <1>3, <2>1, <2>2 DEF Room
  <2>3. CASE ~(Cardinality(DOMAIN l2) < SharedMax)
    <3>1. PICK old \in DOMAIN l2 : DOMAIN cache = DOMAIN l2 \ {old}
      BY <1>3, <2>3 DEF Room, Without
    <3>2. /\ IsFiniteSet(DOMAIN cache)
          /\ Cardinality(DOMAIN cache) = Cardinality(DOMAIN l2) - 1
      BY <2>1, <3>1, FS_RemoveElement
    <3>3. Cardinality(DOMAIN cache) \in Nat
      BY <3>2, FS_CardinalityType
    <3> QED BY <2>1, <3>2, <3>3
  <2> QED BY <2>2, <2>3
<1>7. IsFiniteSet(DOMAIN l2') /\ Cardinality(DOMAIN l2') <= SharedMax
  <2>1. SharedMax \in Nat
    BY CacheAssumption
  <2>2. /\ IsFiniteSet(DOMAIN l2')
        /\ Cardinality(DOMAIN l2') =
             IF k \in DOMAIN cache THEN Cardinality(DOMAIN cache)
             ELSE Cardinality(DOMAIN cache) + 1
    BY <1>5, <1>6, FS_AddElement
  <2> QED BY <1>6, <2>1, <2>2
<1>8. /\ k \in DOMAIN l2'
      /\ \A j \in Keys : Building(j)' = Building(j)
      /\ \A j \in Keys : j # k => Publishing(j)' = Publishing(j)
  BY <1>1, <1>2, <1>5 DEF Building, Publishing, Key, At
<1> HIDE DEF k
<1>9. builds' \in [Keys -> Nat]
  BY <1>4 DEF BuildsInv
<1>10. ASSUME NEW j \in Keys
       PROVE  /\ j \notin DOMAIN l2' => builds'[j] <= Cardinality(Publishing(j)')
              /\ j \in DOMAIN l2' =>
                   builds'[j] + Cardinality(Building(j)') <= Cardinality(Threads)
  <2>1. /\ Cardinality(Building(j)) \in Nat /\ Cardinality(Publishing(j)) \in Nat
        /\ Cardinality(Threads) \in Nat /\ builds[j] \in Nat
        /\ Cardinality(Building(j)) + Cardinality(Publishing(j)) <= Cardinality(Threads)
    BY BusyThreads DEF BuildsInv
  <2>2. Building(j)' = Building(j)
    BY <1>8
  <2>3. CASE j \in DOMAIN l2'
    <3>1. builds'[j] = builds[j]
      BY <1>4, <2>3
    <3>2. CASE j \in DOMAIN l2
      BY <2>2, <2>3, <3>1, <3>2 DEF BuildsInv
    <3>3. CASE j \notin DOMAIN l2
      <4>1. builds[j] <= Cardinality(Publishing(j))
        BY <3>3 DEF BuildsInv
      <4>2. builds'[j] + Cardinality(Building(j)') <= Cardinality(Threads)
        BY <2>1, <2>2, <3>1, <4>1
      <4> QED BY <2>3, <4>2
    <3> QED BY <3>2, <3>3
  <2>4. CASE j \notin DOMAIN l2'
    <3>1. j # k /\ Publishing(j)' = Publishing(j)
      BY <1>8, <2>4
    <3>2. builds'[j] <= Cardinality(Publishing(j))
      <4>1. CASE j \in DOMAIN l2
        BY <1>4, <2>1, <2>4, <4>1
      <4>2. CASE j \notin DOMAIN l2
        BY <1>4, <4>2 DEF BuildsInv
      <4> QED BY <4>1, <4>2
    <3> QED BY <2>4, <3>1, <3>2
  <2> QED BY <2>3, <2>4
<1> QED BY <1>7, <1>9, <1>10 DEF BuildsInv, Keys, Key, Wants

LEMMA StepBuilds ==
  ASSUME IsFiniteSet(Threads), CallTyped, BuildsInv, [Next]_vars
  PROVE  BuildsInv'
<1>1. CASE UNCHANGED vars
  BY <1>1 DEF vars, BuildsInv, Building, Publishing, Key, Keys, Wants, At
<1>2. CASE Next
  <2>1. PICK t \in Threads :
          \/ \E w \in Wants : Begin(t, w)
          \/ LookLocal(t) \/ LookShared(t) \/ Build(t) \/ Publish(t)
    BY <1>2 DEF Next
  <2>2. ASSUME NEW outcome, Return(t, outcome)
        PROVE  /\ tpc'[t] = "idle"
               /\ \A r \in Threads : r # t => tpc'[r] = tpc[r] /\ want'[r] = want[r]
    BY <2>2 DEF CallTyped, Return, Go
  <2>4. CASE \E w \in Wants : Begin(t, w)
    <3>1. /\ tpc[t] = "idle" /\ tpc'[t] = "local" /\ UNCHANGED <<l2, builds>>
          /\ \A r \in Threads : r # t => tpc'[r] = tpc[r] /\ want'[r] = want[r]
      BY <2>4 DEF Begin, Go, CallTyped
    <3> QED BY <3>1, NothingBuilt
  <2>5. CASE LookLocal(t)
    <3>1. tpc[t] = "local" /\ UNCHANGED <<l2, builds>>
      BY <2>5 DEF LookLocal
    <3>2. (\E outcome : Return(t, outcome)) \/ (Go(t, "shared") /\ want' = want)
      BY <2>5 DEF LookLocal
    <3>3. CASE \E outcome : Return(t, outcome)
      BY <2>2, <3>1, <3>3, NothingBuilt
    <3>4. CASE Go(t, "shared") /\ want' = want
      <4>1. /\ tpc'[t] = "shared"
            /\ \A r \in Threads : r # t => tpc'[r] = tpc[r] /\ want'[r] = want[r]
        BY <3>4 DEF Go, CallTyped
      <4> QED BY <3>1, <4>1, NothingBuilt
    <3> QED BY <3>2, <3>3, <3>4
  <2>6. CASE LookShared(t)
    <3>1. tpc[t] = "shared" /\ UNCHANGED <<l2, builds>>
      BY <2>6 DEF LookShared
    <3>2. \/ \E outcome : Return(t, outcome)
          \/ Go(t, "build") /\ want' = want /\ Key(want[t]) \notin DOMAIN l2
      BY <2>6 DEF LookShared
    <3>3. CASE \E outcome : Return(t, outcome)
      BY <2>2, <3>1, <3>3, NothingBuilt
    <3>4. CASE Go(t, "build") /\ want' = want /\ Key(want[t]) \notin DOMAIN l2
      <4>1. /\ tpc'[t] = "build" /\ Key(want'[t]) \notin DOMAIN l2
            /\ \A r \in Threads : r # t => tpc'[r] = tpc[r] /\ want'[r] = want[r]
        BY <3>4 DEF Go, CallTyped
      <4> QED BY <3>1, <4>1, NothingBuilt
    <3> QED BY <3>2, <3>3, <3>4
  <2>7. CASE Build(t)
    <3>1. tpc[t] = "build" /\ l2' = l2
      BY <2>7 DEF Build
    <3>2. \/ /\ Go(t, "publish") /\ want' = want
             /\ builds' = [builds EXCEPT ![Key(want[t])] = @ + 1]
          \/ Return(t, [result |-> "error"]) /\ builds' = builds
      BY <2>7 DEF Build
    <3>3. CASE Return(t, [result |-> "error"]) /\ builds' = builds
      <4>1. /\ tpc'[t] = "idle"
            /\ \A r \in Threads : r # t => tpc'[r] = tpc[r] /\ want'[r] = want[r]
        BY <2>2, <3>3
      <4> QED BY <3>1, <3>3, <4>1, NothingBuilt
    <3>4. CASE /\ Go(t, "publish") /\ want' = want
               /\ builds' = [builds EXCEPT ![Key(want[t])] = @ + 1]
      <4>1. tpc' = [tpc EXCEPT ![t] = "publish"]
        BY <3>4 DEF Go
      <4> QED BY <3>1, <3>4, <4>1, BuildCounted
    <3> QED BY <3>2, <3>3, <3>4
  <2>8. CASE Publish(t)
    BY <2>8, PublishCounted
  <2> QED BY <2>1, <2>4, <2>5, <2>6, <2>7, <2>8
<1> QED BY <1>1, <1>2

\* For any hashes, any limits and any finite number of threads: L2 stays
\* within its limit, and until it evicts a kernel, that kernel is built at most
\* once per thread.
THEOREM BuiltOnce ==
  ASSUME IsFiniteSet(Threads)
  PROVE  Spec => []BuiltOncePerThread
<1>1. Init => CallTyped /\ BuildsInv
  <2> SUFFICES ASSUME Init PROVE CallTyped /\ BuildsInv
    OBVIOUS
  <2>1. CallTyped /\ l2 = Empty /\ builds = [k \in Keys |-> 0]
    BY DEF Init, CallTyped
  <2>2. DOMAIN l2 = {}
    BY <2>1 DEF Empty
  <2>3. IsFiniteSet(DOMAIN l2) /\ Cardinality(DOMAIN l2) = 0 /\ SharedMax \in Nat
    BY <2>2, FS_EmptySet, CacheAssumption
  <2>4. \A k \in Keys : Cardinality(Publishing(k)) \in Nat
    BY BusyThreads
  <2> QED BY <2>1, <2>2, <2>3, <2>4 DEF BuildsInv
<1>2. CallTyped /\ BuildsInv /\ [Next]_vars => CallTyped' /\ BuildsInv'
  BY CallStep, StepBuilds
<1>3. BuildsInv => BuiltOncePerThread
  <2> SUFFICES ASSUME BuildsInv, NEW k \in Keys PROVE builds[k] <= Cardinality(Threads)
    BY DEF BuildsInv, BuiltOncePerThread
  <2>1. /\ Cardinality(Building(k)) \in Nat /\ Cardinality(Publishing(k)) \in Nat
        /\ Cardinality(Threads) \in Nat /\ builds[k] \in Nat
        /\ Cardinality(Building(k)) + Cardinality(Publishing(k)) <= Cardinality(Threads)
    BY BusyThreads DEF BuildsInv
  <2>2. CASE k \in DOMAIN l2
    <3>1. builds[k] + Cardinality(Building(k)) <= Cardinality(Threads)
      BY <2>2 DEF BuildsInv
    <3> QED BY <2>1, <3>1
  <2>3. CASE k \notin DOMAIN l2
    <3>1. builds[k] <= Cardinality(Publishing(k))
      BY <2>3 DEF BuildsInv
    <3> QED BY <2>1, <3>1
  <2> QED BY <2>2, <2>3
<1> QED BY <1>1, <1>2, <1>3, PTL DEF Spec
=============================================================================
