---------------------------- MODULE GuardsProofs ----------------------------
(* What goes into a sandbox, for every input: theorems about Policy and        *)
(* Filesystem, and the lemmas about folds that they and ResultsProofs need.    *)
EXTENDS MCFunctions, FiniteSetTheorems, SequenceTheorems, WellFoundedInduction, TLAPS
-----------------------------------------------------------------------------
(* What holds of numbers and folds. The library's induction theorems take an      *)
(* operator; with a set in its place the least-number principle gives the same.   *)

\* Every set of numbers that is not empty has a least element.
LEMMA LeastNumber ==
  ASSUME NEW S \in SUBSET Nat, S # {}
  PROVE  \E n \in S : \A m \in S : n <= m
<1> DEFINE R == {pair \in Nat \X Nat : pair[1] < pair[2]}
<1>1. IsWellFoundedOn(R, Nat)
  BY NatLessThanWellFounded DEF OpToRel
<1>2. \A m, n \in Nat : <<m, n>> \in R <=> m < n
  OBVIOUS
<1> HIDE DEF R
<1>3. PICK n \in S : \A m \in S : ~ (<<m, n>> \in R)
  BY <1>1, WFMin
<1>4. ASSUME NEW m \in S PROVE n <= m
  <2>1. m \in Nat /\ n \in Nat
    OBVIOUS
  <2>2. <<m, n>> \notin R
    BY <1>3
  <2>3. ~(m < n)
    BY <1>2, <2>1, <2>2
  <2> QED
    BY <2>1, <2>3
<1> QED
  BY <1>4

\* Induction, for a set in the place of a formula.
LEMMA Inductive ==
  ASSUME NEW S, 0 \in S, \A n \in Nat : n \in S => n + 1 \in S
  PROVE  Nat \subseteq S
<1> DEFINE T == Nat \ S
<1> SUFFICES ASSUME T # {} PROVE FALSE
  OBVIOUS
<1>1. T \in SUBSET Nat
  OBVIOUS
<1> HIDE DEF T
<1>2. PICK n \in T : \A m \in T : n <= m
  BY <1>1, LeastNumber
<1>3. n - 1 \in Nat /\ n - 1 \notin T
  BY <1>2 DEF T
<1> QED
  BY <1>3 DEF T

\* The largest of the numbers of an interval, and of a set within one.
LEMMA MaxOfInterval ==
  ASSUME NEW n \in Nat \ {0}
  PROVE  Max(1 .. n) = n
<1> n \in 1 .. n /\ \A y \in 1 .. n : n >= y
  OBVIOUS
<1> QED
  BY DEF Max

\* What the numbers up to i are without i.
LEMMA InitialSegments ==
  ASSUME NEW n \in Nat, NEW i \in 1 .. n
  PROVE  /\ 1 .. i \in SUBSET (1 .. n) /\ 1 .. i # {}
         /\ Max(1 .. i) = i /\ (1 .. i) \ {i} = 1 .. (i - 1)
<1>1. i \in Nat \ {0} /\ i \in 1 .. i /\ i - 1 \in Nat
  OBVIOUS
<1>2. (1 .. i) \ {i} = 1 .. (i - 1)
  BY <1>1
<1> QED
  BY <1>1, <1>2, MaxOfInterval

\* The largest number of a set within an interval is in the set, and no other is larger.
LEMMA MaxOfSubset ==
  ASSUME NEW n \in Nat, NEW S \in SUBSET (1 .. n), S # {}
  PROVE  Max(S) \in S /\ \A m \in S : Max(S) >= m
<1> DEFINE T == {k \in Nat : \A s \in S : s <= k}
<1>1. T \in SUBSET Nat /\ n \in T
  OBVIOUS
<1>2. PICK k \in T : \A m \in T : k <= m
  <2> HIDE DEF T
  <2> QED
    BY <1>1, LeastNumber
<1>3. k \in Nat /\ \A s \in S : s <= k
  OBVIOUS
<1>4. k \in S
  <2>1. SUFFICES ASSUME k \notin S PROVE FALSE
    OBVIOUS
  <2>2. ASSUME NEW s \in S PROVE s <= k - 1
    <3>1. s \in Nat /\ s <= k /\ s # k
      BY <1>3, <2>1
    <3> QED
      BY <1>3, <3>1
  <2>3. k - 1 \in Nat
    <3>1. PICK s \in S : TRUE
      OBVIOUS
    <3> QED
      BY <1>3, <2>2, <3>1
  <2>4. k - 1 \in T
    BY <2>2, <2>3
  <2> QED
    BY <1>2, <1>3, <2>4
<1>5. k \in S /\ \A m \in S : k >= m
  BY <1>3, <1>4
<1> HIDE DEF T
<1> QED
  BY <1>5 DEF Max

\* What a fold recurs on: there is such a function on the subsets of a finite set, whatever
\* picks the next element of a set.
Picks(pick, D) == \A T \in SUBSET D : T # {} => pick[T] \in T

Steps(step, D, Acc) == step \in [Acc \X D -> Acc]

Folds(iter, D, base, step, pick) ==
  \A T \in SUBSET D : iter[T] = IF T = {} THEN base ELSE step[<<iter[T \ {pick[T]}], pick[T]>>]

\* So a fold over the subsets of a finite set exists, and its values are of the right type.
LEMMA FoldExists ==
  ASSUME NEW D, IsFiniteSet(D), NEW Acc, NEW base \in Acc, NEW step, Steps(step, D, Acc),
         NEW pick, Picks(pick, D)
  PROVE  \E iter \in [SUBSET D -> Acc] : Folds(iter, D, base, step, pick)
<1> USE DEF Picks, Steps
<1> DEFINE UpTo(k) == {T \in SUBSET D : Cardinality(T) <= k}
           Good(k, iter) ==
             \A T \in UpTo(k) :
               iter[T] = IF T = {} THEN base ELSE step[<<iter[T \ {pick[T]}], pick[T]>>]
           Reached == {k \in Nat : \E iter \in [UpTo(k) -> Acc] : Good(k, iter)}
<1>1. \A T \in SUBSET D : IsFiniteSet(T) /\ Cardinality(T) \in Nat
  BY FS_Subset, FS_CardinalityType
<1>2. UpTo(0) = {{}}
  BY <1>1, FS_EmptySet
<1>3. \A k \in Nat : \A T \in UpTo(k + 1) : T # {} => T \ {pick[T]} \in UpTo(k)
  <2> SUFFICES ASSUME NEW k \in Nat, NEW T \in UpTo(k + 1), T # {}
               PROVE  T \ {pick[T]} \in UpTo(k)
    OBVIOUS
  <2>1. T \in SUBSET D /\ IsFiniteSet(T) /\ Cardinality(T) \in Nat /\ Cardinality(T) <= k + 1
    BY <1>1
  <2>2. pick[T] \in T
    BY <2>1
  <2>3. Cardinality(T \ {pick[T]}) = Cardinality(T) - 1
    BY <2>1, <2>2, FS_RemoveElement
  <2> QED
    BY <2>1, <2>3
<1>4. \A k \in Nat : UpTo(k) \subseteq UpTo(k + 1)
  BY <1>1
<1>5. UpTo(Cardinality(D)) = SUBSET D
  BY FS_Subset
<1>6. \A k \in Nat : {} \in UpTo(k)
  BY FS_EmptySet
<1>7. \A k : UpTo(k) \subseteq SUBSET D
  OBVIOUS
<1> HIDE DEF UpTo
<1>8. 0 \in Reached
  <2> DEFINE first == [T \in UpTo(0) |-> base]
  <2>1. first \in [UpTo(0) -> Acc] /\ Good(0, first)
    BY <1>2
  <2> HIDE DEF first
  <2> QED
    BY <2>1
<1>9. ASSUME NEW k \in Nat, k \in Reached PROVE k + 1 \in Reached
  <2>1. PICK old \in [UpTo(k) -> Acc] : Good(k, old)
    BY <1>9
  <2> DEFINE new == [T \in UpTo(k + 1) |->
                       IF T = {} THEN base ELSE step[<<old[T \ {pick[T]}], pick[T]>>]]
  <2>2. \A T \in UpTo(k + 1) : T # {} => old[T \ {pick[T]}] \in Acc /\ pick[T] \in D
    BY <1>3, <1>7
  <2>3. new \in [UpTo(k + 1) -> Acc]
    BY <2>2
  <2>4. \A T \in UpTo(k) : new[T] = old[T]
    BY <1>4, <2>1
  <2>5. Good(k + 1, new)
    BY <1>3, <2>4
  <2> HIDE DEF new, Good
  <2>6. \E iter \in [UpTo(k + 1) -> Acc] : Good(k + 1, iter)
    BY <2>3, <2>5
  <2> QED
    BY <2>6, k + 1 \in Nat
<1>10. Cardinality(D) \in Reached
  <2> HIDE DEF Reached
  <2> QED
    BY <1>1, <1>8, <1>9, Inductive
<1> QED
  BY <1>5, <1>10 DEF Folds

\* How FoldLeft goes through a sequence of length n: the last index is taken off first.
LastFolds(iter, n, base, step) ==
  \A T \in SUBSET (1 .. n) : iter[T] = IF T = {} THEN base ELSE step[<<iter[T \ {Max(T)}], Max(T)>>]

\* The same for the order in which FoldLeft takes the indices.
LEMMA LastFoldExists ==
  ASSUME NEW n \in Nat, NEW Acc, NEW base \in Acc, NEW step, Steps(step, 1 .. n, Acc)
  PROVE  \E iter \in [SUBSET (1 .. n) -> Acc] : LastFolds(iter, n, base, step)
<1> DEFINE pick == [T \in SUBSET (1 .. n) |-> Max(T)]
<1>1. IsFiniteSet(1 .. n)
  BY FS_Interval
<1>2. \A T \in SUBSET (1 .. n) : pick[T] = Max(T) /\ (T # {} => pick[T] \in T)
  BY MaxOfSubset
<1> HIDE DEF pick
<1>3. Picks(pick, 1 .. n)
  BY <1>2 DEF Picks
<1>4. PICK iter \in [SUBSET (1 .. n) -> Acc] : Folds(iter, 1 .. n, base, step, pick)
  BY <1>1, <1>3, FoldExists
<1>5. LastFolds(iter, n, base, step)
  BY <1>2, <1>4 DEF Folds, LastFolds
<1> QED
  BY <1>5

\* The folds of the first k elements, for every k, out of those of all sets of indices.
GoesAlong(h, iter, n) ==
  /\ h[0] = iter[{}] /\ h[n] = iter[1 .. n]
  /\ \A i \in 1 .. n : /\ 1 .. i \in SUBSET (1 .. n) /\ 1 .. i # {}
                       /\ h[i] = iter[1 .. i]
                       /\ h[i - 1] = iter[(1 .. i) \ {Max(1 .. i)}]
                       /\ Max(1 .. i) = i

\* One function gives the values of the fold after 0, 1, ... elements.
LEMMA FoldPrefixes ==
  ASSUME NEW n \in Nat, NEW iter
  PROVE  \E h : GoesAlong(h, iter, n)
<1> DEFINE h == [k \in 0 .. n |-> iter[1 .. k]]
<1>1. 1 .. 0 = {} /\ 0 \in 0 .. n /\ n \in 0 .. n
  OBVIOUS
<1>2. h[0] = iter[{}] /\ h[n] = iter[1 .. n]
  BY <1>1
<1>3. ASSUME NEW i \in 1 .. n
      PROVE  /\ 1 .. i \in SUBSET (1 .. n) /\ 1 .. i # {}
             /\ h[i] = iter[1 .. i] /\ h[i - 1] = iter[(1 .. i) \ {Max(1 .. i)}]
             /\ Max(1 .. i) = i
  <2>1. i - 1 \in 0 .. n /\ i \in 0 .. n
    OBVIOUS
  <2> QED
    BY <2>1, InitialSegments
<1> HIDE DEF h
<1>4. GoesAlong(h, iter, n)
  BY <1>2, <1>3 DEF GoesAlong
<1> QED
  BY <1>4
-----------------------------------------------------------------------------
(* The limits of a container and the timeouts of its commands. *)

Optional(values) == {{}} \cup {{v} : v \in values}

\* A memory text with an amount; the unit may be anything.
IsMemory(text) == text.amount \in Int

\* What the request models and the settings class let through: numbers of any sign in a
\* request and in the defaults, ceilings above zero.
IsRequest(request) ==
  /\ request.cpu \in Optional(Int) /\ request.timeout \in Optional(Int)
  /\ request.pids \in Optional(Int)
  /\ \A text \in request.memory : IsMemory(text)

AreSettings(settings) ==
  /\ settings.cpu \in Int /\ settings.timeout \in Int /\ settings.pids \in Int
  /\ settings.maxCpu \in Nat \ {0} /\ settings.maxTimeout \in Nat \ {0}
  /\ settings.maxPids \in Nat \ {0}
  /\ IsMemory(settings.memory) /\ IsMemory(settings.maxMemory)
-----------------------------------------------------------------------------
\* A clamped number is between one and the ceiling.
LEMMA ClampBounds ==
  ASSUME NEW given \in Optional(Int), NEW default \in Int, NEW ceiling \in Nat \ {0}
  PROVE  Clamp(given, default, ceiling) \subseteq 1 .. ceiling
  BY DEF Clamp, OrElse, Optional

\* What is asked for below the ceiling is granted as it is.
LEMMA ClampGrants ==
  ASSUME NEW given \in Optional(Int), NEW default, NEW ceiling \in Nat, NEW n \in given,
         n <= ceiling, NEW granted \in Clamp(given, default, ceiling)
  PROVE  granted = n
  BY DEF Clamp, OrElse, Optional

\* A memory text that parses is a number no lower than the floor.
LEMMA MemoryParsed ==
  ASSUME NEW text, IsMemory(text), NEW bytes \in ParseMemory(text)
  PROVE  bytes \in Int /\ bytes >= MinMemory
<1>1. PICK u \in DOMAIN MemoryUnits : bytes = text.amount * MemoryUnits[u] /\ bytes >= MinMemory
  BY DEF ParseMemory
<1>2. MemoryUnits[u] \in Int
  BY DEF MemoryUnits
<1> QED
  BY <1>1, <1>2 DEF IsMemory

\* Clamped memory is a number no lower than the floor, below any ceiling that parses.
LEMMA MemoryBounds ==
  ASSUME NEW given, \A text \in given : IsMemory(text), NEW default, IsMemory(default),
         NEW ceiling, IsMemory(ceiling), NEW bytes \in ClampMemory(given, default, ceiling)
  PROVE  /\ bytes >= MinMemory
         /\ \A top \in ParseMemory(ceiling) : bytes <= top
<1>0. PICK text \in OrElse(given, default), top \in ParseMemory(ceiling) :
        \E asked \in ParseMemory(text) : bytes = IF asked > top THEN top ELSE asked
  BY DEF ClampMemory
<1>1. PICK asked \in ParseMemory(text) : bytes = IF asked > top THEN top ELSE asked
  BY <1>0
<1>2. IsMemory(text)
  BY DEF OrElse
<1>3. asked \in Int /\ asked >= MinMemory
  BY <1>2, MemoryParsed
<1>4. top \in Int /\ top >= MinMemory
  BY MemoryParsed
<1>5. \A t \in ParseMemory(ceiling) : t = top
  BY DEF ParseMemory
<1> QED
  BY <1>1, <1>3, <1>4, <1>5
-----------------------------------------------------------------------------
\* "A request may ask for less, never for more": for every request and every settings the
\* limits of the container are within the ceilings, and none of them is missing unless less
\* than a nanocore was asked for.
THEOREM CeilingsForAll ==
  ASSUME NEW request, IsRequest(request), NEW settings, AreSettings(settings)
  PROVE  WithinCeilings(request, settings)
<1> SUFFICES ASSUME NEW limits \in BuildResourceLimits(request, settings)
             PROVE  LET container == ContainerLimits(limits) IN
                    /\ container.nanoCpus <= settings.maxCpu \div 2
                    /\ limits.cpu >= 2 => container.nanoCpus > 0
                    /\ \A top \in ParseMemory(settings.maxMemory) : container.memory <= top
                    /\ container.memory >= MinMemory /\ container.memorySwap = container.memory
                    /\ container.pids \in 1 .. settings.maxPids
                    /\ limits.timeout \in 1 .. settings.maxTimeout
                    /\ \A pids \in request.pids : pids <= settings.maxPids => container.pids = pids
  BY DEF WithinCeilings
<1>1. /\ limits.cpu \in Clamp(request.cpu, settings.cpu, settings.maxCpu)
      /\ limits.memory \in ClampMemory(request.memory, settings.memory, settings.maxMemory)
      /\ limits.timeout \in Clamp(request.timeout, settings.timeout, settings.maxTimeout)
      /\ limits.pids \in Clamp(request.pids, settings.pids, settings.maxPids)
  BY DEF BuildResourceLimits
<1>2. limits.cpu \in 1 .. settings.maxCpu
  BY <1>1, ClampBounds DEF IsRequest, AreSettings
<1>3. limits.cpu \div 2 <= settings.maxCpu \div 2 /\ (limits.cpu >= 2 => limits.cpu \div 2 > 0)
  BY <1>2 DEF AreSettings
<1>4. limits.memory >= MinMemory /\ \A top \in ParseMemory(settings.maxMemory) : limits.memory <= top
  BY <1>1, MemoryBounds DEF IsRequest, AreSettings
<1>5. limits.pids \in 1 .. settings.maxPids /\ limits.timeout \in 1 .. settings.maxTimeout
  BY <1>1, ClampBounds DEF IsRequest, AreSettings
<1>6. \A pids \in request.pids : pids <= settings.maxPids => limits.pids = pids
  BY <1>1, ClampGrants DEF IsRequest, AreSettings
<1> QED
  BY <1>3, <1>4, <1>5, <1>6 DEF ContainerLimits

\* A command that names no timeout, or 0, has its experiment's, which is within the ceiling.
LEMMA UnaskedForAll ==
  ASSUME NEW request, IsRequest(request), NEW settings, AreSettings(settings), NEW given
  PROVE  UnaskedWithinCeiling(given, request, settings)
<1> SUFFICES ASSUME NEW limits \in BuildResourceLimits(request, settings), given \subseteq {0}
             PROVE  JobTimeout(given, limits.timeout) \subseteq 1 .. settings.maxTimeout
  BY DEF UnaskedWithinCeiling
<1>1. limits.timeout \in Clamp(request.timeout, settings.timeout, settings.maxTimeout)
  BY DEF BuildResourceLimits
<1>2. limits.timeout \in 1 .. settings.maxTimeout
  BY <1>1, ClampBounds DEF IsRequest, AreSettings
<1>3. given \ {0} = {}
  OBVIOUS
<1> QED
  BY <1>2, <1>3 DEF JobTimeout, OrElse
-----------------------------------------------------------------------------
(* The request as a whole. *)

AtMostOne(S) == \A x, y \in S : x = y

\* The settings name a network mode and a strategy of the enumerations.
AreSpecSettings(settings) ==
  settings.network \in NetworkModes /\ settings.strategy \in Strategies

\* Each conversion of the policy answers with one value or refuses.
LEMMA OneClamped ==
  ASSUME NEW V, NEW given \in Optional(V), NEW default, NEW ceiling
  PROVE  AtMostOne(Clamp(given, default, ceiling))
<1>1. AtMostOne(OrElse(given, default))
  BY DEF AtMostOne, OrElse, Optional
<1> QED
  BY <1>1 DEF AtMostOne, Clamp

\* So does the parser of memory texts,
LEMMA OneParsed ==
  ASSUME NEW text
  PROVE  AtMostOne(ParseMemory(text))
  BY DEF AtMostOne, ParseMemory

\* the clamp of memory,
LEMMA OneMemory ==
  ASSUME NEW V, NEW given \in Optional(V), NEW default, NEW ceiling
  PROVE  AtMostOne(ClampMemory(given, default, ceiling))
<1>1. AtMostOne(OrElse(given, default)) /\ AtMostOne(ParseMemory(ceiling))
  BY OneParsed DEF AtMostOne, OrElse, Optional
<1>2. AtMostOne(UNION {ParseMemory(t) : t \in OrElse(given, default)})
  BY <1>1, OneParsed DEF AtMostOne
<1> QED
  BY <1>1, <1>2 DEF AtMostOne, ClampMemory

\* and the limits as a whole.
LEMMA OneLimits ==
  ASSUME NEW V, NEW request, NEW settings,
         request.cpu \in Optional(V), request.memory \in Optional(V),
         request.timeout \in Optional(V), request.pids \in Optional(V)
  PROVE  AtMostOne(BuildResourceLimits(request, settings))
<1> SUFFICES ASSUME NEW l \in BuildResourceLimits(request, settings),
                    NEW m \in BuildResourceLimits(request, settings)
             PROVE  l = m
  BY DEF AtMostOne
<1>1. AtMostOne(Clamp(request.cpu, settings.cpu, settings.maxCpu))
  BY OneClamped
<1>2. AtMostOne(ClampMemory(request.memory, settings.memory, settings.maxMemory))
  BY OneMemory
<1>3. AtMostOne(Clamp(request.timeout, settings.timeout, settings.maxTimeout))
  BY OneClamped
<1>4. AtMostOne(Clamp(request.pids, settings.pids, settings.maxPids))
  BY OneClamped
<1> QED
  BY <1>1, <1>2, <1>3, <1>4 DEF BuildResourceLimits, AtMostOne

\* How many elements there are in a set of at most one.
LEMMA CountOne ==
  ASSUME NEW S, AtMostOne(S)
  PROVE  Cardinality(S) = IF S = {} THEN 0 ELSE 1
<1>1. CASE S = {}
  BY <1>1, FS_EmptySet
<1>2. CASE S # {}
  <2>1. PICK x \in S : TRUE
    BY <1>2
  <2>2. S = {x}
    BY <2>1 DEF AtMostOne
  <2> QED
    BY <1>2, <2>2, FS_Singleton
<1> QED
  BY <1>1, <1>2

\* A request gets one specification or, when any part of it is refused, none.
THEOREM SpecForAll ==
  ASSUME NEW V, NEW request, NEW settings, NEW host, AreSpecSettings(settings),
         request.image \in Optional(V), request.network \in Optional(V),
         request.strategy \in Optional(V), request.writable \in BOOLEAN,
         settings.writableMounts \in BOOLEAN,
         request.cpu \in Optional(V), request.memory \in Optional(V),
         request.timeout \in Optional(V), request.pids \in Optional(V)
  PROVE  SpecIsWhole(request, host, settings)
<1> DEFINE images == ValidateImage(request.image, settings)
           networks == ResolveNetworkMode(request.network, settings)
           strategies == ResolveMountStrategy(request.strategy, request.writable, settings)
           limits == BuildResourceLimits(request, settings)
           specs == BuildSpec(request, host, settings)
           env == FilterEnvironment(request.environment, host, settings)
<1>1. AtMostOne(images)
  BY DEF AtMostOne, ValidateImage, OrElse, Optional
<1>2. AtMostOne(networks)
  BY DEF AtMostOne, ResolveNetworkMode, OrElse, Optional
<1>3. AtMostOne(strategies)
  BY DEF AtMostOne, ResolveMountStrategy, OrElse, Optional
<1>4. AtMostOne(limits)
  BY OneLimits
<1>5. specs = {[image |-> i, network |-> n, strategy |-> t, limits |-> l, environment |-> env] :
                 i \in images, n \in networks, t \in strategies, l \in limits}
  BY DEF BuildSpec
<1>6. networks = {} <=> request.network \ NetworkModes # {}
  BY DEF ResolveNetworkMode, OrElse, Optional, AreSpecSettings
<1>7. strategies = {} <=> \/ request.strategy \ Strategies # {}
                          \/ /\ request.writable /\ settings.writableMounts
                             /\ OrElse(request.strategy, settings.strategy)
                                  = {"READ_ONLY_BIND_MOUNT"}
  <2>1. PICK t : OrElse(request.strategy, settings.strategy) = {t}
    BY DEF OrElse, Optional
  <2>2. request.strategy \ Strategies # {} <=> t \notin Strategies
    BY <2>1 DEF OrElse, AreSpecSettings
  <2> QED
    BY <2>1, <2>2 DEF ResolveMountStrategy
<1> HIDE DEF images, networks, strategies, limits, env, specs
<1>8. AtMostOne(specs)
  BY <1>1, <1>2, <1>3, <1>4, <1>5 DEF AtMostOne
<1>9. specs = {} <=> images = {} \/ networks = {} \/ strategies = {} \/ limits = {}
  <2>1. ASSUME NEW i \in images, NEW n \in networks, NEW t \in strategies, NEW l \in limits
        PROVE  specs # {}
    <3>1. [image |-> i, network |-> n, strategy |-> t, limits |-> l, environment |-> env] \in specs
      BY <1>5
    <3> QED
      BY <3>1
  <2>2. ASSUME images = {} \/ networks = {} \/ strategies = {} \/ limits = {} PROVE specs = {}
    BY <1>5, <2>2
  <2> QED
    BY <2>1, <2>2
<1>10. ASSUME NEW spec \in specs
       PROVE  /\ spec.image \in images /\ spec.network \in networks /\ spec.limits \in limits
  BY <1>5
<1>11. ASSUME NEW spec \in specs
       PROVE  /\ WellFormed(spec.image) /\ spec.limits \in BuildResourceLimits(request, settings)
              /\ request.network # {} => spec.network \in request.network
  BY <1>10 DEF images, networks, limits, ValidateImage, ResolveNetworkMode, OrElse
<1>12. Cardinality(specs) = IF specs = {} THEN 0 ELSE 1
  BY <1>8, CountOne
<1> QED
  BY <1>6, <1>7, <1>9, <1>11, <1>12 DEF SpecIsWhole, specs, images, limits

\* What the requests of the run are typed as; a specification is drawn as a whole.
AreLimits(value) == IsRequest(value.request) /\ AreSettings(value.settings)

IsSpecRequest(request, settings, V) ==
  /\ AreSpecSettings(settings) /\ settings.writableMounts \in BOOLEAN
  /\ request.image \in Optional(V) /\ request.network \in Optional(V)
  /\ request.strategy \in Optional(V) /\ request.writable \in BOOLEAN
  /\ request.cpu \in Optional(V) /\ request.memory \in Optional(V)
  /\ request.timeout \in Optional(V) /\ request.pids \in Optional(V)

\* Whatever limits or specification are asked for under whatever settings, the invariant of the
\* run holds of them: the container passes no ceiling, nor does a command that asks for no
\* timeout of its own, and a request is granted as a whole or not at all.
THEOREM CeilingsAlways ==
  ASSUME NEW V,
         Of("limits") => AreLimits(input.value),
         Of("spec") => IsSpecRequest(input.value.request, input.value.settings, V)
  PROVE  CeilingsHold
<1>1. ASSUME Of("limits")
      PROVE  /\ WithinCeilings(input.value.request, input.value.settings)
             /\ UnaskedWithinCeiling(input.value.own, input.value.request, input.value.settings)
  BY <1>1, CeilingsForAll, UnaskedForAll DEF AreLimits
<1>2. ASSUME Of("spec") PROVE SpecIsWhole(input.value.request, <<>>, input.value.settings)
  BY <1>2, SpecForAll DEF IsSpecRequest
<1> QED
  BY <1>1, <1>2 DEF CeilingsHold
-----------------------------------------------------------------------------
(* The environment. *)

Names(entries) == {entries[i].name : i \in DOMAIN entries}

Values(entries, host) ==
  (UNION {entries[i].value : i \in DOMAIN entries}) \cup {host[n] : n \in DOMAIN host}

Environments(entries, host) ==
  UNION {[D -> Values(entries, host)] : D \in SUBSET Names(entries)}

\* A variable that is set joins the environment.
LEMMA SetsType ==
  ASSUME NEW N, NEW V, NEW D \in SUBSET N, NEW env \in [D -> V], NEW name \in N, NEW value \in V
  PROVE  Sets(env, name, value) \in UNION {[E -> V] : E \in SUBSET N}
<1>1. D \cup {name} \in SUBSET N
  OBVIOUS
<1>2. Sets(env, name, value) \in [D \cup {name} -> V]
  BY DEF Sets
<1> QED
  BY <1>1, <1>2

\* An entry of the allowlist leads from one environment to another.
LEMMA TakesType ==
  ASSUME NEW entries, NEW host, NEW settings, NEW env \in Environments(entries, host),
         NEW i \in DOMAIN entries
  PROVE  Takes(env, entries[i], host, settings) \in Environments(entries, host)
<1> DEFINE name == entries[i].name
<1>1. name \in Names(entries)
  BY DEF Names
<1>2. PICK D \in SUBSET Names(entries) : env \in [D -> Values(entries, host)]
  BY DEF Environments
<1>3. ASSUME entries[i].value # {}
      PROVE  (CHOOSE v \in entries[i].value : TRUE) \in Values(entries, host)
  BY <1>3 DEF Values
<1>4. ASSUME name \in DOMAIN host PROVE host[name] \in Values(entries, host)
  BY <1>4 DEF Values
<1> QED
  BY <1>1, <1>2, <1>3, <1>4, SetsType DEF Takes, Environments

\* The variables after each entry.
LEMMA FilterSteps ==
  ASSUME NEW V, NEW entries \in Seq(V), NEW host, NEW settings
  PROVE  \E h : /\ h[0] = <<>>
                /\ \A i \in 1 .. Len(entries) : h[i] = Takes(h[i - 1], entries[i], host, settings)
                /\ h[Len(entries)] = FilterEnvironment(entries, host, settings)
<1> DEFINE n == Len(entries)
           E == Environments(entries, host)
           step == [p \in E \X (1 .. n) |-> Takes(p[1], entries[p[2]], host, settings)]
           iter == CHOOSE f : f = [T \in SUBSET (1 .. n) |->
                     IF T = {} THEN <<>>
                     ELSE Takes(f[T \ {Max(T)}], entries[Max(T)], host, settings)]
<1>1. n \in Nat /\ DOMAIN entries = 1 .. n
  OBVIOUS
<1>2. FilterEnvironment(entries, host, settings) = iter[1 .. n]
  BY <1>1 DEF FilterEnvironment, FoldLeft, MapThenFoldSet
<1>3. <<>> \in E
  <2>1. <<>> \in [{} -> Values(entries, host)]
    OBVIOUS
  <2> QED
    BY <2>1 DEF Environments
<1>4. Steps(step, 1 .. n, E)
  <2> HIDE DEF E
  <2>1. \A p \in E \X (1 .. n) : step[p] \in E
    BY <1>1, TakesType DEF E
  <2> QED
    BY <2>1 DEF Steps
<1> HIDE DEF n, E
<1>5. PICK it \in [SUBSET (1 .. n) -> E] : LastFolds(it, n, <<>>, step)
  BY <1>1, <1>3, <1>4, LastFoldExists
<1>6. it = [T \in SUBSET (1 .. n) |->
             IF T = {} THEN <<>> ELSE Takes(it[T \ {Max(T)}], entries[Max(T)], host, settings)]
  BY <1>1, <1>5, MaxOfSubset DEF LastFolds
<1>7. iter = [T \in SUBSET (1 .. n) |->
               IF T = {} THEN <<>> ELSE Takes(iter[T \ {Max(T)}], entries[Max(T)], host, settings)]
  BY <1>6
<1> HIDE DEF iter
<1>8. {} \in SUBSET (1 .. n) /\ iter[{}] = <<>>
  BY <1>7
<1>9. PICK h : GoesAlong(h, iter, n)
  BY <1>1, FoldPrefixes
<1>10. ASSUME NEW i \in 1 .. n PROVE h[i] = Takes(h[i - 1], entries[i], host, settings)
  <2>1. /\ 1 .. i \in SUBSET (1 .. n) /\ 1 .. i # {} /\ h[i] = iter[1 .. i]
        /\ h[i - 1] = iter[(1 .. i) \ {Max(1 .. i)}] /\ Max(1 .. i) = i
    BY <1>9 DEF GoesAlong
  <2>2. iter[1 .. i] = Takes(iter[(1 .. i) \ {Max(1 .. i)}], entries[Max(1 .. i)], host, settings)
    BY <1>7, <2>1
  <2> QED
    BY <2>1, <2>2
<1>11. h[0] = <<>> /\ h[n] = FilterEnvironment(entries, host, settings)
  BY <1>2, <1>8, <1>9 DEF GoesAlong
<1> QED
  BY <1>10, <1>11 DEF n

\* The entries of the first k that give n a value.
Giving(entries, host, n, k) ==
  {i \in 1 .. k : entries[i].name = n /\ (entries[i].value # {} \/ n \in DOMAIN host)}

\* What the variables should be after k entries.
IsExact(env, entries, host, settings, k) ==
  /\ DOMAIN env = {n \in Names(entries) :
                     Giving(entries, host, n, k) # {} /\ ~Refuses(n, settings)}
  /\ \A n \in DOMAIN env : \E i \in Giving(entries, host, n, k) :
       /\ \A j \in Giving(entries, host, n, k) : j <= i
       /\ IF entries[i].value # {} THEN env[n] \in entries[i].value ELSE env[n] = host[n]

\* One entry more gives its own name a value, if it has one.
LEMMA GivingNext ==
  ASSUME NEW entries, NEW host, NEW n, NEW k \in Nat
  PROVE  Giving(entries, host, n, k + 1)
           = Giving(entries, host, n, k) \cup
             IF entries[k + 1].name = n /\ (entries[k + 1].value # {} \/ n \in DOMAIN host)
             THEN {k + 1} ELSE {}
<1>1. 1 .. k + 1 = (1 .. k) \cup {k + 1}
  OBVIOUS
<1> QED
  BY <1>1 DEF Giving

\* One entry keeps the environment what it should be.
LEMMA TakesExact ==
  ASSUME NEW entries, NEW host, NEW settings, NEW env, NEW k \in Nat,
         entries[k + 1].name \in Names(entries), IsExact(env, entries, host, settings, k)
  PROVE  IsExact(Takes(env, entries[k + 1], host, settings), entries, host, settings, k + 1)
<1> DEFINE new == Takes(env, entries[k + 1], host, settings)
           name == entries[k + 1].name
           value == entries[k + 1].value
           gives == value # {} \/ name \in DOMAIN host
<1>1. ASSUME NEW n, n # name
      PROVE  Giving(entries, host, n, k + 1) = Giving(entries, host, n, k)
  <2>1. Giving(entries, host, n, k + 1)
          = Giving(entries, host, n, k) \cup
            IF entries[k + 1].name = n /\ (entries[k + 1].value # {} \/ n \in DOMAIN host)
            THEN {k + 1} ELSE {}
    BY GivingNext
  <2> QED
    BY <1>1, <2>1
<1>2. Giving(entries, host, name, k + 1)
        = Giving(entries, host, name, k) \cup IF gives THEN {k + 1} ELSE {}
  BY GivingNext
<1>3. \A n : \A i \in Giving(entries, host, n, k) : i <= k + 1
  BY DEF Giving
<1> HIDE DEF name, value
<1>4. CASE Refuses(name, settings) \/ ~gives
  <2>1. new = env
    BY <1>4 DEF Takes, name, value
  <2>2. DOMAIN new = {n \in Names(entries) :
                        Giving(entries, host, n, k + 1) # {} /\ ~Refuses(n, settings)}
    BY <1>1, <1>2, <1>4, <2>1 DEF IsExact
  <2>3. \A n \in DOMAIN env : Giving(entries, host, n, k + 1) = Giving(entries, host, n, k)
    BY <1>1, <1>2, <1>4 DEF IsExact
  <2>4. ASSUME NEW n \in DOMAIN new
        PROVE  \E i \in Giving(entries, host, n, k + 1) :
                 /\ \A j \in Giving(entries, host, n, k + 1) : j <= i
                 /\ IF entries[i].value # {} THEN new[n] \in entries[i].value
                                             ELSE new[n] = host[n]
    <3>1. n \in DOMAIN env /\ Giving(entries, host, n, k + 1) = Giving(entries, host, n, k)
      BY <2>1, <2>3
    <3> QED
      BY <2>1, <3>1 DEF IsExact
  <2> QED
    BY <2>2, <2>4 DEF IsExact
<1>5. CASE ~Refuses(name, settings) /\ gives
  <2>1. PICK v : new = Sets(env, name, v) /\ IF value # {} THEN v \in value ELSE v = host[name]
    BY <1>5 DEF Takes, name, value
  <2>2. /\ DOMAIN new = DOMAIN env \cup {name} /\ new[name] = v
        /\ \A n \in DOMAIN env : n # name => new[n] = env[n]
    BY <2>1 DEF Sets
  <2>3. DOMAIN new = {n \in Names(entries) :
                        Giving(entries, host, n, k + 1) # {} /\ ~Refuses(n, settings)}
    BY <1>1, <1>2, <1>5, <2>2 DEF IsExact, name
  <2>4. ASSUME NEW n \in DOMAIN new
        PROVE  \E i \in Giving(entries, host, n, k + 1) :
                 /\ \A j \in Giving(entries, host, n, k + 1) : j <= i
                 /\ IF entries[i].value # {} THEN new[n] \in entries[i].value
                                             ELSE new[n] = host[n]
    <3>1. CASE n = name
      <4>1. k + 1 \in Giving(entries, host, n, k + 1)
        BY <1>2, <1>5, <3>1
      <4>2. \A j \in Giving(entries, host, n, k + 1) : j <= k + 1
        BY <1>2, <1>3, <1>5, <3>1
      <4>3. IF entries[k + 1].value # {} THEN new[n] \in entries[k + 1].value
                                         ELSE new[n] = host[n]
        BY <2>1, <2>2, <3>1 DEF value
      <4> QED
        BY <4>1, <4>2, <4>3
    <3>2. CASE n # name
      <4>1. n \in DOMAIN env /\ new[n] = env[n]
        BY <2>2, <3>2
      <4> QED
        BY <1>1, <3>2, <4>1 DEF IsExact
    <3> QED
      BY <3>1, <3>2
  <2> QED
    BY <2>3, <2>4 DEF IsExact
<1> QED
  BY <1>4, <1>5

\* The environment of the sandbox is what the allowlist says, however long it is and whatever
\* the host has.
THEOREM EnvironmentForAll ==
  ASSUME NEW V, NEW entries \in Seq(V), NEW host, NEW settings, settings.strict \in BOOLEAN
  PROVE  EnvironmentExact(entries, host, settings)
<1> DEFINE n == Len(entries)
           env == FilterEnvironment(entries, host, settings)
<1>1. n \in Nat /\ DOMAIN entries = 1 .. n
  OBVIOUS
<1>2. PICK h : /\ h[0] = <<>>
               /\ \A i \in 1 .. n : h[i] = Takes(h[i - 1], entries[i], host, settings)
               /\ h[n] = env
  BY FilterSteps
<1> HIDE DEF n, env
<1> DEFINE Right(k) == IsExact(h[k], entries, host, settings, k)
           Reached == {k \in Nat : k <= n => Right(k)}
<1>3. Right(0)
  <2>1. 1 .. 0 = {}
    OBVIOUS
  <2>2. \A m : Giving(entries, host, m, 0) = {}
    BY <2>1 DEF Giving
  <2>3. DOMAIN h[0] = {}
    BY <1>2
  <2> QED
    BY <2>2, <2>3 DEF IsExact
<1>4. ASSUME NEW k \in Nat, k + 1 <= n, Right(k) PROVE Right(k + 1)
  <2>1. k + 1 \in 1 .. n /\ (k + 1) - 1 = k
    BY <1>1, <1>4
  <2>2. h[k + 1] = Takes(h[k], entries[k + 1], host, settings)
    BY <1>2, <2>1
  <2>3. entries[k + 1].name \in Names(entries)
    BY <1>1, <2>1 DEF Names
  <2> QED
    BY <1>4, <2>2, <2>3, TakesExact
<1> HIDE DEF Right
<1>5. 0 \in Reached /\ \A k \in Nat : k \in Reached => k + 1 \in Reached
  BY <1>1, <1>3, <1>4
<1>6. n \in Reached
  <2> HIDE DEF Reached
  <2> QED
    BY <1>1, <1>5, Inductive
<1>7. IsExact(env, entries, host, settings, n)
  BY <1>1, <1>2, <1>6 DEF Right
<1> DEFINE valued(m) == {i \in DOMAIN entries :
                           entries[i].name = m /\ (entries[i].value # {} \/ m \in DOMAIN host)}
           last(m) == entries[CHOOSE i \in valued(m) : \A j \in valued(m) : j <= i]
<1>8. \A m : Giving(entries, host, m, n) = valued(m)
  BY <1>1 DEF Giving
<1> HIDE DEF valued
<1>9. DOMAIN env = {m \in {entries[i].name : i \in DOMAIN entries} :
                      valued(m) # {} /\ m \notin Malformed
                      /\ (settings.strict => m \notin Credentials)}
  BY <1>7, <1>8 DEF IsExact, Names, Refuses
<1>10. ASSUME NEW m \in DOMAIN env
       PROVE  IF last(m).value # {} THEN env[m] \in last(m).value ELSE env[m] = host[m]
  <2>1. PICK i \in valued(m) :
          /\ \A j \in valued(m) : j <= i
          /\ IF entries[i].value # {} THEN env[m] \in entries[i].value ELSE env[m] = host[m]
    BY <1>7, <1>8 DEF IsExact
  <2>2. \A j \in valued(m) : j \in Nat
    BY <1>1 DEF valued
  <2>3. ASSUME NEW j \in valued(m), \A l \in valued(m) : l <= j
        PROVE  j = i
    <3>1. i <= j /\ j <= i /\ i \in Nat /\ j \in Nat
      BY <2>1, <2>2, <2>3
    <3> QED
      BY <3>1
  <2>4. (CHOOSE j \in valued(m) : \A l \in valued(m) : l <= j) = i
    BY <2>1, <2>3
  <2> QED
    BY <2>1, <2>4
<1>11. DOMAIN env \cap Rejected(entries, settings) = {}
  BY <1>7 DEF IsExact, Rejected
<1>12. \A m \in DOMAIN env :
         IF last(m).value # {} THEN env[m] \in last(m).value ELSE env[m] = host[m]
  BY <1>10
<1> QED
  BY <1>9, <1>11, <1>12, Zenon DEF EnvironmentExact, env, valued

\* Whatever allowlist is drawn, of whatever length, the invariant of the run holds of it.
THEOREM EnvironmentsAlways ==
  ASSUME NEW V,
         Of("environment") => /\ input.value.entries \in Seq(V)
                              /\ input.value.settings.strict \in BOOLEAN
  PROVE  EnvironmentFiltered
  BY EnvironmentForAll DEF EnvironmentFiltered
-----------------------------------------------------------------------------
(* The names of images. *)

\* The parts of a name as Component has them: intervals between neighbouring slashes.
Slashes(s) == {0, Len(s) + 1} \cup {k \in DOMAIN s : s[k] = "/"}

Ends(s) ==
  {p \in Slashes(s) \X Slashes(s) : p[1] < p[2] /\ \A k \in Slashes(s) : ~(p[1] < k /\ k < p[2])}

\* Those that start below x, and the slashes they start at.
EndsBelow(s, x) == {q \in Ends(s) : q[1] < x}
StartsBelow(s, x) == {k \in Slashes(s) \ {Len(s) + 1} : k < x}

\* Component and Components in these terms.
LEMMA ComponentEnds ==
  ASSUME NEW s, NEW i
  PROVE  /\ Component(s, i) =
              LET part == CHOOSE p \in Ends(s) : Cardinality(EndsBelow(s, p[1])) = i - 1
              IN SubSeq(s, part[1] + 1, part[2] - 1)
         /\ Components(s) = Cardinality({k \in DOMAIN s : s[k] = "/"}) + 1
BY DEF Component, Components, Ends, EndsBelow, Slashes

\* The slashes of a name are places of it, and its parts lie between two of them.
LEMMA SlashesType ==
  ASSUME NEW C, NEW s \in Seq(C)
  PROVE  /\ Len(s) \in Nat /\ DOMAIN s = 1 .. Len(s)
         /\ Slashes(s) \subseteq 0 .. Len(s) + 1
         /\ 0 \in Slashes(s) /\ Len(s) + 1 \in Slashes(s)
         /\ \A q \in Ends(s) : /\ q = <<q[1], q[2]>> /\ q[1] \in Slashes(s) /\ q[2] \in Slashes(s)
                               /\ q[1] \in Nat /\ q[2] \in Nat /\ q[1] < q[2]
         /\ IsFiniteSet(Ends(s)) /\ \A x : IsFiniteSet(EndsBelow(s, x))
<1>1. Len(s) \in Nat /\ DOMAIN s = 1 .. Len(s)
  OBVIOUS
<1>2. Slashes(s) \subseteq 0 .. Len(s) + 1 /\ 0 \in Slashes(s) /\ Len(s) + 1 \in Slashes(s)
  BY <1>1 DEF Slashes
<1>3. \A q \in Ends(s) : /\ q = <<q[1], q[2]>> /\ q[1] \in Slashes(s) /\ q[2] \in Slashes(s)
                         /\ q[1] < q[2]
  BY DEF Ends
<1>4. \A k \in Slashes(s) : k \in Nat
  BY <1>1, <1>2
<1>5. IsFiniteSet(Ends(s))
  <2>1. IsFiniteSet(Slashes(s))
    <3>1. IsFiniteSet(0 .. Len(s) + 1)
      BY <1>1, FS_Interval
    <3> QED
      BY <1>2, <3>1, FS_Subset
  <2>2. IsFiniteSet(Slashes(s) \X Slashes(s))
    BY <2>1, FS_Product
  <2>3. Ends(s) \subseteq Slashes(s) \X Slashes(s)
    BY DEF Ends
  <2> QED
    BY <2>2, <2>3, FS_Subset
<1>6. \A x : IsFiniteSet(EndsBelow(s, x))
  <2>1. \A x : EndsBelow(s, x) \subseteq Ends(s)
    BY DEF EndsBelow
  <2> QED
    BY <1>5, <2>1, FS_Subset
<1> QED
  BY <1>1, <1>2, <1>3, <1>4, <1>5, <1>6

\* At every slash but the last one exactly one part starts.
LEMMA EndsOne ==
  ASSUME NEW C, NEW s \in Seq(C)
  PROVE  /\ \A p, q \in Ends(s) : p[1] = q[1] => p = q
         /\ \A k \in Slashes(s) \ {Len(s) + 1} : \E q \in Ends(s) : q[1] = k
         /\ \A q \in Ends(s) : q[1] # Len(s) + 1
<1>1. /\ Len(s) \in Nat /\ \A k \in Slashes(s) : k \in 0 .. Len(s) + 1
      /\ Len(s) + 1 \in Slashes(s)
  BY SlashesType
<1>2. \A q \in Ends(s) : /\ q = <<q[1], q[2]>> /\ q[1] \in Slashes(s) /\ q[2] \in Slashes(s)
                         /\ q[1] \in Nat /\ q[2] \in Nat /\ q[1] < q[2]
  BY SlashesType
<1>3. ASSUME NEW p \in Ends(s), NEW q \in Ends(s), p[1] = q[1] PROVE p = q
  <2>1. ~(p[1] < q[2] /\ q[2] < p[2]) /\ ~(q[1] < p[2] /\ p[2] < q[2])
    BY <1>2 DEF Ends
  <2>2. p[2] = q[2]
    BY <1>2, <1>3, <2>1
  <2> QED
    BY <1>2, <1>3, <2>2
<1>4. ASSUME NEW k \in Slashes(s), k # Len(s) + 1 PROVE \E q \in Ends(s) : q[1] = k
  <2> DEFINE T == {j \in Slashes(s) : k < j}
  <2>1. T \in SUBSET Nat /\ Len(s) + 1 \in T
    BY <1>1, <1>4
  <2>2. PICK b \in T : \A m \in T : b <= m
    BY <2>1, LeastNumber
  <2>3. \A j \in Slashes(s) : ~(k < j /\ j < b)
    BY <1>1, <2>2
  <2>4. <<k, b>> \in Ends(s)
    BY <2>2, <2>3 DEF Ends
  <2> QED
    BY <2>4
<1>5. ASSUME NEW q \in Ends(s) PROVE q[1] # Len(s) + 1
  BY <1>1, <1>2
<1> QED
  BY <1>3, <1>4, <1>5

\* So there are as many parts below a place as slashes.
LEMMA EndsCount ==
  ASSUME NEW C, NEW s \in Seq(C), NEW x \in Nat
  PROVE  /\ Cardinality(EndsBelow(s, 0)) = 0 /\ Cardinality(EndsBelow(s, x)) \in Nat
         /\ IF x \in Slashes(s) \ {Len(s) + 1}
            THEN Cardinality(EndsBelow(s, x + 1)) = Cardinality(EndsBelow(s, x)) + 1
            ELSE Cardinality(EndsBelow(s, x + 1)) = Cardinality(EndsBelow(s, x))
<1>1. /\ \A q \in Ends(s) : q[1] \in Nat /\ q[1] \in Slashes(s)
      /\ \A y : IsFiniteSet(EndsBelow(s, y))
  BY SlashesType
<1>2. /\ \A p, q \in Ends(s) : p[1] = q[1] => p = q
      /\ \A k \in Slashes(s) \ {Len(s) + 1} : \E q \in Ends(s) : q[1] = k
      /\ \A q \in Ends(s) : q[1] # Len(s) + 1
  BY EndsOne
<1>3. Cardinality(EndsBelow(s, 0)) = 0
  <2>1. EndsBelow(s, 0) = {}
    BY <1>1 DEF EndsBelow
  <2> QED
    BY <2>1, FS_EmptySet
<1>4. \A q \in Ends(s) : q[1] < x + 1 <=> q[1] < x \/ q[1] = x
  BY <1>1
<1>5. CASE x \in Slashes(s) \ {Len(s) + 1}
  <2>1. PICK q \in Ends(s) : q[1] = x
    BY <1>2, <1>5
  <2>2. EndsBelow(s, x + 1) = EndsBelow(s, x) \cup {q}
    BY <1>2, <1>4, <2>1 DEF EndsBelow
  <2>3. q \notin EndsBelow(s, x)
    BY <2>1 DEF EndsBelow
  <2> QED
    BY <1>1, <1>3, <1>5, <2>2, <2>3, FS_AddElement, FS_CardinalityType
<1>6. CASE x \notin Slashes(s) \ {Len(s) + 1}
  <2>1. EndsBelow(s, x + 1) = EndsBelow(s, x)
    BY <1>1, <1>2, <1>4, <1>6 DEF EndsBelow
  <2> QED
    BY <1>1, <1>3, <1>6, <2>1, FS_CardinalityType
<1> QED
  BY <1>5, <1>6

\* As many parts start below a place as there are slashes to start at.
LEMMA StartsCount ==
  ASSUME NEW C, NEW s \in Seq(C), NEW x \in Nat
  PROVE  /\ IsFiniteSet(StartsBelow(s, x))
         /\ Cardinality(StartsBelow(s, x)) = Cardinality(EndsBelow(s, x))
<1> DEFINE Right(y) == Cardinality(StartsBelow(s, y)) = Cardinality(EndsBelow(s, y))
<1>1. Len(s) \in Nat /\ \A k \in Slashes(s) : k \in 0 .. Len(s) + 1
  BY SlashesType
<1>2. \A y : IsFiniteSet(StartsBelow(s, y))
  <2>1. IsFiniteSet(0 .. Len(s) + 1)
    BY <1>1, FS_Interval
  <2>2. \A y : StartsBelow(s, y) \subseteq 0 .. Len(s) + 1
    BY <1>1 DEF StartsBelow
  <2> QED
    BY <2>1, <2>2, FS_Subset
<1>3. Right(0)
  <2>1. StartsBelow(s, 0) = {}
    BY <1>1 DEF StartsBelow
  <2> QED
    BY <2>1, EndsCount, FS_EmptySet
<1>4. ASSUME NEW y \in Nat, Right(y) PROVE Right(y + 1)
  <2>1. \A k \in Slashes(s) : k < y + 1 <=> k < y \/ k = y
    BY <1>1
  <2>2. CASE y \in Slashes(s) \ {Len(s) + 1}
    <3>1. StartsBelow(s, y + 1) = StartsBelow(s, y) \cup {y}
      BY <2>1, <2>2 DEF StartsBelow
    <3>2. y \notin StartsBelow(s, y)
      BY DEF StartsBelow
    <3>3. Cardinality(StartsBelow(s, y + 1)) = Cardinality(StartsBelow(s, y)) + 1
      BY <1>2, <3>1, <3>2, FS_AddElement
    <3>4. Cardinality(EndsBelow(s, y + 1)) = Cardinality(EndsBelow(s, y)) + 1
      BY <2>2, EndsCount
    <3> QED
      BY <1>4, <3>3, <3>4
  <2>3. CASE y \notin Slashes(s) \ {Len(s) + 1}
    <3>1. StartsBelow(s, y + 1) = StartsBelow(s, y)
      BY <2>1, <2>3 DEF StartsBelow
    <3>2. Cardinality(EndsBelow(s, y + 1)) = Cardinality(EndsBelow(s, y))
      BY <2>3, EndsCount
    <3> QED
      BY <1>4, <3>1, <3>2
  <2> QED
    BY <2>2, <2>3
<1>5. Right(x)
  <2> DEFINE R == {y \in Nat : Right(y)}
  <2> HIDE DEF Right
  <2>1. 0 \in R
    BY <1>3
  <2>2. ASSUME NEW y \in Nat, y \in R PROVE y + 1 \in R
    BY <1>4, <2>2
  <2> HIDE DEF R
  <2>3. Nat \subseteq R
    BY <2>1, <2>2, Inductive
  <2> QED
    BY <2>3 DEF R
<1> QED
  BY <1>2, <1>5

\* Each of the first parts is there, once.
LEMMA PartExists ==
  ASSUME NEW C, NEW s \in Seq(C), NEW m \in Nat, m + 1 <= Components(s)
  PROVE  \E p \in Ends(s) : Cardinality(EndsBelow(s, p[1])) = m
<1> DEFINE count(x) == Cardinality(EndsBelow(s, x))
           P == {k \in DOMAIN s : s[k] = "/"}
           l == Len(s) + 1
           T == {x \in Nat : count(x) >= m + 1}
<1>1. Len(s) \in Nat /\ DOMAIN s = 1 .. Len(s)
  OBVIOUS
<1>2. count(l) >= m + 1 /\ l \in Nat
  <2>1. IsFiniteSet(P)
    <3>1. IsFiniteSet(1 .. Len(s)) /\ P \subseteq 1 .. Len(s)
      BY <1>1, FS_Interval
    <3> QED
      BY <3>1, FS_Subset
  <2>2. StartsBelow(s, l) = P \cup {0}
    BY <1>1 DEF StartsBelow, Slashes
  <2>3. 0 \notin P
    BY <1>1
  <2>4. Cardinality(P \cup {0}) = Cardinality(P) + 1
    BY <2>1, <2>3, FS_AddElement
  <2>5. l \in Nat
    BY <1>1
  <2> HIDE DEF l, P
  <2>6. Cardinality(StartsBelow(s, l)) = count(l)
    BY <2>5, StartsCount
  <2>7. Components(s) = Cardinality(P) + 1
    BY ComponentEnds DEF P
  <2>8. Components(s) = count(l)
    BY <2>2, <2>4, <2>6, <2>7
  <2>9. count(l) \in Nat
    BY <2>5, EndsCount
  <2> QED
    BY <2>5, <2>8, <2>9
<1>3. count(0) = 0 /\ \A x \in Nat : count(x) \in Nat
  BY EndsCount
<1>4. \A x \in Nat : IF x \in Slashes(s) \ {Len(s) + 1} THEN count(x + 1) = count(x) + 1
                                                        ELSE count(x + 1) = count(x)
  BY EndsCount
<1> HIDE DEF count, l
<1>5. PICK x \in T : \A y \in T : x <= y
  <2>1. T \in SUBSET Nat /\ l \in T
    BY <1>2
  <2> HIDE DEF T
  <2> QED
    BY <2>1, LeastNumber
<1>6. x \in Nat /\ x # 0
  BY <1>3, <1>5
<1>7. PICK y \in Nat : x = y + 1
  <2>1. x - 1 \in Nat /\ x = (x - 1) + 1
    BY <1>6
  <2> QED
    BY <2>1
<1>8. count(y) <= m
  <2>1. y \notin T
    BY <1>5, <1>7
  <2> QED
    BY <1>3, <2>1
<1>9. count(y + 1) >= m + 1
  BY <1>5, <1>7
<1>10. y \in Slashes(s) \ {Len(s) + 1} /\ count(y) = m
  <2>1. y + 1 \in Nat
    OBVIOUS
  <2>2. count(y) \in Nat /\ count(y + 1) \in Nat
    BY <1>3, <2>1
  <2> QED
    BY <1>4, <1>8, <1>9, <2>2
<1>11. PICK p \in Ends(s) : p[1] = y
  BY <1>10, EndsOne
<1> QED
  BY <1>10, <1>11 DEF count

\* Two parts with equally many before them are one.
LEMMA PartUnique ==
  ASSUME NEW C, NEW s \in Seq(C), NEW p \in Ends(s), NEW q \in Ends(s),
         Cardinality(EndsBelow(s, p[1])) = Cardinality(EndsBelow(s, q[1]))
  PROVE  p = q
<1>1. p[1] \in Nat /\ q[1] \in Nat /\ \A x : IsFiniteSet(EndsBelow(s, x))
  BY SlashesType
<1>2. \A e \in Ends(s) : e[1] \in Nat
  BY SlashesType
<1>3. \A a, b \in Ends(s) : a[1] < b[1] =>
        Cardinality(EndsBelow(s, a[1])) < Cardinality(EndsBelow(s, b[1]))
  <2> SUFFICES ASSUME NEW a \in Ends(s), NEW b \in Ends(s), a[1] < b[1]
               PROVE  Cardinality(EndsBelow(s, a[1])) < Cardinality(EndsBelow(s, b[1]))
    OBVIOUS
  <2>1. EndsBelow(s, a[1]) \subseteq EndsBelow(s, b[1]) /\ a \in EndsBelow(s, b[1])
    BY <1>2 DEF EndsBelow
  <2>2. a \notin EndsBelow(s, a[1])
    BY <1>2 DEF EndsBelow
  <2>3. IsFiniteSet(EndsBelow(s, b[1])) /\ EndsBelow(s, a[1]) # EndsBelow(s, b[1])
    BY <1>1, <2>1, <2>2
  <2>4. /\ Cardinality(EndsBelow(s, a[1])) \in Nat /\ Cardinality(EndsBelow(s, b[1])) \in Nat
    BY <1>1, FS_CardinalityType
  <2> QED
    BY <2>1, <2>3, <2>4, FS_Subset
<1>4. /\ Cardinality(EndsBelow(s, p[1])) \in Nat /\ Cardinality(EndsBelow(s, q[1])) \in Nat
  BY <1>1, FS_CardinalityType
<1>5. p[1] = q[1]
  <2>1. ~(p[1] < q[1]) /\ ~(q[1] < p[1])
    BY <1>3, <1>4
  <2> QED
    BY <1>1, <2>1
<1> QED
  BY <1>5, EndsOne

\* A name that goes on with a slash after a prefix has the parts of the prefix.
LEMMA PrefixParts ==
  ASSUME NEW C, "/" \in C, NEW prefix \in Seq(C), NEW name \in Seq(C),
         IsPrefix(prefix \o <<"/">>, name)
  PROVE  /\ Components(prefix) <= Components(name)
         /\ \A i \in 1 .. Components(prefix) : Component(prefix, i) = Component(name, i)
<1> DEFINE l == Len(prefix)
<1>1. l \in Nat /\ DOMAIN prefix = 1 .. l /\ Len(name) \in Nat /\ DOMAIN name = 1 .. Len(name)
  OBVIOUS
<1>2. l + 1 <= Len(name) /\ name[l + 1] = "/" /\ \A k \in 1 .. l : name[k] = prefix[k]
  <2> DEFINE longer == prefix \o <<"/">>
  <2>1. /\ longer \in Seq(C) /\ Len(longer) = l + 1 /\ longer[l + 1] = "/"
        /\ \A k \in 1 .. l : longer[k] = prefix[k]
    OBVIOUS
  <2>2. Len(longer) <= Len(name) /\ SubSeq(longer, 1, Len(longer)) = SubSeq(name, 1, Len(longer))
    BY DEF IsPrefix
  <2> HIDE DEF longer
  <2>3. PICK n \in Nat : n = l + 1
    BY <1>1
  <2>4. SubSeq(longer, 1, n) = SubSeq(name, 1, n) /\ n <= Len(name)
    BY <2>1, <2>2, <2>3
  <2>5. \A k \in 1 .. n : longer[k] \in C /\ name[k] \in C
    BY <1>1, <2>1, <2>3, <2>4
  <2>6. /\ \A k \in 1 .. n - 1 + 1 : SubSeq(longer, 1, n)[k] = longer[1 + k - 1]
        /\ \A k \in 1 .. n - 1 + 1 : SubSeq(name, 1, n)[k] = name[1 + k - 1]
    BY <2>5, SubSeqProperties
  <2>7. \A k \in 1 .. n : longer[k] = name[k]
    BY <2>4, <2>6
  <2>8. \A k \in 1 .. l : k \in 1 .. n
    BY <1>1, <2>3
  <2>9. n \in 1 .. n
    BY <1>1, <2>3
  <2> QED
    BY <2>1, <2>3, <2>4, <2>7, <2>8, <2>9
<1>3. /\ Slashes(prefix) = {k \in Slashes(name) : k <= l + 1}
      /\ Slashes(prefix) \subseteq Nat /\ Slashes(name) \subseteq Nat
      /\ l + 1 \in Slashes(name)
  <2>1. ASSUME NEW k \in Slashes(prefix) PROVE k \in Slashes(name) /\ k <= l + 1
    BY <1>1, <1>2 DEF Slashes
  <2>2. ASSUME NEW k \in Slashes(name), k <= l + 1 PROVE k \in Slashes(prefix)
    BY <1>1, <1>2, <2>2 DEF Slashes
  <2>3. Slashes(prefix) \subseteq Nat /\ Slashes(name) \subseteq Nat /\ l + 1 \in Slashes(prefix)
    <3>1. /\ Slashes(prefix) \subseteq 0 .. l + 1 /\ Slashes(name) \subseteq 0 .. Len(name) + 1
          /\ l + 1 \in Slashes(prefix)
      BY SlashesType
    <3> QED
      BY <1>1, <3>1
  <2> QED
    BY <2>1, <2>2, <2>3
<1>4. \A q : q \in Ends(prefix) <=> q \in Ends(name) /\ q[2] <= l + 1
  <2>1. ASSUME NEW q \in Ends(prefix) PROVE q \in Ends(name) /\ q[2] <= l + 1
    <3>1. /\ q \in Slashes(prefix) \X Slashes(prefix) /\ q[1] < q[2]
          /\ \A k \in Slashes(prefix) : ~(q[1] < k /\ k < q[2])
      BY DEF Ends
    <3>2. q \in Slashes(name) \X Slashes(name) /\ q[2] <= l + 1 /\ q[2] \in Nat
      BY <1>3, <3>1
    <3>3. ASSUME NEW k \in Slashes(name), q[1] < k, k < q[2] PROVE FALSE
      <4>1. k \in Slashes(prefix)
        BY <1>1, <1>3, <3>2, <3>3
      <4> QED
        BY <3>1, <3>3, <4>1
    <3> QED
      BY <3>1, <3>2, <3>3 DEF Ends
  <2>2. ASSUME NEW q \in Ends(name), q[2] <= l + 1 PROVE q \in Ends(prefix)
    <3>1. /\ q \in Slashes(name) \X Slashes(name) /\ q[1] < q[2]
          /\ \A k \in Slashes(name) : ~(q[1] < k /\ k < q[2])
      BY DEF Ends
    <3>2. q[1] \in Nat /\ q[2] \in Nat /\ q[1] <= l + 1
      BY <1>1, <1>3, <2>2, <3>1
    <3>3. q \in Slashes(prefix) \X Slashes(prefix)
      BY <1>3, <2>2, <3>1, <3>2
    <3> QED
      BY <1>3, <3>1, <3>3 DEF Ends
  <2> QED
    BY <2>1, <2>2
<1>5. ASSUME NEW p \in Ends(prefix)
      PROVE  p \in Ends(name) /\ EndsBelow(prefix, p[1]) = EndsBelow(name, p[1])
  <2>1. p \in Ends(name) /\ p[1] \in Slashes(name) /\ p[1] <= l + 1 /\ p[1] \in Nat
    <3>1. p[1] \in Slashes(prefix)
      BY SlashesType
    <3> QED
      BY <1>3, <1>4, <3>1
  <2>2. ASSUME NEW q \in Ends(name), q[1] < p[1] PROVE q \in Ends(prefix)
    <3>1. q[2] \in Nat /\ ~(q[1] < p[1] /\ p[1] < q[2])
      BY <1>3, <2>1 DEF Ends
    <3>2. q[2] <= l + 1
      BY <1>1, <2>1, <2>2, <3>1
    <3> QED
      BY <1>4, <3>2
  <2> QED
    BY <1>4, <2>1, <2>2 DEF EndsBelow
<1>6. Components(prefix) \in Nat /\ Components(name) \in Nat /\ Components(prefix) <= Components(name)
  <2> DEFINE P == {k \in DOMAIN prefix : prefix[k] = "/"}
             N == {k \in DOMAIN name : name[k] = "/"}
  <2>1. IsFiniteSet(N)
    <3>1. IsFiniteSet(1 .. Len(name)) /\ N \subseteq 1 .. Len(name)
      BY <1>1, FS_Interval
    <3> QED
      BY <3>1, FS_Subset
  <2>2. P \subseteq N
    BY <1>1, <1>2
  <2>3. IsFiniteSet(P) /\ Cardinality(P) <= Cardinality(N)
    BY <2>1, <2>2, FS_Subset
  <2>4. Cardinality(P) \in Nat /\ Cardinality(N) \in Nat
    BY <2>1, <2>3, FS_CardinalityType
  <2>5. Components(prefix) = Cardinality(P) + 1 /\ Components(name) = Cardinality(N) + 1
    BY DEF Components
  <2> HIDE DEF P, N
  <2> QED
    BY <2>3, <2>4, <2>5
<1>7. ASSUME NEW i \in 1 .. Components(prefix) PROVE Component(prefix, i) = Component(name, i)
  <2> DEFINE here == CHOOSE p \in Ends(prefix) : Cardinality(EndsBelow(prefix, p[1])) = i - 1
             there == CHOOSE p \in Ends(name) : Cardinality(EndsBelow(name, p[1])) = i - 1
  <2>1. PICK m \in Nat : m = i - 1 /\ m + 1 <= Components(prefix)
    <3>1. i - 1 \in Nat /\ (i - 1) + 1 <= Components(prefix)
      BY <1>6
    <3> QED
      BY <3>1
  <2>2. \E p \in Ends(prefix) : Cardinality(EndsBelow(prefix, p[1])) = i - 1
    BY <2>1, PartExists
  <2>3. here \in Ends(prefix) /\ Cardinality(EndsBelow(prefix, here[1])) = i - 1
    BY <2>2
  <2>4. Component(prefix, i) = SubSeq(prefix, here[1] + 1, here[2] - 1)
    BY ComponentEnds
  <2>5. Component(name, i) = SubSeq(name, there[1] + 1, there[2] - 1)
    BY ComponentEnds
  <2> HIDE DEF here
  <2>6. here \in Ends(name) /\ Cardinality(EndsBelow(name, here[1])) = i - 1
    BY <1>5, <2>3
  <2>7. there \in Ends(name) /\ Cardinality(EndsBelow(name, there[1])) = i - 1
    BY <2>6
  <2> HIDE DEF there
  <2>8. here = there
    BY <2>6, <2>7, PartUnique
  <2>9. PICK a, b \in Int : a = here[1] + 1 /\ b = here[2] - 1
    <3>1. here[1] \in Nat /\ here[2] \in Nat
      BY <2>3, SlashesType
    <3> QED
      BY <3>1
  <2>10. a >= 1 /\ b <= l
    <3>1. here[1] \in Nat /\ here[2] \in Nat /\ here[2] <= l + 1
      BY <1>4, <2>3, SlashesType
    <3>2. PICK e1 \in Nat, e2 \in Nat : e1 = here[1] /\ e2 = here[2]
      BY <3>1
    <3>3. e2 <= l + 1 /\ a = e1 + 1 /\ b = e2 - 1
      BY <2>9, <3>1, <3>2
    <3> HIDE DEF l
    <3> QED
      BY <1>1, <3>3
  <2>11. SubSeq(prefix, a, b) = SubSeq(name, a, b)
    <3>1. \A k \in a .. b : k \in 1 .. l /\ k \in 1 .. Len(name)
      BY <1>1, <1>2, <2>10
    <3>2. \A k \in a .. b : prefix[k] \in C /\ name[k] \in C
      BY <1>1, <3>1
    <3>3. /\ SubSeq(prefix, a, b) \in Seq(C)
          /\ Len(SubSeq(prefix, a, b)) = (IF a <= b THEN b - a + 1 ELSE 0)
          /\ \A k \in 1 .. b - a + 1 : SubSeq(prefix, a, b)[k] = prefix[a + k - 1]
      BY <3>2, SubSeqProperties
    <3>4. /\ SubSeq(name, a, b) \in Seq(C)
          /\ Len(SubSeq(name, a, b)) = (IF a <= b THEN b - a + 1 ELSE 0)
          /\ \A k \in 1 .. b - a + 1 : SubSeq(name, a, b)[k] = name[a + k - 1]
      BY <3>2, SubSeqProperties
    <3>5. \A k \in 1 .. b - a + 1 : a + k - 1 \in a .. b
      OBVIOUS
    <3>6. \A k \in 1 .. b - a + 1 : prefix[a + k - 1] = name[a + k - 1]
      BY <1>2, <3>1, <3>5
    <3>7. \A k \in 1 .. Len(SubSeq(prefix, a, b)) : k \in 1 .. b - a + 1
      BY <3>3
    <3>8. \A k \in 1 .. Len(SubSeq(prefix, a, b)) :
            SubSeq(prefix, a, b)[k] = SubSeq(name, a, b)[k]
      BY <3>3, <3>4, <3>6, <3>7
    <3> QED
      BY <3>3, <3>4, <3>8, SeqEqual
  <2> QED
    BY <2>4, <2>5, <2>8, <2>9, <2>11
<1> QED
  BY <1>6, <1>7

\* What is left of an image without its tag is a name.
LEMMA RepositoryType ==
  ASSUME NEW C, NEW ref \in Seq(C)
  PROVE  Repository(ref) \in Seq(C)
<1> DEFINE colon == SelectInSeq(ref, LAMBDA c : c = ":")
           I == {i \in 1 .. Len(ref) : ref[i] = ":"}
<1>1. colon = IF I # {} THEN Min(I) ELSE 0
  BY DEF SelectInSeq
<1>2. CASE I = {}
  BY <1>1, <1>2 DEF Repository
<1>3. CASE I # {}
  <2>1. PICK i \in I : \A j \in I : i <= j
    <3>1. I \in SUBSET Nat
      OBVIOUS
    <3> HIDE DEF I
    <3> QED
      BY <1>3, <3>1, LeastNumber
  <2>2. Min(I) \in I
    BY <2>1 DEF Min
  <2>3. colon \in 1 .. Len(ref)
    BY <1>1, <1>3, <2>2
  <2>4. Repository(ref) = SubSeq(ref, 1, colon - 1)
    BY <2>3 DEF Repository
  <2> HIDE DEF colon
  <2> QED
    BY <2>3, <2>4
<1> QED
  BY <1>2, <1>3

\* validate_image, whatever the prefixes: an image that is accepted from the allowlist has all
\* the components of some prefix as its first ones.
THEOREM ImageForAll ==
  ASSUME NEW C, "/" \in C, NEW given \in SUBSET Seq(C), NEW settings,
         settings.image \in Seq(C), settings.prefixes \in SUBSET Seq(C)
  PROVE  ImageBelowPrefix(given, settings)
<1> SUFFICES ASSUME NEW ref \in ValidateImage(given, settings), ~settings.anyImage
             PROVE  \E prefix \in settings.prefixes :
                      /\ Components(prefix) <= Components(Repository(ref))
                      /\ \A i \in 1 .. Components(prefix) :
                           Component(prefix, i) = Component(Repository(ref), i)
  BY DEF ImageBelowPrefix
<1>1. /\ ref \in Seq(C)
      /\ \E prefix \in settings.prefixes : Accepts(Repository(ref), prefix)
  BY DEF ValidateImage, OrElse
<1>2. PICK prefix \in settings.prefixes : Accepts(Repository(ref), prefix)
  BY <1>1
<1>3. Repository(ref) \in Seq(C) /\ prefix \in Seq(C)
  BY <1>1, RepositoryType
<1>4. CASE Repository(ref) = prefix
  <2>1. IsFiniteSet({k \in DOMAIN prefix : prefix[k] = "/"})
    <3>1. IsFiniteSet(1 .. Len(prefix)) /\ DOMAIN prefix = 1 .. Len(prefix)
      BY <1>3, FS_Interval
    <3> QED
      BY <3>1, FS_Subset
  <2>2. Components(prefix) \in Nat
    BY <2>1, FS_CardinalityType DEF Components
  <2> QED
    BY <1>4, <2>2
<1>5. CASE IsPrefix(prefix \o <<"/">>, Repository(ref))
  BY <1>3, <1>5, PrefixParts
<1> QED
  BY <1>2, <1>4, <1>5 DEF Accepts

\* Whatever image is asked for under whatever allowlist, the invariant of the run holds of it.
THEOREM ImagesAlways ==
  ASSUME NEW C, "/" \in C,
         Of("image") => /\ input.value.ref \in SUBSET Seq(C)
                        /\ input.value.settings.image \in Seq(C)
                        /\ input.value.settings.prefixes \in SUBSET Seq(C)
  PROVE  ImagesByComponent
BY ImageForAll DEF ImagesByComponent
-----------------------------------------------------------------------------
(* The paths of the sandbox. *)

\* A part of a path leads to paths.
LEMMA StepsToType ==
  ASSUME NEW V, NEW done \in SUBSET Seq(V), NEW part \in V
  PROVE  StepsTo(done, part) \in SUBSET Seq(V)
<1>1. ASSUME NEW d \in Seq(V), d # <<>> PROVE Front(d) \in Seq(V)
  BY <1>1 DEF Front
<1>2. ASSUME NEW d \in Seq(V) PROVE Append(d, part) \in Seq(V)
  OBVIOUS
<1> QED
  BY <1>1, <1>2 DEF StepsTo

LeadsTo(parts) == FoldLeft(StepsTo, {<<>>}, parts)

\* Where the first parts lead.
LEMMA PathSteps ==
  ASSUME NEW V, NEW parts \in Seq(V)
  PROVE  \E h : /\ h[0] = {<<>>}
                /\ \A i \in 1 .. Len(parts) : h[i] = StepsTo(h[i - 1], parts[i])
                /\ h[Len(parts)] = LeadsTo(parts)
<1> DEFINE n == Len(parts)
           C == SUBSET Seq(V)
           step == [p \in C \X (1 .. n) |-> StepsTo(p[1], parts[p[2]])]
           iter == CHOOSE f : f = [T \in SUBSET (1 .. n) |->
                     IF T = {} THEN {<<>>} ELSE StepsTo(f[T \ {Max(T)}], parts[Max(T)])]
<1>1. n \in Nat /\ DOMAIN parts = 1 .. n /\ \A i \in 1 .. n : parts[i] \in V
  OBVIOUS
<1>2. LeadsTo(parts) = iter[1 .. n]
  BY <1>1 DEF LeadsTo, FoldLeft, MapThenFoldSet
<1>3. {<<>>} \in C
  OBVIOUS
<1>4. Steps(step, 1 .. n, C)
  <2> HIDE DEF C
  <2>1. \A p \in C \X (1 .. n) : step[p] \in C
    BY <1>1, StepsToType DEF C
  <2> QED
    BY <2>1 DEF Steps
<1> HIDE DEF n, C
<1>5. PICK it \in [SUBSET (1 .. n) -> C] : LastFolds(it, n, {<<>>}, step)
  BY <1>1, <1>3, <1>4, LastFoldExists
<1>6. it = [T \in SUBSET (1 .. n) |->
             IF T = {} THEN {<<>>} ELSE StepsTo(it[T \ {Max(T)}], parts[Max(T)])]
  BY <1>1, <1>5, MaxOfSubset DEF LastFolds
<1>7. iter = [T \in SUBSET (1 .. n) |->
               IF T = {} THEN {<<>>} ELSE StepsTo(iter[T \ {Max(T)}], parts[Max(T)])]
  BY <1>6
<1> HIDE DEF iter
<1>8. {} \in SUBSET (1 .. n) /\ iter[{}] = {<<>>}
  BY <1>7
<1>9. PICK h : GoesAlong(h, iter, n)
  BY <1>1, FoldPrefixes
<1>10. ASSUME NEW i \in 1 .. n PROVE h[i] = StepsTo(h[i - 1], parts[i])
  <2>1. /\ 1 .. i \in SUBSET (1 .. n) /\ 1 .. i # {} /\ h[i] = iter[1 .. i]
        /\ h[i - 1] = iter[(1 .. i) \ {Max(1 .. i)}] /\ Max(1 .. i) = i
    BY <1>9 DEF GoesAlong
  <2>2. iter[1 .. i] = StepsTo(iter[(1 .. i) \ {Max(1 .. i)}], parts[Max(1 .. i)])
    BY <1>7, <2>1
  <2> QED
    BY <2>1, <2>2
<1>11. h[0] = {<<>>} /\ h[n] = LeadsTo(parts)
  BY <1>2, <1>8, <1>9 DEF GoesAlong
<1> QED
  BY <1>10, <1>11 DEF n

\* How the depth follows the parts.
LEMMA DepthNext ==
  ASSUME NEW parts, NEW k \in Nat
  PROVE  /\ Depth(parts, k) \in Int /\ Depth(parts, 0) = 0
         /\ Depth(parts, k + 1) = IF parts[k + 1] = ".." THEN Depth(parts, k) - 1
                                                         ELSE Depth(parts, k) + 1
<1> DEFINE ups(m) == {i \in 1 .. m : parts[i] = ".."}
<1>1. \A m \in Nat : IsFiniteSet(ups(m)) /\ Cardinality(ups(m)) \in Nat
  <2> SUFFICES ASSUME NEW m \in Nat PROVE IsFiniteSet(ups(m)) /\ Cardinality(ups(m)) \in Nat
    OBVIOUS
  <2>1. IsFiniteSet(1 .. m) /\ ups(m) \subseteq 1 .. m
    BY FS_Interval
  <2> QED
    BY <2>1, FS_Subset, FS_CardinalityType
<1>2. ups(0) = {} /\ ups(k + 1) = ups(k) \cup (IF parts[k + 1] = ".." THEN {k + 1} ELSE {})
  <2>1. 1 .. 0 = {} /\ 1 .. k + 1 = (1 .. k) \cup {k + 1}
    OBVIOUS
  <2> QED
    BY <2>1
<1>3. k + 1 \notin ups(k)
  OBVIOUS
<1>4. \A m : Depth(parts, m) = m - 2 * Cardinality(ups(m))
  BY DEF Depth
<1> HIDE DEF ups
<1>5. PICK c \in Nat : c = Cardinality(ups(k))
  BY <1>1
<1>6. Cardinality(ups(0)) = 0
  BY <1>2, FS_EmptySet
<1>7. Cardinality(ups(k + 1)) = IF parts[k + 1] = ".." THEN c + 1 ELSE c
  <2>1. IsFiniteSet(ups(k))
    BY <1>1
  <2>2. Cardinality(ups(k) \cup {k + 1}) = c + 1
    BY <1>3, <1>5, <2>1, FS_AddElement
  <2> QED
    BY <1>2, <1>5, <2>2
<1>8. Depth(parts, k) = k - 2 * c /\ Depth(parts, 0) = 0 - 2 * 0
  BY <1>4, <1>5, <1>6
<1>9. CASE parts[k + 1] = ".."
  <2>1. Depth(parts, k + 1) = (k + 1) - 2 * (c + 1)
    BY <1>4, <1>7, <1>9
  <2> QED
    BY <1>8, <1>9, <2>1
<1>10. CASE parts[k + 1] # ".."
  <2>1. Depth(parts, k + 1) = (k + 1) - 2 * c
    BY <1>4, <1>7, <1>10
  <2> QED
    BY <1>8, <1>10, <2>1
<1> QED
  BY <1>9, <1>10

\* The names of the first k parts that none of them takes back, and the path they make: the one
\* that leads to depth m is the m-th.
StaysOf(parts, k) ==
  {i \in 1 .. k : parts[i] # ".." /\ \A j \in i .. k : Depth(parts, j) >= Depth(parts, i)}

Makes(parts, k, path) ==
  /\ Len(path) = Depth(parts, k)
  /\ \A i \in StaysOf(parts, k) :
       Depth(parts, i) \in 1 .. Len(path) /\ path[Depth(parts, i)] = parts[i]
  /\ \A m \in 1 .. Len(path) : \E i \in StaysOf(parts, k) : Depth(parts, i) = m
  /\ \A i, j \in StaysOf(parts, k) : i < j => Depth(parts, i) < Depth(parts, j)

\* A name goes one down and stays last.
LEMMA MakesName ==
  ASSUME NEW V, NEW parts \in Seq(V), NEW k \in Nat, k + 1 <= Len(parts), NEW path \in Seq(V),
         Makes(parts, k, path), parts[k + 1] # ".."
  PROVE  Makes(parts, k + 1, Append(path, parts[k + 1]))
<1> DEFINE new == Append(path, parts[k + 1])
           S == StaysOf(parts, k)
           T == StaysOf(parts, k + 1)
<1>1. /\ parts[k + 1] \in V /\ Len(new) = Len(path) + 1 /\ Len(path) \in Nat
      /\ \A m \in 1 .. Len(path) : new[m] = path[m]
      /\ new[Len(path) + 1] = parts[k + 1]
  OBVIOUS
<1>2. /\ Depth(parts, k + 1) = Len(path) + 1 /\ Depth(parts, k) = Len(path)
      /\ \A m \in Nat : Depth(parts, m) \in Int
  <2>1. Depth(parts, k) = Len(path)
    BY DEF Makes
  <2>2. Depth(parts, k + 1) = Depth(parts, k) + 1
    BY DepthNext
  <2>3. \A m \in Nat : Depth(parts, m) \in Int
    BY DepthNext
  <2> QED
    BY <2>1, <2>2, <2>3
<1>3. \A i \in S : i \in 1 .. k /\ Depth(parts, i) \in 1 .. Len(path) /\ path[Depth(parts, i)] = parts[i]
  BY DEF Makes, StaysOf
<1>4. T = S \cup {k + 1}
  <2>1. ASSUME NEW i \in T, i # k + 1 PROVE i \in S
    <3>1. i \in 1 .. k /\ parts[i] # ".." /\ \A j \in i .. k + 1 : Depth(parts, j) >= Depth(parts, i)
      BY <2>1 DEF StaysOf
    <3>2. \A j \in i .. k : j \in i .. k + 1
      BY <3>1
    <3> QED
      BY <3>1, <3>2 DEF StaysOf
  <2>2. ASSUME NEW i \in S PROVE i \in T
    <3>1. /\ i \in 1 .. k /\ parts[i] # ".."
          /\ \A j \in i .. k : Depth(parts, j) >= Depth(parts, i)
      BY DEF StaysOf
    <3>2. Depth(parts, k + 1) >= Depth(parts, i)
      BY <1>1, <1>2, <1>3, <2>2
    <3>3. \A j \in i .. k + 1 : j \in i .. k \/ j = k + 1
      BY <3>1
    <3>4. i \in 1 .. k + 1
      BY <3>1
    <3> QED
      BY <3>1, <3>2, <3>3, <3>4 DEF StaysOf
  <2>3. k + 1 \in T
    <3>1. k + 1 \in 1 .. k + 1 /\ \A j \in k + 1 .. k + 1 : j = k + 1
      OBVIOUS
    <3>2. Depth(parts, k + 1) >= Depth(parts, k + 1)
      BY <1>1, <1>2
    <3> QED
      BY <3>1, <3>2 DEF StaysOf
  <2> QED
    BY <2>1, <2>2, <2>3
<1> HIDE DEF new, S, T
<1>5. ASSUME NEW i \in T PROVE Depth(parts, i) \in 1 .. Len(new) /\ new[Depth(parts, i)] = parts[i]
  BY <1>1, <1>2, <1>3, <1>4
<1>6. ASSUME NEW m \in 1 .. Len(new) PROVE \E i \in T : Depth(parts, i) = m
  <2>1. m \in 1 .. Len(path) \/ m = Len(path) + 1
    BY <1>1
  <2> QED
    BY <1>2, <1>4, <2>1 DEF Makes, S
<1>7. ASSUME NEW i \in T, NEW j \in T, i < j PROVE Depth(parts, i) < Depth(parts, j)
  <2>1. CASE j = k + 1
    <3>1. i \in S
      BY <1>4, <1>7, <2>1
    <3>2. Depth(parts, i) \in 1 .. Len(path)
      BY <1>3, <3>1
    <3> QED
      BY <1>1, <1>2, <2>1, <3>2
  <2>2. CASE j # k + 1
    <3>1. j \in S /\ j \in 1 .. k
      BY <1>3, <1>4, <2>2
    <3>2. i \in S
      BY <1>4, <1>7, <3>1
    <3> QED
      BY <1>7, <3>1, <3>2 DEF Makes, S
  <2> QED
    BY <2>1, <2>2
<1> QED
  BY <1>1, <1>2, <1>5, <1>6, <1>7 DEF Makes, new, T

\* ".." takes the last name back.
LEMMA MakesUp ==
  ASSUME NEW V, NEW parts \in Seq(V), NEW k \in Nat, k + 1 <= Len(parts), NEW path \in Seq(V),
         Makes(parts, k, path), parts[k + 1] = "..", path # <<>>
  PROVE  Makes(parts, k + 1, Front(path))
<1> DEFINE new == Front(path)
           S == StaysOf(parts, k)
           T == StaysOf(parts, k + 1)
<1>1. /\ Len(new) = Len(path) - 1 /\ Len(path) \in Nat /\ Len(path) >= 1
      /\ \A m \in 1 .. Len(path) - 1 : new[m] = path[m]
  <2>1. Len(path) \in Nat /\ Len(path) >= 1
    <3>1. Len(path) # 0
      BY EmptySeq
    <3> QED
      BY <3>1
  <2>2. new = SubSeq(path, 1, Len(path) - 1)
    BY DEF Front
  <2> HIDE DEF new
  <2>3. Len(new) = Len(path) - 1 /\ \A m \in 1 .. Len(path) - 1 : new[m] = path[m]
    <3>1. PICK l \in Int : l = Len(path) - 1
      BY <2>1
    <3>2. \A i \in 1 .. l : path[i] \in V
      BY <2>1, <3>1
    <3>3. /\ Len(SubSeq(path, 1, l)) = IF 1 <= l THEN l - 1 + 1 ELSE 0
          /\ \A i \in 1 .. l - 1 + 1 : SubSeq(path, 1, l)[i] = path[1 + i - 1]
      BY <3>2, SubSeqProperties
    <3> QED
      BY <2>1, <2>2, <3>1, <3>3
  <2> QED
    BY <2>1, <2>3
<1>2. /\ Depth(parts, k + 1) = Len(path) - 1 /\ Depth(parts, k) = Len(path)
      /\ \A m \in Nat : Depth(parts, m) \in Int
  <2>1. Depth(parts, k) = Len(path)
    BY DEF Makes
  <2>2. Depth(parts, k + 1) = Depth(parts, k) - 1
    BY DepthNext
  <2>3. \A m \in Nat : Depth(parts, m) \in Int
    BY DepthNext
  <2> QED
    BY <2>1, <2>2, <2>3
<1>3. \A i \in S : /\ i \in 1 .. k /\ Depth(parts, i) \in 1 .. Len(path)
                   /\ path[Depth(parts, i)] = parts[i]
  BY DEF Makes, StaysOf
<1>4. \A i : i \in T <=> i \in S /\ Depth(parts, i) <= Len(path) - 1
  <2>1. ASSUME NEW i \in T PROVE i \in S /\ Depth(parts, i) <= Len(path) - 1
    <3>1. /\ i \in 1 .. k + 1 /\ parts[i] # ".."
          /\ \A j \in i .. k + 1 : Depth(parts, j) >= Depth(parts, i)
      BY DEF StaysOf
    <3>2. i # k + 1
      BY <3>1
    <3>3. i \in 1 .. k /\ \A j \in i .. k : j \in i .. k + 1
      BY <3>1, <3>2
    <3>4. k + 1 \in i .. k + 1
      BY <3>3
    <3>5. Depth(parts, k + 1) >= Depth(parts, i)
      BY <3>1, <3>4
    <3> QED
      BY <1>2, <3>1, <3>3, <3>5 DEF StaysOf
  <2>2. ASSUME NEW i \in S, Depth(parts, i) <= Len(path) - 1 PROVE i \in T
    <3>1. /\ i \in 1 .. k /\ parts[i] # ".."
          /\ \A j \in i .. k : Depth(parts, j) >= Depth(parts, i)
      BY DEF StaysOf
    <3>2. Depth(parts, k + 1) >= Depth(parts, i)
      BY <1>2, <2>2
    <3>3. \A j \in i .. k + 1 : j \in i .. k \/ j = k + 1
      BY <3>1
    <3>4. i \in 1 .. k + 1
      BY <3>1
    <3> QED
      BY <3>1, <3>2, <3>3, <3>4 DEF StaysOf
  <2> QED
    BY <2>1, <2>2
<1> HIDE DEF new, S, T
<1>5. ASSUME NEW i \in T PROVE Depth(parts, i) \in 1 .. Len(new) /\ new[Depth(parts, i)] = parts[i]
  <2>1. i \in S /\ Depth(parts, i) <= Len(path) - 1
    BY <1>4
  <2>2. PICK d \in 1 .. Len(path) : d = Depth(parts, i) /\ path[d] = parts[i]
    BY <1>3, <2>1
  <2>3. d \in 1 .. Len(path) - 1 /\ d \in 1 .. Len(new)
    BY <1>1, <2>1, <2>2
  <2> QED
    BY <1>1, <2>2, <2>3
<1>6. ASSUME NEW m \in 1 .. Len(new) PROVE \E i \in T : Depth(parts, i) = m
  <2>1. m \in 1 .. Len(path) /\ m <= Len(path) - 1
    BY <1>1
  <2>2. \E i \in S : Depth(parts, i) = m
    BY <2>1 DEF Makes, S
  <2> QED
    BY <1>4, <2>1, <2>2
<1>7. ASSUME NEW i \in T, NEW j \in T, i < j PROVE Depth(parts, i) < Depth(parts, j)
  BY <1>4, <1>7 DEF Makes, S
<1> QED
  BY <1>1, <1>2, <1>5, <1>6, <1>7 DEF Makes, new, T

\* The names up to depth m are m.
LEMMA MakesCount ==
  ASSUME NEW V, NEW parts \in Seq(V), NEW k \in Nat, NEW path \in Seq(V), Makes(parts, k, path)
  PROVE  /\ IsFiniteSet(StaysOf(parts, k))
         /\ \A m \in 0 .. Len(path) :
              Cardinality({i \in StaysOf(parts, k) : Depth(parts, i) <= m}) = m
<1> DEFINE S == StaysOf(parts, k)
           U(m) == {i \in S : Depth(parts, i) <= m}
           n == Len(path)
           Right(m) == Cardinality(U(m)) = m
<1>1. n \in Nat /\ \A i \in S : i \in 1 .. k /\ Depth(parts, i) \in 1 .. n
  BY DEF Makes, StaysOf
<1>2. \A m \in 1 .. n : \E i \in S : Depth(parts, i) = m
  BY DEF Makes
<1>3. \A i, j \in S : Depth(parts, i) = Depth(parts, j) => i = j
  <2> SUFFICES ASSUME NEW i \in S, NEW j \in S, Depth(parts, i) = Depth(parts, j) PROVE i = j
    OBVIOUS
  <2>1. /\ i < j => Depth(parts, i) < Depth(parts, j)
        /\ j < i => Depth(parts, j) < Depth(parts, i)
    BY DEF Makes
  <2> QED
    BY <1>1, <2>1
<1>4. IsFiniteSet(S) /\ \A m : IsFiniteSet(U(m))
  <2>1. IsFiniteSet(1 .. k) /\ S \subseteq 1 .. k
    BY <1>1, FS_Interval
  <2>2. IsFiniteSet(S)
    BY <2>1, FS_Subset
  <2>3. \A m : U(m) \subseteq S
    OBVIOUS
  <2> QED
    BY <2>2, <2>3, FS_Subset
<1> HIDE DEF S, n
<1>5. Right(0)
  <2>1. U(0) = {}
    BY <1>1
  <2> QED
    BY <2>1, FS_EmptySet
<1>6. ASSUME NEW m \in Nat, m + 1 <= n, Right(m) PROVE Right(m + 1)
  <2>1. m + 1 \in 1 .. n
    BY <1>1, <1>6
  <2>2. PICK i \in S : Depth(parts, i) = m + 1
    BY <1>2, <2>1
  <2>3. U(m + 1) = U(m) \cup {i}
    <3>1. \A j \in S : Depth(parts, j) <= m + 1 <=> Depth(parts, j) <= m \/ Depth(parts, j) = m + 1
      BY <1>1
    <3>2. \A j \in S : Depth(parts, j) = m + 1 <=> j = i
      BY <1>3, <2>2
    <3> QED
      BY <3>1, <3>2
  <2>4. i \notin U(m)
    BY <2>2
  <2> HIDE DEF U
  <2> QED
    BY <1>4, <1>6, <2>3, <2>4, FS_AddElement
<1> HIDE DEF Right
<1>7. \A m \in 0 .. n : Right(m)
  <2> DEFINE R == {m \in Nat : m <= n => Right(m)}
  <2>1. 0 \in R
    BY <1>5
  <2>2. ASSUME NEW m \in Nat, m \in R PROVE m + 1 \in R
    BY <1>1, <1>6, <2>2
  <2> HIDE DEF R
  <2>3. Nat \subseteq R
    BY <2>1, <2>2, Inductive
  <2> QED
    BY <1>1, <2>3 DEF R
<1> QED
  BY <1>4, <1>7 DEF Right, S, n

\* The names that remain are the path the parts make.
LEMMA MakesRemaining ==
  ASSUME NEW V, NEW parts \in Seq(V), NEW path \in Seq(V), Makes(parts, Len(parts), path)
  PROVE  Remaining(parts) = path
<1> DEFINE n == Len(parts)
           kept == StaysOf(parts, n)
           upTo(i) == {j \in kept : j <= i}
<1>1. n \in Nat /\ DOMAIN parts = 1 .. n /\ Len(path) \in Nat /\ path = [m \in 1 .. Len(path) |-> path[m]]
  OBVIOUS
<1>2. Remaining(parts) = [m \in 1 .. Cardinality(kept) |->
                            parts[CHOOSE i \in kept : Cardinality(upTo(i)) = m]]
  BY <1>1 DEF Remaining, StaysOf
<1>3. \A i \in kept : /\ i \in 1 .. n /\ Depth(parts, i) \in 1 .. Len(path)
                      /\ path[Depth(parts, i)] = parts[i]
  BY DEF Makes, StaysOf
<1>4. \A i, j \in kept : i < j => Depth(parts, i) < Depth(parts, j)
  BY DEF Makes
<1>5. \A m \in 1 .. Len(path) : \E i \in kept : Depth(parts, i) = m
  BY DEF Makes
<1>6. \A m \in 0 .. Len(path) : Cardinality({i \in kept : Depth(parts, i) <= m}) = m
  BY <1>1, MakesCount
<1> HIDE DEF kept, n
<1>7. Cardinality(kept) = Len(path)
  <2>1. PICK l \in Nat : l = Len(path)
    BY <1>1
  <2>2. \A i \in kept : Depth(parts, i) <= l
    BY <1>3, <2>1
  <2>3. {i \in kept : Depth(parts, i) <= l} = kept
    BY <2>2
  <2>4. l \in 0 .. Len(path)
    BY <2>1
  <2> QED
    BY <1>6, <2>1, <2>3, <2>4
<1>8. \A i, j \in kept : j <= i <=> Depth(parts, j) <= Depth(parts, i)
  <2> SUFFICES ASSUME NEW i \in kept, NEW j \in kept
               PROVE  j <= i <=> Depth(parts, j) <= Depth(parts, i)
    OBVIOUS
  <2>1. i \in Int /\ j \in Int /\ Depth(parts, i) \in Int /\ Depth(parts, j) \in Int
    BY <1>3
  <2>2. /\ i < j => Depth(parts, i) < Depth(parts, j)
        /\ j < i => Depth(parts, j) < Depth(parts, i)
    BY <1>4
  <2> QED
    BY <2>1, <2>2
<1>9. ASSUME NEW i \in kept PROVE Cardinality(upTo(i)) = Depth(parts, i)
  <2>1. PICK d \in 0 .. Len(path) : d = Depth(parts, i)
    BY <1>3
  <2>2. upTo(i) = {j \in kept : Depth(parts, j) <= d}
    BY <1>8, <2>1
  <2> QED
    BY <1>6, <2>1, <2>2
<1>10. ASSUME NEW m \in 1 .. Len(path)
       PROVE  parts[CHOOSE i \in kept : Cardinality(upTo(i)) = m] = path[m]
  <2> DEFINE i == CHOOSE i \in kept : Cardinality(upTo(i)) = m
  <2>1. i \in kept /\ Cardinality(upTo(i)) = m
    BY <1>5, <1>9
  <2> HIDE DEF i
  <2> QED
    BY <1>3, <1>9, <2>1 DEF i
<1> HIDE DEF upTo
<1> QED
  BY <1>1, <1>2, <1>7, <1>10

\* The whole walk: from the root to one path, or to none at all.
LEMMA WalkLeads ==
  ASSUME NEW V, NEW parts \in Seq(V)
  PROVE  IF \A k \in DOMAIN parts : Depth(parts, k) >= 0
         THEN LeadsTo(parts) = {Remaining(parts)}
         ELSE LeadsTo(parts) = {}
<1> DEFINE n == Len(parts)
           Lawful(k) == \A j \in 1 .. k : Depth(parts, j) >= 0
<1>1. n \in Nat /\ DOMAIN parts = 1 .. n /\ \A k \in Nat : Depth(parts, k) \in Int
  BY DepthNext
<1>2. PICK h : /\ h[0] = {<<>>}
               /\ \A i \in 1 .. n : h[i] = StepsTo(h[i - 1], parts[i])
               /\ h[n] = LeadsTo(parts)
  BY PathSteps
<1> DEFINE Right(k) == IF Lawful(k) THEN \E path \in Seq(V) : h[k] = {path} /\ Makes(parts, k, path)
                       ELSE h[k] = {}
<1>3. Right(0)
  <2>1. Lawful(0) /\ <<>> \in Seq(V) /\ h[0] = {<<>>}
    BY <1>2
  <2>2. Makes(parts, 0, <<>>)
    <3>1. Depth(parts, 0) = 0
      BY DepthNext
    <3>2. StaysOf(parts, 0) = {}
      BY DEF StaysOf
    <3>3. Len(<<>>) = 0 /\ 1 .. 0 = {}
      OBVIOUS
    <3> QED
      BY <3>1, <3>2, <3>3 DEF Makes
  <2> QED
    BY <2>1, <2>2
<1>4. ASSUME NEW k \in Nat, k + 1 <= n, Right(k) PROVE Right(k + 1)
  <2> DEFINE part == parts[k + 1]
  <2>1. h[k + 1] = StepsTo(h[k], part) /\ part \in V
    <3>1. k + 1 \in 1 .. n /\ (k + 1) - 1 = k
      BY <1>1, <1>4
    <3> QED
      BY <1>2, <3>1
  <2>2. Lawful(k + 1) <=> Lawful(k) /\ Depth(parts, k + 1) >= 0
    <3>1. \A j : j \in 1 .. k + 1 <=> j \in 1 .. k \/ j = k + 1
      OBVIOUS
    <3> QED
      BY <3>1
  <2>3. CASE ~Lawful(k)
    <3>1. h[k] = {}
      BY <1>4, <2>3
    <3>2. StepsTo({}, part) = {}
      BY DEF StepsTo
    <3> QED
      BY <2>1, <2>2, <2>3, <3>1, <3>2
  <2>4. CASE Lawful(k)
    <3>1. PICK path \in Seq(V) : h[k] = {path} /\ Makes(parts, k, path)
      BY <1>4, <2>4
    <3>2. Depth(parts, k) = Len(path) /\ Len(path) \in Nat
      BY <3>1 DEF Makes
    <3>3. CASE part # ".."
      <4>1. h[k + 1] = {Append(path, part)}
        BY <2>1, <3>1, <3>3 DEF StepsTo
      <4>2. Depth(parts, k + 1) = Depth(parts, k) + 1
        BY <3>3, DepthNext
      <4>3. Append(path, part) \in Seq(V)
        BY <2>1
      <4>4. Makes(parts, k + 1, Append(path, part))
        BY <1>4, <3>1, <3>3, MakesName
      <4>5. Lawful(k + 1)
        BY <2>2, <2>4, <3>2, <4>2
      <4> QED
        BY <4>1, <4>3, <4>4, <4>5
    <3>4. CASE part = ".."
      <4>1. Depth(parts, k + 1) = Len(path) - 1
        <5>1. Depth(parts, k + 1) = Depth(parts, k) - 1
          BY <3>4, DepthNext
        <5> QED
          BY <3>2, <5>1
      <4>2. CASE path = <<>>
        <5>1. Len(path) = 0
          BY <4>2
        <5>2. h[k + 1] = {}
          BY <2>1, <3>1, <3>4, <4>2 DEF StepsTo
        <5> QED
          BY <2>2, <4>1, <5>1, <5>2
      <4>3. CASE path # <<>>
        <5>1. h[k + 1] = {Front(path)}
          BY <2>1, <3>1, <3>4, <4>3 DEF StepsTo
        <5>2. Makes(parts, k + 1, Front(path))
          BY <1>4, <3>1, <3>4, <4>3, MakesUp
        <5>3. Front(path) \in Seq(V)
          BY <4>3 DEF Front
        <5>4. Len(path) >= 1
          <6>1. Len(path) # 0
            BY <4>3, EmptySeq
          <6> QED
            BY <3>2, <6>1
        <5> QED
          BY <2>2, <2>4, <3>2, <4>1, <5>1, <5>2, <5>3, <5>4
      <4> QED
        BY <4>2, <4>3
    <3> QED
      BY <3>3, <3>4
  <2> QED
    BY <2>3, <2>4
<1> HIDE DEF Right
<1>5. Right(n)
  <2> DEFINE R == {k \in Nat : k <= n => Right(k)}
  <2>1. 0 \in R
    BY <1>3
  <2>2. ASSUME NEW k \in Nat, k \in R PROVE k + 1 \in R
    BY <1>1, <1>4, <2>2
  <2> HIDE DEF R
  <2>3. Nat \subseteq R
    BY <2>1, <2>2, Inductive
  <2> QED
    BY <1>1, <2>3 DEF R
<1> QED
  BY <1>1, <1>2, <1>5, MakesRemaining DEF Right

\* validate_sandbox_path, whatever the parts of the path and the workspace: a path is accepted
\* exactly if no part of it leads above the root and it ends in the workspace, and what it
\* stands for is the names that no ".." takes back.
THEOREM PathForAll ==
  ASSUME NEW V, NEW raw, raw.parts \in Seq(V), NEW workspace \in Seq(V)
  PROVE  PathConfined(raw, workspace)
<1> DEFINE parts == Joined(raw, workspace)
<1>1. parts \in Seq(V)
  BY DEF Joined
<1>2. ValidateSandboxPath(raw, workspace) = {path \in LeadsTo(parts) : IsPrefix(workspace, path)}
  BY DEF ValidateSandboxPath, LeadsTo
<1>3. PathConfined(raw, workspace) <=>
        ValidateSandboxPath(raw, workspace) =
          IF (\A k \in DOMAIN parts : Depth(parts, k) >= 0) /\ IsPrefix(workspace, Remaining(parts))
          THEN {Remaining(parts)} ELSE {}
  BY DEF PathConfined
<1> HIDE DEF parts
<1>4. IF \A k \in DOMAIN parts : Depth(parts, k) >= 0
      THEN LeadsTo(parts) = {Remaining(parts)} ELSE LeadsTo(parts) = {}
  BY <1>1, WalkLeads
<1>5. CASE \A k \in DOMAIN parts : Depth(parts, k) >= 0
  BY <1>2, <1>3, <1>4, <1>5
<1>6. CASE ~\A k \in DOMAIN parts : Depth(parts, k) >= 0
  BY <1>2, <1>3, <1>4, <1>6
<1> QED
  BY <1>5, <1>6

\* Whatever path and workspace are drawn, the invariant of the run holds of them.
THEOREM PathsAlways ==
  ASSUME NEW V,
         Of("path") => input.value.raw.parts \in Seq(V) /\ input.value.workspace \in Seq(V)
  PROVE  PathsConfined
BY PathForAll DEF PathsConfined
-----------------------------------------------------------------------------
(* How much the files of a set are together, in whatever order they are added. *)

Sized(S) == IsFiniteSet(S) /\ \A f \in S : f.size \in Nat

AnyOf(S) == CHOOSE f \in S : TRUE

\* What the sum recurs on.
Sums(iter, D) ==
  \A T \in SUBSET D : iter[T] = IF T = {} THEN 0 ELSE AnyOf(T).size + iter[T \ {AnyOf(T)}]

\* Two functions that recur like that are equal.
LEMMA SumsUnique ==
  ASSUME NEW D, IsFiniteSet(D), NEW it, Sums(it, D), NEW jt, Sums(jt, D), NEW T \in SUBSET D
  PROVE  it[T] = jt[T]
<1> DEFINE Reached == {k \in Nat : \A U \in SUBSET D : Cardinality(U) = k => it[U] = jt[U]}
<1>1. \A U \in SUBSET D : IsFiniteSet(U) /\ Cardinality(U) \in Nat
  BY FS_Subset, FS_CardinalityType
<1>2. 0 \in Reached
  <2>1. \A U \in SUBSET D : Cardinality(U) = 0 => U = {}
    BY <1>1, FS_EmptySet
  <2>2. it[{}] = 0 /\ jt[{}] = 0
    BY DEF Sums
  <2> QED
    BY <2>1, <2>2
<1>3. ASSUME NEW k \in Nat, k \in Reached PROVE k + 1 \in Reached
  <2> SUFFICES ASSUME NEW U \in SUBSET D, Cardinality(U) = k + 1 PROVE it[U] = jt[U]
    OBVIOUS
  <2>1. U # {}
    BY FS_EmptySet
  <2>2. AnyOf(U) \in U
    BY <2>1 DEF AnyOf
  <2>3. U \ {AnyOf(U)} \in SUBSET D /\ Cardinality(U \ {AnyOf(U)}) = k
    BY <1>1, <2>2, FS_RemoveElement
  <2>4. it[U \ {AnyOf(U)}] = jt[U \ {AnyOf(U)}]
    BY <1>3, <2>3
  <2>5. /\ it[U] = AnyOf(U).size + it[U \ {AnyOf(U)}]
        /\ jt[U] = AnyOf(U).size + jt[U \ {AnyOf(U)}]
    BY <2>1 DEF Sums
  <2> QED
    BY <2>4, <2>5
<1>4. Cardinality(T) \in Reached
  <2> HIDE DEF Reached
  <2> QED
    BY <1>1, <1>2, <1>3, Inductive
<1> QED
  BY <1>4

\* There is one.
LEMMA SumsExist ==
  ASSUME NEW D, Sized(D)
  PROVE  \E it \in [SUBSET D -> Nat] : Sums(it, D)
<1> DEFINE step == [p \in Nat \X D |-> p[2].size + p[1]]
           pick == [T \in SUBSET D |-> AnyOf(T)]
<1>1. \A T \in SUBSET D : pick[T] = AnyOf(T) /\ (T # {} => AnyOf(T) \in T)
  BY DEF AnyOf
<1> HIDE DEF pick
<1>2. Picks(pick, D)
  BY <1>1 DEF Picks
<1>3. Steps(step, D, Nat) /\ \A n \in Nat, f \in D : step[<<n, f>>] = f.size + n
  BY DEF Steps, Sized
<1> HIDE DEF step
<1>4. PICK it \in [SUBSET D -> Nat] : Folds(it, D, 0, step, pick)
  BY <1>2, <1>3, FoldExists DEF Sized
<1>5. Sums(it, D)
  <2>1. ASSUME NEW T \in SUBSET D, T # {}
        PROVE  it[T] = AnyOf(T).size + it[T \ {AnyOf(T)}]
    <3>1. AnyOf(T) \in D /\ it[T \ {AnyOf(T)}] \in Nat /\ pick[T] = AnyOf(T)
      BY <1>1, <1>4, <2>1
    <3>2. it[T] = step[<<it[T \ {pick[T]}], pick[T]>>]
      BY <1>4, <2>1 DEF Folds
    <3> QED
      BY <1>3, <3>1, <3>2
  <2>2. it[{}] = 0
    BY <1>4 DEF Folds
  <2> QED
    BY <2>1, <2>2 DEF Sums
<1> QED
  BY <1>5

\* It is the sum that Bytes computes,
LEMMA SumIsBytes ==
  ASSUME NEW D, Sized(D), NEW it, Sums(it, D), NEW S \in SUBSET D
  PROVE  it[S] = Bytes(S)
<1> DEFINE iter == CHOOSE f : f = [T \in SUBSET S |->
                     IF T = {} THEN 0 ELSE AnyOf(T).size + f[T \ {AnyOf(T)}]]
<1>1. Bytes(S) = iter[S]
  BY DEF Bytes, MapThenSumSet, MapThenFoldSet, AnyOf
<1>2. Sized(S)
  BY FS_Subset DEF Sized
<1>3. PICK jt \in [SUBSET S -> Nat] : Sums(jt, S)
  BY <1>2, SumsExist
<1>4. \A T \in SUBSET S : T # {} => T \ {AnyOf(T)} \in SUBSET S
  OBVIOUS
<1>5. jt = [T \in SUBSET S |-> IF T = {} THEN 0 ELSE AnyOf(T).size + jt[T \ {AnyOf(T)}]]
  BY <1>3, <1>4 DEF Sums
<1>6. iter = [T \in SUBSET S |-> IF T = {} THEN 0 ELSE AnyOf(T).size + iter[T \ {AnyOf(T)}]]
  BY <1>5
<1> HIDE DEF iter
<1>7. Sums(iter, S)
  BY <1>6 DEF Sums
<1>8. Sums(it, S)
  BY DEF Sums
<1> QED
  BY <1>1, <1>2, <1>7, <1>8, SumsUnique DEF Sized

\* which therefore recurs in the same way.
LEMMA BytesRecur ==
  ASSUME NEW S, Sized(S)
  PROVE  /\ Bytes(S) \in Nat /\ Bytes({}) = 0
         /\ S # {} => Bytes(S) = AnyOf(S).size + Bytes(S \ {AnyOf(S)})
<1>1. PICK it \in [SUBSET S -> Nat] : Sums(it, S)
  BY SumsExist
<1>2. \A T \in SUBSET S : it[T] = Bytes(T)
  BY <1>1, SumIsBytes
<1>3. {} \in SUBSET S /\ S \in SUBSET S /\ S \ {AnyOf(S)} \in SUBSET S
  OBVIOUS
<1>4. it[{}] = 0 /\ (S # {} => it[S] = AnyOf(S).size + it[S \ {AnyOf(S)}])
  BY <1>1, <1>3 DEF Sums
<1> QED
  BY <1>1, <1>2, <1>3, <1>4

\* Whichever is taken first: one file more makes the sum larger by its size.
LEMMA BytesAddWithin ==
  ASSUME NEW D, Sized(D), NEW S \in SUBSET D, NEW f \in D \ S
  PROVE  Bytes(S \cup {f}) = Bytes(S) + f.size
<1> DEFINE Adding(T, h) == Bytes(T \cup {h}) = Bytes(T) + h.size
           Reached == {k \in Nat : \A T \in SUBSET D : \A h \in D :
                         Cardinality(T) = k /\ h \notin T => Adding(T, h)}
<1>1. \A T \in SUBSET D : Sized(T) /\ Cardinality(T) \in Nat
  BY FS_Subset, FS_CardinalityType DEF Sized
<1>2. \A T \in SUBSET D : Bytes(T) \in Nat
  BY <1>1, BytesRecur
<1>3. 0 \in Reached
  <2> SUFFICES ASSUME NEW T \in SUBSET D, NEW h \in D, Cardinality(T) = 0 PROVE Adding(T, h)
    OBVIOUS
  <2>1. T = {}
    BY <1>1, FS_EmptySet DEF Sized
  <2>2. {h} # {} /\ AnyOf({h}) = h /\ {h} \ {h} = {} /\ T \cup {h} = {h} /\ {h} \in SUBSET D
    BY <2>1 DEF AnyOf
  <2>3. Sized({h})
    BY <1>1, <2>2
  <2>4. Bytes({h}) = h.size + Bytes({}) /\ Bytes({}) = 0
    BY <2>2, <2>3, BytesRecur
  <2>5. h.size \in Nat
    BY DEF Sized
  <2>6. Bytes(T \cup {h}) = h.size + 0 /\ Bytes(T) = 0
    BY <2>1, <2>2, <2>4
  <2> QED
    BY <2>5, <2>6
<1>4. ASSUME NEW k \in Nat, k \in Reached PROVE k + 1 \in Reached
  <2> SUFFICES ASSUME NEW T \in SUBSET D, NEW h \in D, Cardinality(T) = k + 1, h \notin T
               PROVE  Adding(T, h)
    OBVIOUS
  <2> DEFINE U == T \cup {h}
             g == AnyOf(U)
  <2>1. U # {} /\ g \in U /\ U \in SUBSET D
    BY DEF AnyOf
  <2>2. Sized(U)
    BY <1>1, <2>1
  <2> HIDE DEF g
  <2>3. Bytes(U) = g.size + Bytes(U \ {g})
    BY <2>1, <2>2, BytesRecur DEF g
  <2>4. CASE g = h
    <3>1. U \ {g} = T /\ h.size \in Nat /\ Bytes(T) \in Nat
      BY <1>2, <2>4 DEF Sized
    <3>2. Bytes(T \cup {h}) = h.size + Bytes(T)
      BY <2>3, <2>4, <3>1
    <3> QED
      BY <3>1, <3>2
  <2>5. CASE g # h
    <3>1. /\ g \in T /\ T \ {g} \in SUBSET D /\ U \ {g} = (T \ {g}) \cup {h}
          /\ (T \ {g}) \cup {g} = T /\ g \in D /\ g \notin T \ {g} /\ h \notin T \ {g}
      BY <2>1, <2>5
    <3>2. Cardinality(T \ {g}) = k
      BY <1>1, <3>1, FS_RemoveElement DEF Sized
    <3>3. Adding(T \ {g}, h) /\ Adding(T \ {g}, g)
      BY <1>4, <3>1, <3>2
    <3>4. g.size \in Nat /\ h.size \in Nat /\ Bytes(T \ {g}) \in Nat
      BY <1>2, <3>1 DEF Sized
    <3>5. Bytes(T \cup {h}) = g.size + (Bytes(T \ {g}) + h.size)
      BY <2>3, <3>1, <3>3
    <3>6. Bytes(T) = Bytes(T \ {g}) + g.size
      BY <3>1, <3>3
    <3> QED
      BY <3>4, <3>5, <3>6
  <2> QED
    BY <2>4, <2>5
<1>5. Cardinality(S) \in Reached
  <2> HIDE DEF Reached
  <2> QED
    BY <1>1, <1>3, <1>4, Inductive
<1> QED
  BY <1>5

\* A file that is not in the set adds its size.
LEMMA BytesAdd ==
  ASSUME NEW S, Sized(S), NEW f, f \notin S, f.size \in Nat
  PROVE  Sized(S \cup {f}) /\ Bytes(S \cup {f}) = Bytes(S) + f.size
<1> DEFINE D == S \cup {f}
<1>1. Sized(D)
  BY FS_AddElement DEF Sized
<1>2. S \in SUBSET D /\ f \in D \ S
  OBVIOUS
<1> QED
  BY <1>1, <1>2, BytesAddWithin
-----------------------------------------------------------------------------
(* The snapshot. *)

Kinds == {"file", "link", "linkToDirectory", "other", "unreadable", "uncopied"}

Entries(V) == [path : V, kind : Kinds, size : Nat]

\* What os.walk meets: every path once.
AreEntries(walk, V) ==
  /\ walk \in Seq(Entries(V))
  /\ \A i, j \in DOMAIN walk : walk[i] = walk[j] => i = j

CopyStates(V) ==
  LET E == [path : V, kind : Kinds \cup {"directory"}, size : Nat]
  IN [failed : BOOLEAN, disk : SUBSET E, manifest : SUBSET E, count : Nat, bytes : Nat]

\* A copy that has changed is a copy.
LEMMA CopiesOne ==
  ASSUME NEW V, NEW copy \in CopyStates(V), NEW c \in Nat, NEW b \in Nat, NEW full \in BOOLEAN,
         NEW new \in SUBSET [path : V, kind : Kinds \cup {"directory"}, size : Nat],
         NEW named \in SUBSET [path : V, kind : Kinds \cup {"directory"}, size : Nat]
  PROVE  [copy EXCEPT !.count = c, !.bytes = b, !.failed = full, !.disk = @ \cup new,
                      !.manifest = @ \cup named] \in CopyStates(V)
  BY DEF CopyStates

\* An entry leads from one state of the copy to another.
LEMMA MeetsType ==
  ASSUME NEW V, NEW copy \in CopyStates(V), NEW entry \in Entries(V),
         NEW excludes, NEW limits, limits.files \in Nat, limits.bytes \in Nat
  PROVE  Meets(copy, entry, excludes, limits) \in CopyStates(V)
<1> DEFINE E == [path : V, kind : Kinds \cup {"directory"}, size : Nat]
<1>1. /\ copy.failed \in BOOLEAN /\ copy.disk \in SUBSET E /\ copy.manifest \in SUBSET E
      /\ copy.count \in Nat /\ copy.bytes \in Nat
  BY DEF CopyStates
<1>2. entry \in E /\ [entry EXCEPT !.kind = "directory"] \in E /\ entry.size \in Nat
  BY DEF Entries, Kinds
<1> HIDE DEF E
<1>3. Copies(copy, entry, limits) \in CopyStates(V)
  <2>1. PICK full \in BOOLEAN, failed \in BOOLEAN :
          /\ full = (copy.count + 1 > limits.files \/ copy.bytes + entry.size > limits.bytes)
          /\ failed = (full \/ entry.kind \in Raises)
    OBVIOUS
  <2>2. PICK new \in SUBSET E, named \in SUBSET E :
          new = (IF full THEN {} ELSE {entry}) /\ named = (IF failed THEN {} ELSE {entry})
    BY <1>2
  <2>3. PICK c \in Nat, b \in Nat : c = copy.count + 1 /\ b = copy.bytes + entry.size
    BY <1>1, <1>2
  <2>4. Copies(copy, entry, limits)
          = [copy EXCEPT !.count = c, !.bytes = b, !.failed = failed, !.disk = @ \cup new,
                         !.manifest = @ \cup named]
    <3>1. /\ (IF full THEN copy.disk ELSE copy.disk \cup {entry}) = copy.disk \cup new
          /\ (IF failed THEN copy.manifest ELSE copy.manifest \cup {entry})
               = copy.manifest \cup named
      BY <2>2
    <3> QED
      BY <2>1, <2>3, <3>1 DEF Copies
  <2>5. [copy EXCEPT !.count = c, !.bytes = b, !.failed = failed, !.disk = @ \cup new,
                     !.manifest = @ \cup named] \in CopyStates(V)
    BY CopiesOne DEF E
  <2> QED
    BY <2>4, <2>5
<1>4. [copy EXCEPT !.disk = @ \cup {entry}, !.manifest = @ \cup {entry}] \in CopyStates(V)
  BY <1>1, <1>2 DEF CopyStates, E
<1>5. [copy EXCEPT !.disk = @ \cup {[entry EXCEPT !.kind = "directory"]}] \in CopyStates(V)
  BY <1>1, <1>2 DEF CopyStates, E
<1>6. [copy EXCEPT !.failed = TRUE] \in CopyStates(V)
  BY <1>1 DEF CopyStates, E
<1> QED
  BY <1>3, <1>4, <1>5, <1>6 DEF Meets

\* Whether h is the copy after each number of entries of the walk.
CopiedAlong(h, walk, excludes, limits) ==
  /\ h[0] = EmptyCopy
  /\ \A i \in 1 .. Len(walk) : h[i] = Meets(h[i - 1], walk[i], excludes, limits)
  /\ h[Len(walk)] = Snapshot(walk, excludes, limits)

\* The copy after each entry of the walk.
LEMMA SnapshotSteps ==
  ASSUME NEW V, NEW walk \in Seq(Entries(V)), NEW excludes,
         NEW limits, limits.files \in Nat, limits.bytes \in Nat
  PROVE  \E h : CopiedAlong(h, walk, excludes, limits)
<1> DEFINE n == Len(walk)
           C == CopyStates(V)
           step == [p \in C \X (1 .. n) |-> Meets(p[1], walk[p[2]], excludes, limits)]
           iter == CHOOSE f : f = [T \in SUBSET (1 .. n) |->
                     IF T = {} THEN EmptyCopy
                     ELSE Meets(f[T \ {Max(T)}], walk[Max(T)], excludes, limits)]
<1>1. /\ n \in Nat /\ DOMAIN walk = 1 .. n
      /\ \A i \in 1 .. n : walk[i] \in Entries(V)
  OBVIOUS
<1>2. Snapshot(walk, excludes, limits) = iter[1 .. n]
  BY <1>1 DEF Snapshot, FoldLeft, MapThenFoldSet
<1>3. EmptyCopy \in C
  BY DEF EmptyCopy, CopyStates
<1>4. Steps(step, 1 .. n, C)
  <2> HIDE DEF C
  <2>1. \A p \in C \X (1 .. n) : step[p] \in C
    BY <1>1, MeetsType DEF C
  <2> QED
    BY <2>1 DEF Steps
<1> HIDE DEF n, C
<1>5. PICK it \in [SUBSET (1 .. n) -> C] : LastFolds(it, n, EmptyCopy, step)
  BY <1>1, <1>3, <1>4, LastFoldExists
<1>6. it = [T \in SUBSET (1 .. n) |->
             IF T = {} THEN EmptyCopy ELSE Meets(it[T \ {Max(T)}], walk[Max(T)], excludes, limits)]
  BY <1>1, <1>5, MaxOfSubset DEF LastFolds
<1>7. iter = [T \in SUBSET (1 .. n) |->
               IF T = {} THEN EmptyCopy
               ELSE Meets(iter[T \ {Max(T)}], walk[Max(T)], excludes, limits)]
  BY <1>6
<1> HIDE DEF iter
<1>8. {} \in SUBSET (1 .. n) /\ iter[{}] = EmptyCopy
  BY <1>7
<1>9. PICK h : GoesAlong(h, iter, n)
  BY <1>1, FoldPrefixes
<1>10. ASSUME NEW i \in 1 .. n PROVE h[i] = Meets(h[i - 1], walk[i], excludes, limits)
  <2>1. /\ 1 .. i \in SUBSET (1 .. n) /\ 1 .. i # {} /\ h[i] = iter[1 .. i]
        /\ h[i - 1] = iter[(1 .. i) \ {Max(1 .. i)}] /\ Max(1 .. i) = i
    BY <1>9 DEF GoesAlong
  <2>2. iter[1 .. i] = Meets(iter[(1 .. i) \ {Max(1 .. i)}], walk[Max(1 .. i)], excludes, limits)
    BY <1>7, <2>1
  <2> QED
    BY <2>1, <2>2
<1>11. h[0] = EmptyCopy /\ h[n] = Snapshot(walk, excludes, limits)
  BY <1>2, <1>8, <1>9 DEF GoesAlong
<1> QED
  BY <1>10, <1>11 DEF n, CopiedAlong

\* The entries of the first k that are kept, the regular files of a set, and whether some
\* entry of it raises.
KeptOf(walk, excludes, k) == {walk[i] : i \in {j \in 1 .. k : Kept(walk[j], excludes)}}

FilesOf(S) == {f \in S : f.kind \in Hashed}

SomeRaise(S) == \E f \in S : f.kind \in Raises

\* What should have become of the first k entries: `kept` are those that are kept.
IsPartial(copy, kept, limits) ==
  /\ \A f \in copy.disk : ~MatchesAny(f.path, Protected)
  /\ Sized(FilesOf(copy.disk))
  /\ Cardinality(FilesOf(copy.disk)) <= limits.files /\ Bytes(FilesOf(copy.disk)) <= limits.bytes
  /\ copy.failed <=> \/ Cardinality(FilesOf(kept)) > limits.files
                     \/ Bytes(FilesOf(kept)) > limits.bytes
                     \/ SomeRaise(kept)
  /\ ~copy.failed =>
       /\ copy.count = Cardinality(FilesOf(kept)) /\ copy.bytes = Bytes(FilesOf(kept))
       /\ FilesOf(copy.disk) = FilesOf(kept)
       /\ copy.manifest = {f \in kept : f.kind \in {"file", "link"}}
       /\ {f.path : f \in copy.disk} = {f.path : f \in {g \in kept : g.kind # "other"}}

\* What is no file changes neither the count nor the bytes.
LEMMA MeetsOther ==
  ASSUME NEW V, NEW copy \in CopyStates(V), NEW kept, NEW entry \in Entries(V),
         NEW excludes, NEW limits, Kept(entry, excludes), entry.kind \notin Hashed,
         IsPartial(copy, kept, limits)
  PROVE  IsPartial(Meets(copy, entry, excludes, limits), kept \cup {entry}, limits)
<1> DEFINE now == kept \cup {entry}
<1>1. FilesOf(now) = FilesOf(kept)
  BY DEF FilesOf
<1>2. ~MatchesAny(entry.path, Protected)
  BY DEF Kept
<1>0. SomeRaise(now) <=> SomeRaise(kept) \/ entry.kind = "unreadable"
  BY DEF SomeRaise, Raises, Hashed
<1>3. CASE copy.failed
  BY <1>0, <1>1, <1>3 DEF Meets, IsPartial
<1>4. CASE ~copy.failed /\ entry.kind = "other"
  <2>1. Meets(copy, entry, excludes, limits) = copy
    BY <1>4 DEF Meets
  <2>2. /\ {f \in now : f.kind \in {"file", "link"}} = {f \in kept : f.kind \in {"file", "link"}}
        /\ {g \in now : g.kind # "other"} = {g \in kept : g.kind # "other"}
    BY <1>4
  <2> QED
    BY <1>0, <1>1, <1>4, <2>1, <2>2 DEF IsPartial
<1>5. CASE ~copy.failed /\ entry.kind = "link"
  <2>1. PICK new : new = [copy EXCEPT !.disk = @ \cup {entry}, !.manifest = @ \cup {entry}]
    OBVIOUS
  <2>2. Meets(copy, entry, excludes, limits) = new
    BY <1>5, <2>1 DEF Meets, Hashed
  <2>3. /\ new.disk = copy.disk \cup {entry} /\ new.manifest = copy.manifest \cup {entry}
        /\ new.failed = copy.failed /\ new.count = copy.count /\ new.bytes = copy.bytes
    BY <2>1 DEF CopyStates
  <2>4. FilesOf(new.disk) = FilesOf(copy.disk)
    BY <1>5, <2>3 DEF FilesOf, Hashed
  <2>5. /\ {f \in now : f.kind \in {"file", "link"}}
             = {f \in kept : f.kind \in {"file", "link"}} \cup {entry}
        /\ {g \in now : g.kind # "other"} = {g \in kept : g.kind # "other"} \cup {entry}
    BY <1>5
  <2>6. {f.path : f \in new.disk} = {f.path : f \in copy.disk} \cup {entry.path}
    BY <2>3
  <2>7. {f.path : f \in {g \in now : g.kind # "other"}}
          = {f.path : f \in {g \in kept : g.kind # "other"}} \cup {entry.path}
    BY <2>5
  <2>8. new.manifest = {f \in now : f.kind \in {"file", "link"}}
    BY <1>5, <2>3, <2>5 DEF IsPartial
  <2>9. {f.path : f \in new.disk} = {f.path : f \in {g \in now : g.kind # "other"}}
    BY <1>5, <2>6, <2>7 DEF IsPartial
  <2> QED
    BY <1>0, <1>1, <1>2, <1>5, <2>2, <2>3, <2>4, <2>8, <2>9 DEF IsPartial
<1>6. CASE ~copy.failed /\ entry.kind = "linkToDirectory"
  <2>1. PICK made : made = [entry EXCEPT !.kind = "directory"]
    OBVIOUS
  <2>2. PICK new : new = [copy EXCEPT !.disk = @ \cup {made}]
    OBVIOUS
  <2>3. Meets(copy, entry, excludes, limits) = new
    BY <1>6, <2>1, <2>2 DEF Meets, Hashed
  <2>4. made.path = entry.path /\ made.kind = "directory"
    BY <2>1 DEF Entries
  <2>5. /\ new.disk = copy.disk \cup {made} /\ new.manifest = copy.manifest
        /\ new.failed = copy.failed /\ new.count = copy.count /\ new.bytes = copy.bytes
    BY <2>2 DEF CopyStates
  <2>6. FilesOf(new.disk) = FilesOf(copy.disk)
    BY <2>4, <2>5 DEF FilesOf, Hashed
  <2>7. /\ {f \in now : f.kind \in {"file", "link"}} = {f \in kept : f.kind \in {"file", "link"}}
        /\ {g \in now : g.kind # "other"} = {g \in kept : g.kind # "other"} \cup {entry}
    BY <1>6
  <2>8. {f.path : f \in new.disk} = {f.path : f \in copy.disk} \cup {entry.path}
    BY <2>4, <2>5
  <2>9. {f.path : f \in {g \in now : g.kind # "other"}}
          = {f.path : f \in {g \in kept : g.kind # "other"}} \cup {entry.path}
    BY <2>7
  <2>10. {f.path : f \in new.disk} = {f.path : f \in {g \in now : g.kind # "other"}}
    BY <1>6, <2>8, <2>9 DEF IsPartial
  <2> QED
    BY <1>0, <1>1, <1>2, <1>6, <2>3, <2>4, <2>5, <2>6, <2>7, <2>10 DEF IsPartial
<1>7. CASE ~copy.failed /\ entry.kind = "unreadable"
  <2>1. PICK new : new = [copy EXCEPT !.failed = TRUE]
    OBVIOUS
  <2>2. Meets(copy, entry, excludes, limits) = new
    BY <1>7, <2>1 DEF Meets
  <2>3. new.disk = copy.disk /\ new.failed
    BY <2>1 DEF CopyStates
  <2> QED
    BY <1>0, <1>7, <2>2, <2>3 DEF IsPartial
<1> QED
  BY <1>3, <1>4, <1>5, <1>6, <1>7 DEF Entries, Kinds, Hashed

\* A regular file: refused when it would pass a limit, given up when it cannot be copied.
LEMMA MeetsFile ==
  ASSUME NEW V, NEW copy \in CopyStates(V), NEW kept, NEW entry \in Entries(V), entry \notin kept,
         NEW excludes, NEW limits, limits.files \in Nat, limits.bytes \in Nat,
         Kept(entry, excludes), entry.kind \in Hashed,
         Sized(FilesOf(kept)), IsPartial(copy, kept, limits)
  PROVE  /\ Sized(FilesOf(kept \cup {entry}))
         /\ IsPartial(Meets(copy, entry, excludes, limits), kept \cup {entry}, limits)
<1> DEFINE now == kept \cup {entry}
<1>1. FilesOf(now) = FilesOf(kept) \cup {entry} /\ entry \notin FilesOf(kept)
  BY DEF FilesOf
<1>2. entry.size \in Nat /\ copy.failed \in BOOLEAN
  BY DEF Entries, CopyStates
<1>3. PICK n \in Nat, total \in Nat : n = Cardinality(FilesOf(kept)) /\ total = Bytes(FilesOf(kept))
  BY BytesRecur, FS_CardinalityType DEF Sized
<1>4. /\ Sized(FilesOf(now)) /\ Cardinality(FilesOf(now)) = n + 1
      /\ Bytes(FilesOf(now)) = total + entry.size
  <2>1. PICK S : S = FilesOf(kept)
    OBVIOUS
  <2>2. Sized(S) /\ entry \notin S /\ n = Cardinality(S) /\ total = Bytes(S)
    BY <1>1, <1>3, <2>1
  <2>3. Sized(S \cup {entry}) /\ Bytes(S \cup {entry}) = total + entry.size
    BY <1>2, <2>2, BytesAdd
  <2>4. IsFiniteSet(S)
    BY <2>2 DEF Sized
  <2>5. Cardinality(S \cup {entry}) = n + 1
    BY <2>2, <2>4, FS_AddElement
  <2> QED
    BY <1>1, <2>1, <2>3, <2>5
<1>5. SomeRaise(now) <=> SomeRaise(kept) \/ entry.kind \in Raises
  BY DEF SomeRaise
<1>6. CASE copy.failed
  <2>1. Meets(copy, entry, excludes, limits) = copy
    BY <1>6 DEF Meets
  <2>2. n > limits.files \/ total > limits.bytes \/ SomeRaise(kept)
    BY <1>3, <1>6 DEF IsPartial
  <2>3. n + 1 > limits.files \/ total + entry.size > limits.bytes \/ SomeRaise(now)
    BY <1>2, <1>5, <2>2
  <2> QED
    BY <1>4, <1>6, <2>1, <2>3 DEF IsPartial
<1>7. CASE ~copy.failed
  <2>1. /\ copy.count = n /\ copy.bytes = total /\ FilesOf(copy.disk) = FilesOf(kept)
        /\ copy.manifest = {f \in kept : f.kind \in {"file", "link"}}
        /\ {f.path : f \in copy.disk} = {f.path : f \in {g \in kept : g.kind # "other"}}
        /\ ~SomeRaise(kept)
    BY <1>3, <1>7 DEF IsPartial
  <2>2. PICK full \in BOOLEAN, failed \in BOOLEAN :
          /\ full = (copy.count + 1 > limits.files \/ copy.bytes + entry.size > limits.bytes)
          /\ failed = (full \/ entry.kind \in Raises)
    OBVIOUS
  <2>3. PICK new : new = [copy EXCEPT !.count = copy.count + 1, !.bytes = copy.bytes + entry.size,
                            !.failed = failed,
                            !.disk = IF full THEN @ ELSE @ \cup {entry},
                            !.manifest = IF failed THEN @ ELSE @ \cup {entry}]
    OBVIOUS
  <2>4. entry.kind # "other" /\ entry.kind # "unreadable"
    BY DEF Hashed
  <2>5. Meets(copy, entry, excludes, limits) = new
    BY <1>7, <2>2, <2>3, <2>4 DEF Meets, Copies
  <2>6. /\ new.disk = IF full THEN copy.disk ELSE copy.disk \cup {entry}
        /\ new.manifest = IF failed THEN copy.manifest ELSE copy.manifest \cup {entry}
        /\ new.failed = failed /\ new.count = n + 1 /\ new.bytes = total + entry.size
    BY <2>1, <2>3 DEF CopyStates
  <2>7. full <=> n + 1 > limits.files \/ total + entry.size > limits.bytes
    BY <2>1, <2>2
  <2>8. failed <=> n + 1 > limits.files \/ total + entry.size > limits.bytes \/ SomeRaise(now)
    BY <1>5, <2>1, <2>2, <2>7
  <2>9. CASE full
    <3>1. new.disk = copy.disk /\ new.failed
      BY <2>2, <2>6, <2>9
    <3> QED
      BY <1>4, <2>2, <2>5, <2>8, <2>9, <3>1 DEF IsPartial
  <2>10. CASE ~full
    <3>1. new.disk = copy.disk \cup {entry}
      BY <2>6, <2>10
    <3>2. FilesOf(new.disk) = FilesOf(now)
      BY <1>1, <2>1, <3>1 DEF FilesOf
    <3>3. n + 1 <= limits.files /\ total + entry.size <= limits.bytes
      <4>1. ~(n + 1 > limits.files) /\ ~(total + entry.size > limits.bytes)
        BY <2>7, <2>10
      <4> QED
        BY <1>2, <4>1
    <3>4. \A f \in new.disk : ~MatchesAny(f.path, Protected)
      BY <3>1 DEF IsPartial, Kept
    <3>5. CASE failed
      BY <1>4, <2>5, <2>6, <2>8, <3>2, <3>3, <3>4, <3>5 DEF IsPartial
    <3>6. CASE ~failed
      <4>1. new.manifest = copy.manifest \cup {entry} /\ entry.kind = "file"
        BY <2>2, <2>6, <3>6 DEF Raises, Hashed
      <4>2. {f \in now : f.kind \in {"file", "link"}}
              = {f \in kept : f.kind \in {"file", "link"}} \cup {entry}
        BY <4>1
      <4>3. {g \in now : g.kind # "other"} = {g \in kept : g.kind # "other"} \cup {entry}
        BY <2>4
      <4>4. {f.path : f \in new.disk} = {f.path : f \in copy.disk} \cup {entry.path}
        BY <3>1
      <4>5. {f.path : f \in {g \in now : g.kind # "other"}}
              = {f.path : f \in {g \in kept : g.kind # "other"}} \cup {entry.path}
        BY <4>3
      <4>6. new.manifest = {f \in now : f.kind \in {"file", "link"}}
        BY <2>1, <4>1, <4>2
      <4>7. {f.path : f \in new.disk} = {f.path : f \in {g \in now : g.kind # "other"}}
        BY <2>1, <4>4, <4>5
      <4> QED
        BY <1>4, <2>5, <2>6, <2>8, <3>2, <3>3, <3>4, <3>6, <4>6, <4>7 DEF IsPartial
    <3> QED
      BY <3>5, <3>6
  <2> QED
    BY <2>9, <2>10
<1> QED
  BY <1>2, <1>4, <1>6, <1>7

\* A snapshot is what SnapshotIsExact says, however many entries the project has.
THEOREM SnapshotForAll ==
  ASSUME NEW V, NEW walk, AreEntries(walk, V), NEW excludes,
         NEW limits, limits.files \in Nat, limits.bytes \in Nat
  PROVE  SnapshotIsExact(walk, excludes, limits)
<1>1. /\ walk \in Seq(Entries(V)) /\ Len(walk) \in Nat /\ DOMAIN walk = 1 .. Len(walk)
      /\ \A i, j \in DOMAIN walk : walk[i] = walk[j] => i = j
      /\ \A i \in DOMAIN walk : walk[i] \in Entries(V)
  BY DEF AreEntries
<1>2. PICK n \in Nat : n = Len(walk)
  BY <1>1
<1>3. PICK h : /\ h[0] = EmptyCopy
               /\ \A i \in 1 .. n : h[i] = Meets(h[i - 1], walk[i], excludes, limits)
               /\ h[n] = Snapshot(walk, excludes, limits)
  <2>1. walk \in Seq(Entries(V))
    BY <1>1
  <2>2. PICK h : CopiedAlong(h, walk, excludes, limits)
    BY <2>1, SnapshotSteps
  <2> QED
    BY <1>2, <2>2 DEF CopiedAlong
<1> DEFINE K(k) == KeptOf(walk, excludes, k)
           Right(k) == /\ h[k] \in CopyStates(V) /\ Sized(FilesOf(K(k)))
                       /\ IsPartial(h[k], K(k), limits)
           Reached == {k \in Nat : k <= n => Right(k)}
<1>4. Right(0)
  <2>1. EmptyCopy \in CopyStates(V)
    BY DEF EmptyCopy, CopyStates
  <2>2. K(0) = {} /\ FilesOf(K(0)) = {}
    BY DEF KeptOf, FilesOf
  <2>3. EmptyCopy.disk = {} /\ EmptyCopy.manifest = {} /\ EmptyCopy.failed = FALSE
        /\ EmptyCopy.count = 0 /\ EmptyCopy.bytes = 0 /\ FilesOf(EmptyCopy.disk) = {}
    BY DEF EmptyCopy, FilesOf
  <2>4. Sized({}) /\ Cardinality({}) = 0
    BY FS_EmptySet DEF Sized
  <2>5. Bytes({}) = 0
    BY <2>4, BytesRecur
  <2>6. {f \in {} : f.kind \in {"file", "link"}} = {} /\ {f.path : f \in {}} = {}
        /\ {g \in {} : g.kind # "other"} = {}
    OBVIOUS
  <2>7. 0 <= limits.files /\ 0 <= limits.bytes
    OBVIOUS
  <2>8. IsPartial(EmptyCopy, {}, limits)
    BY <2>2, <2>3, <2>4, <2>5, <2>6, <2>7 DEF IsPartial, SomeRaise
  <2> QED
    BY <1>3, <2>1, <2>2, <2>4, <2>8
<1>5. ASSUME NEW k \in Nat, k + 1 <= n, Right(k) PROVE Right(k + 1)
  <2>1. k + 1 \in 1 .. n /\ (k + 1) - 1 = k /\ k + 1 \in DOMAIN walk
    BY <1>1, <1>2, <1>5
  <2>2. PICK entry : entry = walk[k + 1]
    OBVIOUS
  <2>3. PICK copy : copy = h[k]
    OBVIOUS
  <2>4. h[k + 1] = Meets(copy, entry, excludes, limits) /\ entry \in Entries(V)
    BY <1>1, <1>3, <2>1, <2>2, <2>3
  <2>5. h[k + 1] \in CopyStates(V)
    BY <1>5, <2>3, <2>4, MeetsType
  <2>6. \A j : j \in 1 .. (k + 1) <=> j \in 1 .. k \/ j = k + 1
    BY <2>1
  <2>7. entry \notin K(k)
    <3>1. SUFFICES ASSUME entry \in K(k) PROVE FALSE
      OBVIOUS
    <3>2. PICK j \in 1 .. k : entry = walk[j]
      BY <3>1 DEF KeptOf
    <3>3. j \in DOMAIN walk /\ j # k + 1
      BY <1>1, <1>2, <2>1
    <3> QED
      BY <1>1, <2>1, <2>2, <3>2, <3>3
  <2>8. CASE Kept(entry, excludes)
    <3>1. K(k + 1) = K(k) \cup {entry}
      BY <2>2, <2>6, <2>8 DEF KeptOf
    <3> HIDE DEF K
    <3>2. CASE entry.kind \in Hashed
      <4>1. /\ Sized(FilesOf(K(k) \cup {entry}))
            /\ IsPartial(Meets(copy, entry, excludes, limits), K(k) \cup {entry}, limits)
        BY <1>5, <2>3, <2>4, <2>7, <2>8, <3>2, MeetsFile
      <4> QED
        BY <2>4, <2>5, <3>1, <4>1
    <3>3. CASE entry.kind \notin Hashed
      <4>1. IsPartial(Meets(copy, entry, excludes, limits), K(k) \cup {entry}, limits)
        BY <1>5, <2>3, <2>4, <2>8, <3>3, MeetsOther
      <4>2. FilesOf(K(k) \cup {entry}) = FilesOf(K(k))
        BY <3>3 DEF FilesOf
      <4> QED
        BY <1>5, <2>4, <2>5, <3>1, <4>1, <4>2
    <3> QED
      BY <3>2, <3>3
  <2>9. CASE ~Kept(entry, excludes)
    <3>1. K(k + 1) = K(k)
      BY <2>2, <2>6, <2>9 DEF KeptOf
    <3>2. Meets(copy, entry, excludes, limits) = copy
      BY <2>9 DEF Meets
    <3> HIDE DEF K
    <3> QED
      BY <1>5, <2>3, <2>4, <2>5, <3>1, <3>2
  <2> QED
    BY <2>8, <2>9
<1>6. n \in Reached
  <2> HIDE DEF Right
  <2>1. 0 \in Reached
    BY <1>4
  <2>2. ASSUME NEW k \in Nat, k \in Reached PROVE k + 1 \in Reached
    BY <1>2, <1>5, <2>2
  <2> HIDE DEF Reached
  <2> QED
    BY <1>2, <2>1, <2>2, Inductive
<1>7. Right(n)
  BY <1>2, <1>6
<1>8. PICK copy : copy = Snapshot(walk, excludes, limits)
  OBVIOUS
<1>9. PICK kept : kept = {walk[i] : i \in {j \in DOMAIN walk : Kept(walk[j], excludes)}}
  OBVIOUS
<1>10. K(n) = kept
  BY <1>1, <1>2, <1>9 DEF KeptOf
<1>11. IsPartial(copy, kept, limits)
  BY <1>3, <1>7, <1>8, <1>10
<1> HIDE DEF K, Right, Reached
<1> QED
  BY <1>8, <1>9, <1>11 DEF SnapshotIsExact, IsPartial, FilesOf, SomeRaise

\* Whatever project is walked, with whatever limits, the invariant of the run holds of it.
THEOREM SnapshotsAlways ==
  ASSUME NEW V,
         Of("walk") => /\ AreEntries(input.value.walk, V)
                       /\ input.value.limits.files \in Nat /\ input.value.limits.bytes \in Nat
  PROVE  SnapshotsAreExact
  BY SnapshotForAll DEF SnapshotsAreExact
=============================================================================
