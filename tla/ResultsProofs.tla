---------------------------- MODULE ResultsProofs ----------------------------
(* What comes out of a sandbox, for every input: theorems about Output,        *)
(* Artifacts, Reports, TestRuns and Changes.                                   *)
EXTENDS GuardsProofs
-----------------------------------------------------------------------------
(* Output. *)

Stores == [size : Nat, truncated : BOOLEAN]

\* A chunk leads from one store to another.
LEMMA AddsType ==
  ASSUME NEW store \in Stores, NEW chunk \in Nat, NEW max \in Nat
  PROVE  Adds(store, chunk, max) \in Stores
<1>1. store.size \in Nat /\ store.truncated \in BOOLEAN
  BY DEF Stores
<1>2. CASE store.size >= max
  BY <1>1, <1>2 DEF Stores, Adds
<1>3. CASE ~(store.size >= max)
  <2>1. Smaller(chunk, max - store.size) \in Nat
    BY <1>1, <1>3 DEF Smaller
  <2> QED
    BY <1>1, <1>3, <2>1 DEF Stores, Adds
<1> QED
  BY <1>2, <1>3

\* The store after each chunk of the stream.
LEMMA CollectedSteps ==
  ASSUME NEW chunks \in Seq(Nat), NEW max \in Nat
  PROVE  \E h : /\ h[0] = Empty
                /\ \A i \in 1 .. Len(chunks) : h[i] = Adds(h[i - 1], chunks[i], max)
                /\ h[Len(chunks)] = Collected(chunks, max)
<1> DEFINE n == Len(chunks)
           step == [p \in Stores \X (1 .. n) |-> Adds(p[1], chunks[p[2]], max)]
           iter == CHOOSE f : f = [T \in SUBSET (1 .. n) |->
                     IF T = {} THEN Empty ELSE Adds(f[T \ {Max(T)}], chunks[Max(T)], max)]
<1>1. n \in Nat /\ DOMAIN chunks = 1 .. n /\ \A i \in 1 .. n : chunks[i] \in Nat
  OBVIOUS
<1>2. Collected(chunks, max) = iter[1 .. n]
  BY <1>1 DEF Collected, FoldLeft, MapThenFoldSet
<1>3. Empty \in Stores /\ Steps(step, 1 .. n, Stores)
  BY <1>1, AddsType DEF Empty, Stores, Steps
<1> HIDE DEF n
<1>4. PICK it \in [SUBSET (1 .. n) -> Stores] : LastFolds(it, n, Empty, step)
  BY <1>1, <1>3, LastFoldExists
<1>5. it = [T \in SUBSET (1 .. n) |->
             IF T = {} THEN Empty ELSE Adds(it[T \ {Max(T)}], chunks[Max(T)], max)]
  BY <1>1, <1>4, MaxOfSubset DEF LastFolds
<1>6. iter = [T \in SUBSET (1 .. n) |->
               IF T = {} THEN Empty ELSE Adds(iter[T \ {Max(T)}], chunks[Max(T)], max)]
  BY <1>5
<1> HIDE DEF iter
<1>7. {} \in SUBSET (1 .. n) /\ iter[{}] = Empty
  BY <1>6
<1>8. PICK h : GoesAlong(h, iter, n)
  BY <1>1, FoldPrefixes
<1>9. ASSUME NEW i \in 1 .. n PROVE h[i] = Adds(h[i - 1], chunks[i], max)
  <2>1. /\ 1 .. i \in SUBSET (1 .. n) /\ 1 .. i # {} /\ h[i] = iter[1 .. i]
        /\ h[i - 1] = iter[(1 .. i) \ {Max(1 .. i)}] /\ Max(1 .. i) = i
    BY <1>8 DEF GoesAlong
  <2>2. iter[1 .. i] = Adds(iter[(1 .. i) \ {Max(1 .. i)}], chunks[Max(1 .. i)], max)
    BY <1>6, <2>1
  <2> QED
    BY <2>1, <2>2
<1>10. h[0] = Empty /\ h[n] = Collected(chunks, max)
  BY <1>2, <1>7, <1>8 DEF GoesAlong
<1> QED
  BY <1>9, <1>10 DEF n

\* The length of the stream up to each chunk.
LEMMA TotalSteps ==
  ASSUME NEW chunks \in Seq(Nat)
  PROVE  \E h : /\ h[0] = 0
                /\ \A i \in 1 .. Len(chunks) : h[i] = h[i - 1] + chunks[i]
                /\ h[Len(chunks)] = StreamLength(chunks)
<1> DEFINE n == Len(chunks)
           step == [p \in Nat \X (1 .. n) |-> p[1] + chunks[p[2]]]
           iter == CHOOSE f : f = [T \in SUBSET (1 .. n) |->
                     IF T = {} THEN 0 ELSE f[T \ {Max(T)}] + chunks[Max(T)]]
<1>1. n \in Nat /\ DOMAIN chunks = 1 .. n /\ \A i \in 1 .. n : chunks[i] \in Nat
  OBVIOUS
<1>2. StreamLength(chunks) = iter[1 .. n]
  BY <1>1 DEF StreamLength, FoldLeft, MapThenFoldSet
<1>3. 0 \in Nat /\ Steps(step, 1 .. n, Nat)
  BY <1>1 DEF Steps
<1> HIDE DEF n
<1>4. PICK it \in [SUBSET (1 .. n) -> Nat] : LastFolds(it, n, 0, step)
  BY <1>1, <1>3, LastFoldExists
<1>5. it = [T \in SUBSET (1 .. n) |->
             IF T = {} THEN 0 ELSE it[T \ {Max(T)}] + chunks[Max(T)]]
  BY <1>1, <1>4, MaxOfSubset DEF LastFolds
<1>6. iter = [T \in SUBSET (1 .. n) |->
               IF T = {} THEN 0 ELSE iter[T \ {Max(T)}] + chunks[Max(T)]]
  BY <1>5
<1> HIDE DEF iter
<1>7. {} \in SUBSET (1 .. n) /\ iter[{}] = 0
  BY <1>6
<1>8. PICK h : GoesAlong(h, iter, n)
  BY <1>1, FoldPrefixes
<1>9. ASSUME NEW i \in 1 .. n PROVE h[i] = h[i - 1] + chunks[i]
  <2>1. /\ 1 .. i \in SUBSET (1 .. n) /\ 1 .. i # {} /\ h[i] = iter[1 .. i]
        /\ h[i - 1] = iter[(1 .. i) \ {Max(1 .. i)}] /\ Max(1 .. i) = i
    BY <1>8 DEF GoesAlong
  <2>2. iter[1 .. i] = iter[(1 .. i) \ {Max(1 .. i)}] + chunks[Max(1 .. i)]
    BY <1>6, <2>1
  <2> QED
    BY <2>1, <2>2
<1>10. h[0] = 0 /\ h[n] = StreamLength(chunks)
  BY <1>2, <1>7, <1>8 DEF GoesAlong
<1> QED
  BY <1>9, <1>10 DEF n

\* What a store should be when so much of the stream has come.
Capped(total, max) ==
  IF total > max THEN [size |-> max, truncated |-> TRUE] ELSE [size |-> total, truncated |-> FALSE]

\* One chunk keeps it so.
LEMMA AddsKeeps ==
  ASSUME NEW total \in Nat, NEW chunk \in Nat \ {0}, NEW max \in Nat
  PROVE  Adds(Capped(total, max), chunk, max) = Capped(total + chunk, max)
<1>1. CASE total > max
  <2>1. total + chunk > max /\ max >= max
    BY <1>1
  <2> QED
    BY <1>1, <2>1 DEF Adds, Capped
<1>2. CASE total = max
  <2>1. total + chunk > max /\ ~(total > max) /\ max >= max
    BY <1>2
  <2> QED
    BY <1>2, <2>1 DEF Adds, Capped
<1>3. CASE total < max
  <2>1. ~(total > max) /\ ~(total >= max)
    BY <1>3
  <2>2. Adds(Capped(total, max), chunk, max)
          = [size |-> total + Smaller(chunk, max - total),
             truncated |-> FALSE \/ chunk > max - total]
    BY <2>1 DEF Adds, Capped
  <2>3. CASE total + chunk > max
    <3>1. total + Smaller(chunk, max - total) = max /\ chunk > max - total
      BY <1>3, <2>3 DEF Smaller
    <3> QED
      BY <2>2, <2>3, <3>1 DEF Capped
  <2>4. CASE ~(total + chunk > max)
    <3>1. total + Smaller(chunk, max - total) = total + chunk /\ ~(chunk > max - total)
      BY <1>3, <2>4 DEF Smaller
    <3> QED
      BY <2>2, <2>4, <3>1 DEF Capped
  <2> QED
    BY <2>3, <2>4
<1> QED
  BY <1>1, <1>2, <1>3

\* However a stream is cut into chunks, and whatever the cap: what is kept is the beginning up
\* to the cap, and the store says that something is missing exactly when it is.
THEOREM OutputForAll ==
  ASSUME NEW chunks \in Seq(Nat \ {0}), NEW max \in Nat
  PROVE  OutputCapped(chunks, max)
<1> DEFINE n == Len(chunks)
<1>1. n \in Nat /\ chunks \in Seq(Nat) /\ \A i \in 1 .. n : chunks[i] \in Nat \ {0}
  OBVIOUS
<1>2. PICK h : /\ h[0] = Empty
               /\ \A i \in 1 .. n : h[i] = Adds(h[i - 1], chunks[i], max)
               /\ h[n] = Collected(chunks, max)
  BY <1>1, CollectedSteps
<1>3. PICK total : /\ total[0] = 0
                   /\ \A i \in 1 .. n : total[i] = total[i - 1] + chunks[i]
                   /\ total[n] = StreamLength(chunks)
  BY <1>1, TotalSteps
<1> HIDE DEF n
<1> DEFINE Right(k) == total[k] \in Nat /\ h[k] = Capped(total[k], max)
           Reached == {k \in Nat : k <= n => Right(k)}
<1>4. Right(0)
  <2>1. Empty = Capped(0, max)
    BY DEF Empty, Capped
  <2>2. total[0] \in Nat /\ h[0] = Capped(total[0], max)
    BY <1>2, <1>3, <2>1
  <2> QED
    BY <2>2
<1>5. ASSUME NEW k \in Nat, k + 1 <= n, Right(k) PROVE Right(k + 1)
  <2>1. k + 1 \in 1 .. n /\ (k + 1) - 1 = k
    BY <1>1, <1>5
  <2>2. h[k + 1] = Adds(h[k], chunks[k + 1], max) /\ total[k + 1] = total[k] + chunks[k + 1]
    BY <1>2, <1>3, <2>1
  <2>3. chunks[k + 1] \in Nat \ {0}
    BY <1>1, <2>1
  <2>4. total[k] \in Nat /\ h[k] = Capped(total[k], max)
    BY <1>5
  <2>5. Adds(Capped(total[k], max), chunks[k + 1], max) = Capped(total[k] + chunks[k + 1], max)
    BY <2>3, <2>4, AddsKeeps
  <2>6. total[k + 1] \in Nat
    BY <2>2, <2>3, <2>4
  <2>7. h[k + 1] = Capped(total[k + 1], max)
    BY <2>2, <2>4, <2>5
  <2> QED
    BY <2>6, <2>7
<1> HIDE DEF Right
<1>6. 0 \in Reached /\ \A k \in Nat : k \in Reached => k + 1 \in Reached
  BY <1>1, <1>4, <1>5
<1>7. n \in Reached
  <2> HIDE DEF Reached
  <2> QED
    BY <1>1, <1>6, Inductive
<1>8. Right(n)
  BY <1>1, <1>7
<1>9. StreamLength(chunks) \in Nat
      /\ Collected(chunks, max) = Capped(StreamLength(chunks), max)
  BY <1>2, <1>3, <1>8 DEF Right
<1> QED
  BY <1>9 DEF OutputCapped, Capped, Smaller

\* Whatever stream is drawn, the invariant of the run holds of it.
THEOREM OutputsAlways ==
  ASSUME Of("chunks") => input.value.chunks \in Seq(Nat \ {0}) /\ input.value.max \in Nat
  PROVE  OutputIsCapped
  BY OutputForAll DEF OutputIsCapped
-----------------------------------------------------------------------------
(* The artifacts. *)

Lines(V) == [path : V, inside : BOOLEAN]

Patterns(V) == [text : V, lawful : BOOLEAN, breaks : BOOLEAN, prints : Seq(Lines(V))]

NoTwice(s) == \A i, j \in DOMAIN s : s[i] = s[j] => i = j

\* What a list has with one element more.
LEMMA RangeAppend ==
  ASSUME NEW V, NEW s \in Seq(V), NEW x \in V
  PROVE  /\ Append(s, x) \in Seq(V) /\ Len(Append(s, x)) = Len(s) + 1
         /\ Range(Append(s, x)) = Range(s) \cup {x}
         /\ NoTwice(s) /\ x \notin Range(s) => NoTwice(Append(s, x))
<1>1. /\ Len(s) \in Nat /\ DOMAIN s = 1 .. Len(s) /\ DOMAIN Append(s, x) = 1 .. Len(s) + 1
      /\ Len(Append(s, x)) = Len(s) + 1 /\ Append(s, x) \in Seq(V)
  OBVIOUS
<1>2. /\ \A i \in 1 .. Len(s) : Append(s, x)[i] = s[i]
      /\ Append(s, x)[Len(s) + 1] = x
      /\ \A i : i \in 1 .. Len(s) + 1 <=> i \in 1 .. Len(s) \/ i = Len(s) + 1
  OBVIOUS
<1>3. Range(Append(s, x)) = Range(s) \cup {x}
  BY <1>1, <1>2 DEF Range
<1>4. ASSUME NoTwice(s), x \notin Range(s) PROVE NoTwice(Append(s, x))
  BY <1>1, <1>2, <1>4 DEF NoTwice, Range
<1> QED
  BY <1>1, <1>3, <1>4

\* What is found so far: the paths inside the workspace, and what is skipped.
FoundStates(V) == [matches : Seq(V), skipped : SUBSET V]

Found(found, inside, outside) ==
  NoTwice(found.matches) /\ Range(found.matches) = inside /\ found.skipped = outside

InsideOf(line) == IF line.inside THEN {line.path} ELSE {}

OutsideOf(line) == IF line.inside THEN {} ELSE {line.path}

\* A line adds its path to one side or the other.
LEMMA LineFound ==
  ASSUME NEW V, NEW found \in FoundStates(V), NEW line \in Lines(V)
  PROVE  /\ TakesLine(found, line) \in FoundStates(V)
         /\ \A inside, outside : Found(found, inside, outside) =>
              Found(TakesLine(found, line), inside \cup InsideOf(line),
                    outside \cup OutsideOf(line))
<1>1. /\ found.matches \in Seq(V) /\ found.skipped \in SUBSET V
      /\ line.path \in V /\ line.inside \in BOOLEAN
  BY DEF FoundStates, Lines
<1>2. CASE ~line.inside
  <2>1. PICK new : new = [found EXCEPT !.skipped = @ \cup {line.path}]
    OBVIOUS
  <2>2. TakesLine(found, line) = new
    BY <1>2, <2>1 DEF TakesLine
  <2>3. new \in FoundStates(V) /\ new.matches = found.matches
        /\ new.skipped = found.skipped \cup {line.path}
    BY <1>1, <2>1 DEF FoundStates
  <2> QED
    BY <1>2, <2>2, <2>3 DEF Found, InsideOf, OutsideOf
<1>3. CASE line.inside /\ Contains(found.matches, line.path)
  <2>1. TakesLine(found, line) = found
    BY <1>3 DEF TakesLine
  <2>2. line.path \in Range(found.matches)
    BY <1>1, <1>3 DEF Contains, Range
  <2> QED
    BY <1>3, <2>1, <2>2 DEF Found, InsideOf, OutsideOf
<1>4. CASE line.inside /\ ~Contains(found.matches, line.path)
  <2>1. PICK new : new = [found EXCEPT !.matches = Append(@, line.path)]
    OBVIOUS
  <2>2. TakesLine(found, line) = new
    BY <1>4, <2>1 DEF TakesLine
  <2>3. new.matches = Append(found.matches, line.path) /\ new.skipped = found.skipped
    BY <1>1, <2>1 DEF FoundStates
  <2>4. line.path \notin Range(found.matches)
    BY <1>1, <1>4 DEF Contains, Range
  <2>5. new \in FoundStates(V)
    BY <1>1, <2>1, RangeAppend DEF FoundStates
  <2>6. /\ Range(new.matches) = Range(found.matches) \cup {line.path}
        /\ NoTwice(found.matches) => NoTwice(new.matches)
    BY <1>1, <2>3, <2>4, RangeAppend
  <2> QED
    BY <1>4, <2>2, <2>3, <2>5, <2>6 DEF Found, InsideOf, OutsideOf
<1> QED
  BY <1>2, <1>3, <1>4, <1>1

\* The findings after each line that is printed.
LEMMA LineSteps ==
  ASSUME NEW V, NEW found \in FoundStates(V), NEW prints \in Seq(Lines(V))
  PROVE  \E h : /\ h[0] = found
                /\ \A i \in 1 .. Len(prints) : h[i] = TakesLine(h[i - 1], prints[i])
                /\ h[Len(prints)] = FoldLeft(TakesLine, found, prints)
<1> DEFINE n == Len(prints)
           C == FoundStates(V)
           step == [p \in C \X (1 .. n) |-> TakesLine(p[1], prints[p[2]])]
           iter == CHOOSE f : f = [T \in SUBSET (1 .. n) |->
                     IF T = {} THEN found ELSE TakesLine(f[T \ {Max(T)}], prints[Max(T)])]
<1>1. /\ n \in Nat /\ DOMAIN prints = 1 .. n
      /\ \A i \in 1 .. n : prints[i] \in Lines(V)
  OBVIOUS
<1>2. FoldLeft(TakesLine, found, prints) = iter[1 .. n]
  BY <1>1 DEF FoldLeft, MapThenFoldSet
<1>3. Steps(step, 1 .. n, C)
  <2> HIDE DEF C
  <2>1. \A p \in C \X (1 .. n) : step[p] \in C
    BY <1>1, LineFound DEF C
  <2> QED
    BY <2>1 DEF Steps
<1> HIDE DEF n, C
<1>4. PICK it \in [SUBSET (1 .. n) -> C] : LastFolds(it, n, found, step)
  BY <1>1, <1>3, LastFoldExists DEF C
<1>5. it = [T \in SUBSET (1 .. n) |->
             IF T = {} THEN found ELSE TakesLine(it[T \ {Max(T)}], prints[Max(T)])]
  BY <1>1, <1>4, MaxOfSubset DEF LastFolds
<1>6. iter = [T \in SUBSET (1 .. n) |->
               IF T = {} THEN found ELSE TakesLine(iter[T \ {Max(T)}], prints[Max(T)])]
  BY <1>5
<1> HIDE DEF iter
<1>7. {} \in SUBSET (1 .. n) /\ iter[{}] = found
  BY <1>6
<1>8. PICK h : GoesAlong(h, iter, n)
  BY <1>1, FoldPrefixes
<1>9. ASSUME NEW i \in 1 .. n PROVE h[i] = TakesLine(h[i - 1], prints[i])
  <2>1. /\ 1 .. i \in SUBSET (1 .. n) /\ 1 .. i # {} /\ h[i] = iter[1 .. i]
        /\ h[i - 1] = iter[(1 .. i) \ {Max(1 .. i)}] /\ Max(1 .. i) = i
    BY <1>8 DEF GoesAlong
  <2>2. iter[1 .. i] = TakesLine(iter[(1 .. i) \ {Max(1 .. i)}], prints[Max(1 .. i)])
    BY <1>6, <2>1
  <2> QED
    BY <2>1, <2>2
<1>10. h[0] = found /\ h[n] = FoldLeft(TakesLine, found, prints)
  BY <1>2, <1>7, <1>8 DEF GoesAlong
<1> QED
  BY <1>9, <1>10 DEF n

\* What the first k lines add.
InsideOfFirst(prints, k) == UNION {InsideOf(prints[i]) : i \in 1 .. k}

OutsideOfFirst(prints, k) == UNION {OutsideOf(prints[i]) : i \in 1 .. k}

\* One line more adds its path.
LEMMA FirstAdds ==
  ASSUME NEW prints, NEW k \in Nat
  PROVE  /\ InsideOfFirst(prints, 0) = {} /\ OutsideOfFirst(prints, 0) = {}
         /\ InsideOfFirst(prints, k + 1) = InsideOfFirst(prints, k) \cup InsideOf(prints[k + 1])
         /\ OutsideOfFirst(prints, k + 1) = OutsideOfFirst(prints, k) \cup OutsideOf(prints[k + 1])
<1>1. 1 .. 0 = {} /\ 1 .. k + 1 = (1 .. k) \cup {k + 1}
  OBVIOUS
<1> QED
  BY <1>1 DEF InsideOfFirst, OutsideOfFirst

\* All the lines of an output add theirs.
LEMMA LinesFound ==
  ASSUME NEW V, NEW found \in FoundStates(V), NEW prints \in Seq(Lines(V)),
         NEW inside, NEW outside, Found(found, inside, outside)
  PROVE  /\ FoldLeft(TakesLine, found, prints) \in FoundStates(V)
         /\ Found(FoldLeft(TakesLine, found, prints),
                  inside \cup InsideOfFirst(prints, Len(prints)),
                  outside \cup OutsideOfFirst(prints, Len(prints)))
<1>1. PICK n \in Nat : n = Len(prints) /\ \A i \in 1 .. n : prints[i] \in Lines(V)
  OBVIOUS
<1>2. PICK h : /\ h[0] = found
               /\ \A i \in 1 .. n : h[i] = TakesLine(h[i - 1], prints[i])
               /\ h[n] = FoldLeft(TakesLine, found, prints)
  BY <1>1, LineSteps
<1> DEFINE Right(k) == /\ h[k] \in FoundStates(V)
                       /\ Found(h[k], inside \cup InsideOfFirst(prints, k),
                                outside \cup OutsideOfFirst(prints, k))
           Reached == {k \in Nat : k <= n => Right(k)}
<1>3. Right(0)
  <2>1. inside \cup {} = inside /\ outside \cup {} = outside
    OBVIOUS
  <2> QED
    BY <1>2, <2>1, FirstAdds
<1>4. ASSUME NEW k \in Nat, k + 1 <= n, Right(k) PROVE Right(k + 1)
  <2>1. k + 1 \in 1 .. n /\ (k + 1) - 1 = k
    BY <1>1, <1>4
  <2>2. h[k + 1] = TakesLine(h[k], prints[k + 1]) /\ prints[k + 1] \in Lines(V)
    BY <1>1, <1>2, <2>1
  <2>3. PICK a : a = inside \cup InsideOfFirst(prints, k)
    OBVIOUS
  <2>4. PICK b : b = outside \cup OutsideOfFirst(prints, k)
    OBVIOUS
  <2>5. /\ a \cup InsideOf(prints[k + 1]) = inside \cup InsideOfFirst(prints, k + 1)
        /\ b \cup OutsideOf(prints[k + 1]) = outside \cup OutsideOfFirst(prints, k + 1)
    BY <2>3, <2>4, FirstAdds
  <2>6. h[k + 1] \in FoundStates(V)
        /\ Found(h[k + 1], a \cup InsideOf(prints[k + 1]), b \cup OutsideOf(prints[k + 1]))
    BY <1>4, <2>2, <2>3, <2>4, LineFound
  <2> QED
    BY <2>5, <2>6
<1> HIDE DEF Right
<1>5. 0 \in Reached /\ \A k \in Nat : k \in Reached => k + 1 \in Reached
  BY <1>1, <1>3, <1>4
<1>6. n \in Reached
  <2> HIDE DEF Reached
  <2> QED
    BY <1>1, <1>5, Inductive
<1> QED
  BY <1>1, <1>2, <1>6 DEF Right

\* Whether lawful patterns, of which nothing was printed, were told to match nothing.
Silenced(new, patterns, output) ==
  patterns # <<>> /\ Refused(patterns) = {} /\ output = <<>> =>
    new.matches = <<>> /\ new.skipped = {NoMatch}

\* The expansion has found what was printed, each path once, and skipped the rest.
LEMMA ExpandFound ==
  ASSUME NEW V, NoMatch \in V, NEW patterns \in Seq(Patterns(V)), NEW output \in Seq(Lines(V)),
         NEW new, new = Expand(patterns, output)
  PROVE  /\ new \in FoundStates(V) /\ NoTwice(new.matches)
         /\ Range(new.matches) = InsideOfFirst(output, Len(output))
         /\ OutsideOfFirst(output, Len(output)) \cup Refused(patterns) \subseteq new.skipped
         /\ Silenced(new, patterns, output)
<1>1. PICK begin : begin = [matches |-> <<>>, skipped |-> Refused(patterns)]
  OBVIOUS
<1>2. begin \in FoundStates(V) /\ Found(begin, {}, Refused(patterns))
  <2>1. Refused(patterns) \in SUBSET V
    <3>1. \A i \in DOMAIN patterns : patterns[i] \in Patterns(V)
      OBVIOUS
    <3> QED
      BY <3>1 DEF Refused, Patterns
  <2> QED
    BY <1>1, <2>1 DEF FoundStates, Found, NoTwice, Range
<1>3. PICK found : found = FoldLeft(TakesLine, begin, output)
  OBVIOUS
<1>4. PICK inside, outside : /\ inside = {} \cup InsideOfFirst(output, Len(output))
                             /\ outside = Refused(patterns) \cup OutsideOfFirst(output, Len(output))
  OBVIOUS
<1>5. found \in FoundStates(V) /\ Found(found, inside, outside)
  BY <1>2, <1>3, <1>4, LinesFound
<1>6. new = IF patterns # <<>> /\ found.matches = <<>> /\ found.skipped = {}
            THEN [found EXCEPT !.skipped = {NoMatch}] ELSE found
  BY <1>1, <1>3 DEF Expand
<1>7. /\ new \in FoundStates(V) /\ new.matches = found.matches
      /\ found.skipped \subseteq new.skipped
  BY <1>5, <1>6 DEF FoundStates
<1>8. ASSUME patterns # <<>>, Refused(patterns) = {}, output = <<>>
      PROVE  new.matches = <<>> /\ new.skipped = {NoMatch}
  <2>1. InsideOfFirst(output, Len(output)) = {} /\ OutsideOfFirst(output, Len(output)) = {}
    BY <1>8 DEF InsideOfFirst, OutsideOfFirst
  <2>2. found.skipped = {} /\ Range(found.matches) = {} /\ found.matches \in Seq(V)
    BY <1>4, <1>5, <1>8, <2>1 DEF Found, FoundStates
  <2>3. PICK matches \in Seq(V) : matches = found.matches
    BY <2>2
  <2>4. Len(matches) = 0
    <3>1. Len(matches) \in Nat /\ DOMAIN matches = 1 .. Len(matches)
      OBVIOUS
    <3>2. 1 \notin DOMAIN matches
      BY <2>2, <2>3 DEF Range
    <3> QED
      BY <3>1, <3>2
  <2>5. found.matches = <<>>
    BY <2>3, <2>4
  <2> QED
    BY <1>5, <1>6, <1>8, <2>2, <2>5 DEF FoundStates
<1> QED
  BY <1>4, <1>5, <1>7, <1>8 DEF Found, Silenced

\* The loop over the files.
DoneStates(V) == [collected : Seq(V), skipped : SUBSET V, ended : BOOLEAN]

\* A file leads from one state of the collection to another.
LEMMA FileType ==
  ASSUME NEW V, NEW done \in DoneStates(V), NEW path \in V, NEW unreadable,
         NEW limit \in Nat
  PROVE  TakesFile(done, path, unreadable, limit) \in DoneStates(V)
<1>1. done.collected \in Seq(V) /\ done.skipped \in SUBSET V
  BY DEF DoneStates
<1>2. Append(done.collected, path) \in Seq(V)
  BY <1>1
<1> QED
  BY <1>1, <1>2 DEF TakesFile, DoneStates

FilesTaken(begin, matches, unreadable, limit) ==
  FoldLeft(LAMBDA done, path : TakesFile(done, path, unreadable, limit), begin, matches)

TakesEach(h, begin, matches, unreadable, limit) ==
  /\ h[0] = begin
  /\ \A i \in 1 .. Len(matches) : h[i] = TakesFile(h[i - 1], matches[i], unreadable, limit)
  /\ h[Len(matches)] = FilesTaken(begin, matches, unreadable, limit)

\* The collection after each file.
LEMMA FileSteps ==
  ASSUME NEW V, NEW matches \in Seq(V), NEW begin \in DoneStates(V), NEW unreadable,
         NEW limit \in Nat
  PROVE  \E h : TakesEach(h, begin, matches, unreadable, limit)
<1> DEFINE n == Len(matches)
           C == DoneStates(V)
           step == [p \in C \X (1 .. n) |-> TakesFile(p[1], matches[p[2]], unreadable, limit)]
           result == FilesTaken(begin, matches, unreadable, limit)
           iter == CHOOSE f : f = [T \in SUBSET (1 .. n) |->
                     IF T = {} THEN begin
                     ELSE TakesFile(f[T \ {Max(T)}], matches[Max(T)], unreadable, limit)]
<1>1. n \in Nat /\ DOMAIN matches = 1 .. n /\ \A i \in 1 .. n : matches[i] \in V
  OBVIOUS
<1>2. result = iter[1 .. n]
  BY <1>1 DEF FilesTaken, FoldLeft, MapThenFoldSet
<1>3. begin \in C
  OBVIOUS
<1>4. Steps(step, 1 .. n, C)
  <2> HIDE DEF C
  <2>1. \A p \in C \X (1 .. n) : step[p] \in C
    BY <1>1, FileType DEF C
  <2> QED
    BY <2>1 DEF Steps
<1> HIDE DEF n, C, result
<1>5. PICK it \in [SUBSET (1 .. n) -> C] : LastFolds(it, n, begin, step)
  BY <1>1, <1>3, <1>4, LastFoldExists
<1>6. it = [T \in SUBSET (1 .. n) |->
             IF T = {} THEN begin
             ELSE TakesFile(it[T \ {Max(T)}], matches[Max(T)], unreadable, limit)]
  BY <1>1, <1>5, MaxOfSubset DEF LastFolds
<1>7. iter = [T \in SUBSET (1 .. n) |->
               IF T = {} THEN begin
               ELSE TakesFile(iter[T \ {Max(T)}], matches[Max(T)], unreadable, limit)]
  BY <1>6
<1> HIDE DEF iter
<1>8. {} \in SUBSET (1 .. n) /\ iter[{}] = begin
  BY <1>7
<1>9. PICK h : GoesAlong(h, iter, n)
  BY <1>1, FoldPrefixes
<1>10. ASSUME NEW i \in 1 .. n PROVE h[i] = TakesFile(h[i - 1], matches[i], unreadable, limit)
  <2>1. /\ 1 .. i \in SUBSET (1 .. n) /\ 1 .. i # {} /\ h[i] = iter[1 .. i]
        /\ h[i - 1] = iter[(1 .. i) \ {Max(1 .. i)}] /\ Max(1 .. i) = i
    BY <1>9 DEF GoesAlong
  <2>2. iter[1 .. i]
          = TakesFile(iter[(1 .. i) \ {Max(1 .. i)}], matches[Max(1 .. i)], unreadable, limit)
    BY <1>7, <2>1
  <2> QED
    BY <2>1, <2>2
<1>11. h[0] = begin /\ h[n] = result
  BY <1>2, <1>8, <1>9 DEF GoesAlong
<1> QED
  BY <1>10, <1>11 DEF n, result, TakesEach

\* What should have become of the first k files.
SeenOf(matches, k) == {matches[i] : i \in 1 .. k}

Collects(done, matches, skipped, unreadable, limit, k) ==
  /\ IsFiniteSet(Range(done.collected))
  /\ Cardinality(Range(done.collected)) = Len(done.collected)
  /\ Len(done.collected) <= limit
  /\ Range(done.collected) \subseteq SeenOf(matches, k) \ unreadable
  /\ skipped \subseteq done.skipped
  /\ done.ended => Len(done.collected) = limit /\ done.skipped \cap Range(matches) # {}
  /\ ~done.ended => SeenOf(matches, k) \subseteq Range(done.collected) \cup done.skipped

\* One file keeps it what it should be.
LEMMA FileCollects ==
  ASSUME NEW V, NEW matches \in Seq(V), NoTwice(matches), NEW skipped, NEW unreadable,
         NEW limit \in Nat, NEW k \in Nat, k + 1 <= Len(matches), NEW done \in DoneStates(V),
         Collects(done, matches, skipped, unreadable, limit, k)
  PROVE  Collects(TakesFile(done, matches[k + 1], unreadable, limit), matches, skipped,
                  unreadable, limit, k + 1)
<1> DEFINE path == matches[k + 1]
           new == TakesFile(done, path, unreadable, limit)
<1>1. /\ path \in V /\ k + 1 \in DOMAIN matches /\ k \in Nat /\ k + 1 # 0
      /\ 1 .. k + 1 = (1 .. k) \cup {k + 1} /\ 1 .. k \subseteq DOMAIN matches
  OBVIOUS
<1>2. /\ done.collected \in Seq(V) /\ done.skipped \in SUBSET V /\ done.ended \in BOOLEAN
      /\ Len(done.collected) \in Nat
  BY DEF DoneStates
<1>3. /\ SeenOf(matches, k + 1) = SeenOf(matches, k) \cup {path}
      /\ path \in Range(matches)
  BY <1>1 DEF SeenOf, Range
<1>4. path \notin SeenOf(matches, k)
  <2>1. SUFFICES ASSUME NEW i \in 1 .. k, path = matches[i] PROVE FALSE
    BY DEF SeenOf
  <2>2. i = k + 1
    BY <1>1, <2>1 DEF NoTwice
  <2> QED
    BY <2>2
<1> HIDE DEF path
<1>5. CASE done.ended
  <2>1. new = done
    BY <1>5 DEF TakesFile
  <2> QED
    BY <1>3, <1>5, <2>1 DEF Collects, path
<1>6. CASE ~done.ended /\ Len(done.collected) >= limit
  <2>1. PICK next : next = [done EXCEPT !.skipped = @ \cup {path}, !.ended = TRUE]
    OBVIOUS
  <2>2. new = next
    BY <1>6, <2>1 DEF TakesFile
  <2>3. next.collected = done.collected /\ next.skipped = done.skipped \cup {path} /\ next.ended
    BY <2>1 DEF DoneStates
  <2>4. Len(done.collected) = limit
    BY <1>2, <1>6 DEF Collects
  <2> QED
    BY <1>3, <2>2, <2>3, <2>4 DEF Collects, path
<1>7. CASE ~done.ended /\ ~(Len(done.collected) >= limit) /\ path \in unreadable
  <2>1. PICK next : next = [done EXCEPT !.skipped = @ \cup {path}]
    OBVIOUS
  <2>2. new = next
    BY <1>7, <2>1 DEF TakesFile
  <2>3. /\ next.collected = done.collected /\ next.skipped = done.skipped \cup {path}
        /\ ~next.ended
    BY <1>7, <2>1 DEF DoneStates
  <2> QED
    BY <1>3, <1>7, <2>2, <2>3 DEF Collects, path
<1>8. CASE ~done.ended /\ ~(Len(done.collected) >= limit) /\ path \notin unreadable
  <2>1. PICK next : next = [done EXCEPT !.collected = Append(@, path)]
    OBVIOUS
  <2>2. new = next
    BY <1>8, <2>1 DEF TakesFile
  <2>3. /\ next.collected = Append(done.collected, path) /\ next.skipped = done.skipped
        /\ ~next.ended
    BY <1>8, <2>1 DEF DoneStates
  <2>4. Range(next.collected) = Range(done.collected) \cup {path}
        /\ Len(next.collected) = Len(done.collected) + 1
    BY <1>1, <1>2, <2>3, RangeAppend
  <2>5. path \notin Range(done.collected) /\ IsFiniteSet(Range(done.collected))
    BY <1>4 DEF Collects
  <2>6. IsFiniteSet(Range(next.collected))
        /\ Cardinality(Range(next.collected)) = Cardinality(Range(done.collected)) + 1
    BY <2>4, <2>5, FS_AddElement
  <2>7. Len(next.collected) <= limit
    BY <1>2, <1>8, <2>4
  <2>8. Cardinality(Range(next.collected)) = Len(next.collected)
    BY <2>4, <2>6 DEF Collects
  <2> QED
    BY <1>3, <1>8, <2>2, <2>3, <2>4, <2>6, <2>7, <2>8 DEF Collects, path
<1> QED
  BY <1>5, <1>6, <1>7, <1>8

\* However many patterns there are, and whatever is printed of them: the collection is within its
\* limit and answers for what it leaves out.
LEMMA ArtifactsForAll ==
  ASSUME NEW V, NoMatch \in V, NEW patterns \in Seq(Patterns(V)), NEW output \in Seq(Lines(V)),
         NEW unreadable, NEW limit \in Nat
  PROVE  ArtifactsAccounted(patterns, output, unreadable, limit)
<1>1. PICK found : found = Expand(patterns, output)
  OBVIOUS
<1>2. PICK matches \in Seq(V), skipped \in SUBSET V :
        matches = found.matches /\ skipped = found.skipped
  BY <1>1, ExpandFound DEF FoundStates
<1>3. PICK begin : begin = [collected |-> <<>>, skipped |-> skipped, ended |-> FALSE]
  OBVIOUS
<1>4. PICK result : result = Collect(patterns, output, unreadable, limit)
  OBVIOUS
<1>5. result = FilesTaken(begin, matches, unreadable, limit)
  BY <1>1, <1>2, <1>3, <1>4 DEF Collect, FilesTaken
<1>6. PICK n \in Nat : n = Len(matches) /\ \A i \in 1 .. n : matches[i] \in V
  OBVIOUS
<1>7. PICK h : TakesEach(h, begin, matches, unreadable, limit)
  <2>1. begin \in DoneStates(V)
    BY <1>3 DEF DoneStates
  <2> QED
    BY <2>1, FileSteps
<1>8. NoTwice(matches)
  BY <1>1, <1>2, ExpandFound
<1> DEFINE Right(k) == h[k] \in DoneStates(V)
                       /\ Collects(h[k], matches, skipped, unreadable, limit, k)
           Reached == {k \in Nat : k <= n => Right(k)}
<1>9. Right(0)
  <2>1. begin \in DoneStates(V) /\ begin.collected = <<>> /\ begin.skipped = skipped /\ ~begin.ended
    BY <1>3 DEF DoneStates
  <2>2. SeenOf(matches, 0) = {} /\ Range(begin.collected) = {} /\ Len(begin.collected) = 0
    BY <2>1 DEF SeenOf, Range
  <2>3. Collects(begin, matches, skipped, unreadable, limit, 0)
    <3>1. IsFiniteSet({}) /\ Cardinality({}) = 0 /\ 0 <= limit
      BY FS_EmptySet
    <3> QED
      BY <2>1, <2>2, <3>1 DEF Collects
  <2>4. h[0] = begin
    BY <1>7 DEF TakesEach
  <2> QED
    BY <2>1, <2>3, <2>4
<1>10. ASSUME NEW k \in Nat, k + 1 <= n, Right(k) PROVE Right(k + 1)
  <2>1. k + 1 \in 1 .. n /\ (k + 1) - 1 = k
    BY <1>6, <1>10
  <2>2. h[k + 1] = TakesFile(h[k], matches[k + 1], unreadable, limit) /\ matches[k + 1] \in V
    BY <1>6, <1>7, <2>1 DEF TakesEach
  <2>3. h[k + 1] \in DoneStates(V)
    BY <1>10, <2>2, FileType
  <2>4. Collects(h[k + 1], matches, skipped, unreadable, limit, k + 1)
    BY <1>6, <1>8, <1>10, <2>2, FileCollects
  <2> QED
    BY <2>3, <2>4
<1> HIDE DEF Right
<1>11. 0 \in Reached /\ \A k \in Nat : k \in Reached => k + 1 \in Reached
  BY <1>6, <1>9, <1>10
<1>12. n \in Reached
  <2> HIDE DEF Reached
  <2> QED
    BY <1>6, <1>11, Inductive
<1>13. Collects(result, matches, skipped, unreadable, limit, n)
  BY <1>5, <1>6, <1>7, <1>12 DEF Right, TakesEach
<1>14. SeenOf(matches, n) = Range(matches)
  BY <1>6 DEF SeenOf, Range
<1> DEFINE got == {result.collected[i] : i \in DOMAIN result.collected}
           printed == {output[i] : i \in DOMAIN output}
           inside == {line.path : line \in {l \in printed : l.inside}}
<1>15. got = Range(result.collected)
  BY DEF Range
<1>16. DOMAIN output = 1 .. Len(output) /\ printed = Range(output)
  BY DEF Range
<1>17. inside = InsideOfFirst(output, Len(output))
  BY <1>16 DEF InsideOfFirst, InsideOf
<1>18. {line.path : line \in printed} \ inside \subseteq OutsideOfFirst(output, Len(output))
  BY <1>16 DEF OutsideOfFirst, OutsideOf
<1> HIDE DEF got, printed, inside
<1>19. Range(matches) = inside
       /\ OutsideOfFirst(output, Len(output)) \cup Refused(patterns) \subseteq skipped
  BY <1>1, <1>2, <1>17, ExpandFound
<1>20. /\ Len(result.collected) <= limit
       /\ Cardinality(got) = Len(result.collected)
       /\ got \subseteq inside \ unreadable
       /\ result.ended => Len(result.collected) = limit /\ result.skipped \cap inside # {}
       /\ ~result.ended => inside \subseteq got \cup result.skipped
  BY <1>13, <1>14, <1>15, <1>19 DEF Collects
<1>21. ({line.path : line \in printed} \ inside) \cup Refused(patterns) \subseteq result.skipped
  BY <1>13, <1>18, <1>19 DEF Collects
<1>22. Silenced(found, patterns, output)
  BY <1>1, ExpandFound
<1>23. ASSUME patterns # <<>>, Refused(patterns) = {}, output = <<>>
       PROVE  result.skipped = {NoMatch}
  <2>1. found.matches = <<>> /\ found.skipped = {NoMatch}
    BY <1>22, <1>23 DEF Silenced
  <2>2. matches = <<>> /\ skipped = {NoMatch}
    BY <1>2, <2>1
  <2>3. n = 0 /\ h[n] = begin
    BY <1>6, <1>7, <2>2 DEF TakesEach
  <2> QED
    BY <1>3, <1>5, <1>6, <1>7, <2>2, <2>3 DEF TakesEach
<1> QED
  BY <1>4, <1>20, <1>21, <1>23, Zenon DEF ArtifactsAccounted, got, printed, inside

\* One collection, with any patterns and any output of the shell, whole or cut, accounts for
\* everything that was printed.
THEOREM ArtifactsAlways ==
  ASSUME NEW V, NoMatch \in V,
         Of("patterns") => /\ input.value.patterns \in Seq(Patterns(V))
                           /\ input.value.output \in Seq(Lines(V))
                           /\ input.value.limit \in Nat
  PROVE  ArtifactsAreAccounted
  BY ArtifactsForAll DEF ArtifactsAreAccounted
-----------------------------------------------------------------------------
(* The comparison. *)

\* A relation that orders a set: of two different elements one comes first.
Orders(R, S) ==
  /\ \A x, y \in S : x # y => <<x, y>> \in R \/ <<y, x>> \in R
  /\ \A x, y, z \in S : <<x, y>> \in R /\ <<y, z>> \in R => <<x, z>> \in R
  /\ \A x \in S : <<x, x>> \notin R

\* A finite set that is ordered has a first element.
LEMMA FirstOf ==
  ASSUME NEW R, NEW S, IsFiniteSet(S), Orders(R, S), S # {}
  PROVE  \E m \in S : \A x \in S : x # m => <<m, x>> \in R
<1> DEFINE ComesFirst(T) == \E m \in T : \A x \in T : x # m => <<m, x>> \in R
           Reached == {k \in Nat : \A T \in SUBSET S :
                         Cardinality(T) = k /\ T # {} => ComesFirst(T)}
<1>1. \A T \in SUBSET S : IsFiniteSet(T) /\ Cardinality(T) \in Nat
  BY FS_Subset, FS_CardinalityType
<1>2. 0 \in Reached
  BY <1>1, FS_EmptySet
<1>3. ASSUME NEW k \in Nat, k \in Reached PROVE k + 1 \in Reached
  <2> SUFFICES ASSUME NEW T \in SUBSET S, Cardinality(T) = k + 1, T # {} PROVE ComesFirst(T)
    OBVIOUS
  <2>1. PICK t \in T : TRUE
    OBVIOUS
  <2>2. PICK U : U = T \ {t}
    OBVIOUS
  <2>3. U \in SUBSET S /\ Cardinality(U) = k
    <3>1. IsFiniteSet(T) /\ Cardinality(T \ {t}) = Cardinality(T) - 1
      BY <1>1, <2>1, FS_RemoveElement
    <3> QED
      BY <2>2, <3>1
  <2>4. CASE U = {}
    BY <2>1, <2>2, <2>4
  <2>5. CASE U # {}
    <3>1. PICK m \in U : \A x \in U : x # m => <<m, x>> \in R
      BY <1>3, <2>3, <2>5
    <3>2. CASE <<m, t>> \in R
      BY <2>2, <3>1, <3>2
    <3>3. CASE <<t, m>> \in R
      <4>1. ASSUME NEW x \in T, x # t PROVE <<t, x>> \in R
        <5>1. x \in U /\ x \in S /\ m \in S /\ t \in S
          BY <2>1, <2>2, <2>3, <3>1, <4>1
        <5> QED
          BY <3>1, <3>3, <5>1 DEF Orders
      <4> QED
        BY <2>1, <4>1
    <3> QED
      BY <2>1, <2>2, <2>3, <3>1, <3>2, <3>3 DEF Orders
  <2> QED
    BY <2>4, <2>5
<1>4. Cardinality(S) \in Reached
  <2> HIDE DEF Reached
  <2> QED
    BY <1>1, <1>2, <1>3, Inductive
<1> QED
  BY <1>4

\* What a comparison has of an experiment. The code counts tests up to Many.
Figures(V) ==
  [id : V, testsFailed : 0 .. Many - 1 \cup {Unknown}, exit : Int, failedCommands : Nat,
   filesChanged : Nat \cup {Unknown}]

\* The key that sorted() compares is four numbers.
LEMMA RankType ==
  ASSUME NEW V, NEW e \in Figures(V)
  PROVE  Rank(e) \in Int \X Int \X Int \X Int
  BY DEF Rank, Figures, OrIfUnknown, Unknown, Many

\* Four numbers against four others, from the left.
Less(a1, a2, a3, a4, b1, b2, b3, b4) ==
  \/ a1 < b1
  \/ a1 = b1 /\ a2 < b2
  \/ a1 = b1 /\ a2 = b2 /\ a3 < b3
  \/ a1 = b1 /\ a2 = b2 /\ a3 = b3 /\ a4 < b4

\* It is compared from the left.
LEMMA BeforeLess ==
  ASSUME NEW a, NEW b
  PROVE  Before(a, b) <=> Less(Rank(a)[1], Rank(a)[2], Rank(a)[3], Rank(a)[4],
                               Rank(b)[1], Rank(b)[2], Rank(b)[3], Rank(b)[4])
<1>1. /\ 1 .. 1 - 1 = {} /\ 1 .. 2 - 1 = {1} /\ 1 .. 3 - 1 = {1, 2} /\ 1 .. 4 - 1 = {1, 2, 3}
      /\ 1 .. 4 = {1, 2, 3, 4}
  OBVIOUS
<1> QED
  BY <1>1 DEF Before, Less

\* Between equals the index decides.
Earlier(a1, a2, a3, a4, i, b1, b2, b3, b4, j) ==
  \/ Less(a1, a2, a3, a4, b1, b2, b3, b4)
  \/ ~Less(b1, b2, b3, b4, a1, a2, a3, a4) /\ i < j

\* Of two places exactly one is earlier,
LEMMA EarlierOne ==
  ASSUME NEW a1 \in Int, NEW a2 \in Int, NEW a3 \in Int, NEW a4 \in Int, NEW i \in Nat,
         NEW b1 \in Int, NEW b2 \in Int, NEW b3 \in Int, NEW b4 \in Int, NEW j \in Nat
  PROVE  /\ ~Earlier(a1, a2, a3, a4, i, a1, a2, a3, a4, i)
         /\ i # j => \/ Earlier(a1, a2, a3, a4, i, b1, b2, b3, b4, j)
                     \/ Earlier(b1, b2, b3, b4, j, a1, a2, a3, a4, i)
  BY DEF Earlier, Less

\* and what is earlier than an earlier one is earlier.
LEMMA EarlierTransitive ==
  ASSUME NEW a1 \in Int, NEW a2 \in Int, NEW a3 \in Int, NEW a4 \in Int, NEW i \in Nat,
         NEW b1 \in Int, NEW b2 \in Int, NEW b3 \in Int, NEW b4 \in Int, NEW j \in Nat,
         NEW c1 \in Int, NEW c2 \in Int, NEW c3 \in Int, NEW c4 \in Int, NEW k \in Nat,
         Earlier(a1, a2, a3, a4, i, b1, b2, b3, b4, j),
         Earlier(b1, b2, b3, b4, j, c1, c2, c3, c4, k)
  PROVE  Earlier(a1, a2, a3, a4, i, c1, c2, c3, c4, k)
  BY DEF Earlier, Less

\* sorted(): the pairs of indices the first of which comes first.
Ahead(entries, scored) ==
  {pair \in scored \X scored :
     \/ Before(entries[pair[1]], entries[pair[2]])
     \/ ~Before(entries[pair[2]], entries[pair[1]]) /\ pair[1] < pair[2]}

\* So the places are ordered.
LEMMA AheadOrders ==
  ASSUME NEW V, NEW entries \in Seq(Figures(V)), NEW scored \in SUBSET DOMAIN entries
  PROVE  Orders(Ahead(entries, scored), scored)
<1> DEFINE r(i) == Rank(entries[i])
           R == Ahead(entries, scored)
<1>1. \A i \in scored : i \in Nat /\ entries[i] \in Figures(V)
  OBVIOUS
<1>2. \A i \in scored : r(i)[1] \in Int /\ r(i)[2] \in Int /\ r(i)[3] \in Int /\ r(i)[4] \in Int
  BY <1>1, RankType
<1>3. \A i, j \in scored : <<i, j>> \in R <=>
        Earlier(r(i)[1], r(i)[2], r(i)[3], r(i)[4], i, r(j)[1], r(j)[2], r(j)[3], r(j)[4], j)
  <2>1. \A i, j \in scored : <<i, j>> \in R <=>
          \/ Before(entries[i], entries[j])
          \/ ~Before(entries[j], entries[i]) /\ i < j
    BY DEF Ahead
  <2> QED
    BY <2>1, BeforeLess DEF Earlier
<1> HIDE DEF r, R
<1>4. ASSUME NEW i \in scored PROVE <<i, i>> \notin R
  <2>1. PICK a1 \in Int, a2 \in Int, a3 \in Int, a4 \in Int :
          a1 = r(i)[1] /\ a2 = r(i)[2] /\ a3 = r(i)[3] /\ a4 = r(i)[4]
    BY <1>2
  <2>2. ~Earlier(a1, a2, a3, a4, i, a1, a2, a3, a4, i)
    BY <1>1, EarlierOne
  <2> QED
    BY <1>3, <2>1, <2>2
<1>5. ASSUME NEW i \in scored, NEW j \in scored, i # j PROVE <<i, j>> \in R \/ <<j, i>> \in R
  <2>1. PICK a1 \in Int, a2 \in Int, a3 \in Int, a4 \in Int :
          a1 = r(i)[1] /\ a2 = r(i)[2] /\ a3 = r(i)[3] /\ a4 = r(i)[4]
    BY <1>2
  <2>2. PICK b1 \in Int, b2 \in Int, b3 \in Int, b4 \in Int :
          b1 = r(j)[1] /\ b2 = r(j)[2] /\ b3 = r(j)[3] /\ b4 = r(j)[4]
    BY <1>2
  <2>3. \/ Earlier(a1, a2, a3, a4, i, b1, b2, b3, b4, j)
        \/ Earlier(b1, b2, b3, b4, j, a1, a2, a3, a4, i)
    BY <1>1, <1>5, EarlierOne
  <2> QED
    BY <1>3, <2>1, <2>2, <2>3
<1>6. ASSUME NEW i \in scored, NEW j \in scored, NEW k \in scored,
             <<i, j>> \in R, <<j, k>> \in R
      PROVE  <<i, k>> \in R
  <2>1. PICK a1 \in Int, a2 \in Int, a3 \in Int, a4 \in Int :
          a1 = r(i)[1] /\ a2 = r(i)[2] /\ a3 = r(i)[3] /\ a4 = r(i)[4]
    BY <1>2
  <2>2. PICK b1 \in Int, b2 \in Int, b3 \in Int, b4 \in Int :
          b1 = r(j)[1] /\ b2 = r(j)[2] /\ b3 = r(j)[3] /\ b4 = r(j)[4]
    BY <1>2
  <2>3. PICK c1 \in Int, c2 \in Int, c3 \in Int, c4 \in Int :
          c1 = r(k)[1] /\ c2 = r(k)[2] /\ c3 = r(k)[3] /\ c4 = r(k)[4]
    BY <1>2
  <2>4. /\ Earlier(a1, a2, a3, a4, i, b1, b2, b3, b4, j)
        /\ Earlier(b1, b2, b3, b4, j, c1, c2, c3, c4, k)
    BY <1>3, <1>6, <2>1, <2>2, <2>3
  <2>5. Earlier(a1, a2, a3, a4, i, c1, c2, c3, c4, k)
    BY <1>1, <2>4, EarlierTransitive
  <2> QED
    BY <1>3, <2>1, <2>3, <2>5
<1> QED
  BY <1>4, <1>5, <1>6 DEF Orders, R

\* The sorted list starts with two experiments that were compared; nobody goes before the first.
LEMMA SortedStarts ==
  ASSUME NEW V, NEW entries \in Seq(Figures(V)), NEW scored \in SUBSET DOMAIN entries,
         IsFiniteSet(scored), Cardinality(scored) >= 2
  PROVE  \E b, c \in scored :
           /\ b # c /\ Sorted(entries, scored)[1] = entries[b]
           /\ Sorted(entries, scored)[2] = entries[c]
           /\ \A x \in scored : x # b => ~Before(entries[x], entries[b])
<1> DEFINE R == Ahead(entries, scored)
           above(i) == {j \in scored : \/ Before(entries[j], entries[i])
                                       \/ ~Before(entries[i], entries[j]) /\ j < i}
<1>1. Orders(R, scored)
  BY AheadOrders
<1>2. \A i, j \in scored : j \in above(i) <=> <<j, i>> \in R
  BY DEF Ahead
<1>3. \A i \in scored : above(i) \subseteq scored
  OBVIOUS
<1>4. Cardinality(scored) \in Nat /\ 1 \in 1 .. Cardinality(scored) /\ 2 \in 1 .. Cardinality(scored)
  BY FS_CardinalityType
<1>5. /\ Sorted(entries, scored)[1]
           = entries[CHOOSE i \in scored : Cardinality(above(i)) = 1 - 1]
      /\ Sorted(entries, scored)[2]
           = entries[CHOOSE i \in scored : Cardinality(above(i)) = 2 - 1]
  BY <1>4 DEF Sorted
<1>6. \A j, b \in scored : <<b, j>> \in R /\ j # b => ~Before(entries[j], entries[b])
  <2>1. ASSUME NEW j \in scored, NEW b \in scored, Before(entries[j], entries[b])
        PROVE  <<j, b>> \in R
    BY <2>1 DEF Ahead
  <2> HIDE DEF R
  <2> QED
    BY <1>1, <2>1 DEF Orders
<1> HIDE DEF R, above
<1>7. PICK m \in scored : \A x \in scored : x # m => <<m, x>> \in R
  BY <1>1, <1>4, FirstOf, FS_EmptySet
<1>8. above(m) = {}
  BY <1>1, <1>2, <1>3, <1>7 DEF Orders
<1>9. PICK rest : rest = scored \ {m}
  OBVIOUS
<1>10. rest \in SUBSET scored /\ IsFiniteSet(rest) /\ rest # {} /\ Orders(R, rest)
  <2>1. IsFiniteSet(scored \ {m}) /\ Cardinality(scored \ {m}) = Cardinality(scored) - 1
    BY FS_RemoveElement
  <2>2. Cardinality(rest) # 0
    BY <1>4, <1>9, <2>1
  <2>3. Orders(R, rest)
    BY <1>1, <1>9 DEF Orders
  <2> QED
    BY <1>9, <2>1, <2>2, <2>3, FS_EmptySet
<1>11. PICK n \in rest : \A x \in rest : x # n => <<n, x>> \in R
  BY <1>10, FirstOf
<1>12. above(n) = {m}
  <2>1. \A x \in scored : <<x, n>> \in R <=> x = m
    BY <1>1, <1>7, <1>9, <1>10, <1>11 DEF Orders
  <2> QED
    BY <1>2, <1>3, <1>9, <1>10, <2>1
<1>13. Cardinality(above(m)) = 1 - 1 /\ Cardinality(above(n)) = 2 - 1
  <2>1. Cardinality({}) = 0 /\ Cardinality({m}) = 1
    BY FS_EmptySet, FS_Singleton
  <2>2. Cardinality(above(m)) = 0 /\ Cardinality(above(n)) = 1
    BY <1>8, <1>12, <2>1
  <2> QED
    BY <2>2
<1>14. PICK b \in scored : b = (CHOOSE i \in scored : Cardinality(above(i)) = 1 - 1)
                          /\ Cardinality(above(b)) = 1 - 1
  BY <1>13
<1>15. PICK c \in scored : c = (CHOOSE i \in scored : Cardinality(above(i)) = 2 - 1)
                          /\ Cardinality(above(c)) = 2 - 1
  BY <1>10, <1>13
<1>16. b # c
  BY <1>14, <1>15
<1>17. above(b) = {}
  <2>1. IsFiniteSet(above(b))
    BY <1>3, <1>14, FS_Subset
  <2>2. Cardinality(above(b)) = 0
    BY <1>14
  <2> QED
    BY <2>1, <2>2, FS_EmptySet
<1>18. \A x \in scored : x # b => <<b, x>> \in R
  BY <1>1, <1>2, <1>17 DEF Orders
<1> QED
  BY <1>5, <1>6, <1>14, <1>15, <1>16, <1>18

\* Whoever does not come before the winner has no better figures.
LEMMA NotBetter ==
  ASSUME NEW V, NEW best \in Figures(V), NEW e \in Figures(V), ~Before(e, best),
         e.testsFailed # Unknown
  PROVE  /\ best.testsFailed # Unknown /\ best.testsFailed <= e.testsFailed
         /\ e.testsFailed = best.testsFailed /\ e.exit = 0 => best.exit = 0
<1>1. PICK a1 \in Int, a2 \in Int, a3 \in Int, a4 \in Int :
        a1 = Rank(e)[1] /\ a2 = Rank(e)[2] /\ a3 = Rank(e)[3] /\ a4 = Rank(e)[4]
  BY RankType
<1>2. PICK b1 \in Int, b2 \in Int, b3 \in Int, b4 \in Int :
        b1 = Rank(best)[1] /\ b2 = Rank(best)[2] /\ b3 = Rank(best)[3] /\ b4 = Rank(best)[4]
  BY RankType
<1>3. ~Less(a1, a2, a3, a4, b1, b2, b3, b4)
  BY <1>1, <1>2, BeforeLess
<1>4. b1 <= a1 /\ (a1 = b1 => b2 <= a2)
  BY <1>3 DEF Less
<1>5. /\ e.testsFailed \in 0 .. Many - 1 /\ best.testsFailed \in 0 .. Many - 1 \cup {Unknown}
  BY DEF Figures
<1>6. a1 = e.testsFailed /\ b1 = OrIfUnknown(best.testsFailed, Many)
      /\ a2 = (IF e.exit = 0 THEN 0 ELSE 1) /\ b2 = IF best.exit = 0 THEN 0 ELSE 1
  BY <1>1, <1>2 DEF Rank, OrIfUnknown
<1>7. best.testsFailed # Unknown /\ b1 = best.testsFailed /\ b1 <= a1
  <2>1. a1 \in 0 .. Many - 1 /\ Many \in Nat
    BY <1>5, <1>6 DEF Many
  <2>2. best.testsFailed # Unknown
    <3>1. SUFFICES ASSUME best.testsFailed = Unknown PROVE FALSE
      OBVIOUS
    <3>2. b1 = Many
      BY <1>6, <3>1 DEF OrIfUnknown
    <3> QED
      BY <1>4, <2>1, <3>2
  <2>3. b1 = best.testsFailed
    BY <1>6, <2>2 DEF OrIfUnknown
  <2> QED
    BY <1>4, <2>2, <2>3
<1> QED
  BY <1>4, <1>6, <1>7

\* The recommendation, for comparisons of any length: one and the same figures for one and
\* the same experiment.
LEMMA WinnerForAll ==
  ASSUME NEW V, NEW entries \in Seq(Figures(V)),
         \A i, j \in DOMAIN entries : entries[i].id = entries[j].id => entries[i] = entries[j]
  PROVE  WinnerIsBest(entries)
<1> DEFINE scored == {i \in DOMAIN entries : Scored(entries[i])}
           all == {entries[i] : i \in DOMAIN entries}
           answer == Recommend(entries)
           others == {e \in all : e.id # answer.winner /\ Scored(e)}
<1> SUFFICES ASSUME answer.winner # Unknown
             PROVE  \E best \in all :
                /\ best.id = answer.winner
                /\ Scored(best)
                /\ \A e \in others : e.testsFailed # Unknown =>
                     /\ best.testsFailed # Unknown /\ best.testsFailed <= e.testsFailed
                     /\ e.testsFailed = best.testsFailed /\ e.exit = 0 => best.exit = 0
                /\ others # {}
                /\ "exit" \in answer.reasons => best.exit = 0 /\ \E e \in others : e.exit # 0
                /\ "tests" \in answer.reasons =>
                     \/ \E e \in others : e.testsFailed = Unknown \/ e.testsFailed > best.testsFailed
                     \/ best.testsFailed = 0 /\ \E e \in others : e.testsFailed = 0
  BY Zenon DEF WinnerIsBest
<1>1. IsFiniteSet(scored) /\ scored \in SUBSET DOMAIN entries /\ Cardinality(scored) \in Nat
  <2>1. IsFiniteSet(1 .. Len(entries)) /\ DOMAIN entries = 1 .. Len(entries)
    BY FS_Interval
  <2>2. scored \subseteq 1 .. Len(entries)
    BY <2>1
  <2> QED
    BY <2>1, <2>2, FS_Subset, FS_CardinalityType
<1>2. PICK first, second : first = Sorted(entries, scored)[1] /\ second = Sorted(entries, scored)[2]
  OBVIOUS
<1>3. answer = IF Cardinality(scored) < 2 \/ Rank(first) = Rank(second)
               THEN [winner |-> Unknown, reasons |-> {}]
               ELSE [winner |-> first.id, reasons |-> Reasons(first, second)]
  BY <1>2 DEF Recommend
<1> HIDE DEF answer
<1>4. ~(Cardinality(scored) < 2) /\ Rank(first) # Rank(second)
  BY <1>3
<1>5. answer.winner = first.id /\ answer.reasons = Reasons(first, second)
  BY <1>3, <1>4
<1>6. PICK b \in scored, c \in scored :
        /\ first = entries[b] /\ second = entries[c]
        /\ \A x \in scored : x # b => ~Before(entries[x], entries[b])
  <2> HIDE DEF scored
  <2>1. Cardinality(scored) >= 2
    BY <1>1, <1>4
  <2> QED
    BY <1>1, <1>2, <2>1, SortedStarts
<1>7. first \in all /\ first \in Figures(V) /\ Scored(first)
  BY <1>6
<1>8. ASSUME NEW e \in others PROVE e \in Figures(V) /\ ~Before(e, first)
  <2>1. PICK k \in scored : e = entries[k]
    BY <1>8
  <2>2. k # b
    BY <1>5, <1>6, <1>8, <2>1
  <2> QED
    BY <1>6, <2>1, <2>2
<1>9. second \in others
  <2>1. second.id # first.id
    BY <1>4, <1>6
  <2> QED
    BY <1>5, <1>6, <2>1
<1>10. \A e \in others : e.testsFailed # Unknown =>
          /\ first.testsFailed # Unknown /\ first.testsFailed <= e.testsFailed
          /\ e.testsFailed = first.testsFailed /\ e.exit = 0 => first.exit = 0
  BY <1>7, <1>8, NotBetter
<1> HIDE DEF others
<1>11. "exit" \in answer.reasons => first.exit = 0 /\ second.exit # 0
  BY <1>5 DEF Reasons
<1>12. ASSUME "tests" \in answer.reasons
       PROVE  \/ second.testsFailed = Unknown \/ second.testsFailed > first.testsFailed
              \/ first.testsFailed = 0 /\ second.testsFailed = 0
  <2>1. first.testsFailed # Unknown
        /\ first.testsFailed < IF second.testsFailed \in {Unknown, 0}
                               THEN Many ELSE second.testsFailed
    BY <1>5, <1>12 DEF Reasons
  <2>2. first.testsFailed \in 0 .. Many - 1
    BY <1>7, <2>1 DEF Figures
  <2>3. CASE second.testsFailed = 0
    <3>1. first.testsFailed <= 0
      BY <1>9, <1>10, <2>3 DEF Unknown
    <3>2. 0 .. Many - 1 \subseteq Nat
      BY DEF Many
    <3>3. PICK n \in Nat : n = first.testsFailed
      BY <2>2, <3>2
    <3>4. n = 0
      BY <3>1, <3>3
    <3> QED
      BY <2>3, <3>3, <3>4
  <2>4. CASE second.testsFailed # 0 /\ second.testsFailed # Unknown
    <3>1. first.testsFailed < second.testsFailed
      BY <2>1, <2>4
    <3>2. second.testsFailed \in Int
      BY <1>8, <1>9, <2>4 DEF Figures, Unknown
    <3> QED
      BY <2>2, <3>1, <3>2
  <2> QED
    BY <2>3, <2>4
<1> HIDE DEF all
<1> QED
  BY <1>5, <1>7, <1>9, <1>10, <1>11, <1>12

\* The rows of an experiment: any jobs in any order.
JobRows ==
  [kind : STRING, status : STRING, exit : Int, testsFailed : 0 .. Many - 1 \cup {Unknown}]

ExperimentRows(V) ==
  [id : V, jobs : Seq(JobRows), stored : Nat \cup {Unknown}, inspected : Nat \cup {Unknown},
   destroyed : BOOLEAN]

\* What a comparison has of an experiment are its figures.
LEMMA ComparedType ==
  ASSUME NEW V, NEW e \in ExperimentRows(V)
  PROVE  Compared(e) \in Figures(V)
<1>1. PICK jobs \in Seq(JobRows) : jobs = e.jobs
  BY DEF ExperimentRows
<1>2. TestsFailed(jobs) \in 0 .. Many - 1 \cup {Unknown}
  <2> DEFINE tests == {i \in 1 .. Len(jobs) : jobs[i].kind = "test"}
  <2>1. TestsFailed(jobs)
          = IF (IF tests # {} THEN Max(tests) ELSE 0) = 0 THEN Unknown
            ELSE jobs[IF tests # {} THEN Max(tests) ELSE 0].testsFailed
    BY DEF TestsFailed, SelectLastInSeq
  <2>2. CASE tests = {}
    BY <2>1, <2>2
  <2>3. CASE tests # {}
    <3>1. Max(tests) \in 1 .. Len(jobs)
      <4>1. tests \in SUBSET (1 .. Len(jobs)) /\ Len(jobs) \in Nat
        OBVIOUS
      <4> HIDE DEF tests
      <4> QED
        BY <2>3, <4>1, MaxOfSubset
    <3>2. jobs[Max(tests)] \in JobRows /\ Max(tests) # 0
      BY <3>1
    <3>3. TestsFailed(jobs) = jobs[Max(tests)].testsFailed
      BY <2>1, <2>3, <3>2
    <3> QED
      BY <3>2, <3>3 DEF JobRows
  <2> QED
    BY <2>2, <2>3
<1>3. LastExit(jobs) \in Int
  <2>1. jobs # <<>> => jobs[Len(jobs)] \in JobRows
    OBVIOUS
  <2> QED
    BY <2>1 DEF LastExit, JobRows, Unknown
<1>4. FailedCommands(jobs) \in Nat
  <2>1. IsFiniteSet(1 .. Len(jobs)) /\ DOMAIN jobs = 1 .. Len(jobs)
    BY FS_Interval
  <2>2. IsFiniteSet({i \in DOMAIN jobs : JobFailed(jobs[i])})
    BY <2>1, FS_Subset
  <2> QED
    BY <2>2, FS_CardinalityType DEF FailedCommands
<1>5. e.id \in V /\ e.stored \in Nat \cup {Unknown} /\ e.inspected \in Nat \cup {Unknown}
  BY DEF ExperimentRows
<1> QED
  BY <1>1, <1>2, <1>3, <1>4, <1>5 DEF Compared, Figures

\* The report and the comparison give the same figures of one experiment.
LEMMA ReportForAll ==
  ASSUME NEW e
  PROVE  ReportsAgree(e)
  BY DEF ReportsAgree, Reported, Compared

\* A comparison of any number of experiments, with any jobs and figures, recommends
\* nobody who does worse than another; and it says of each what its report says.
THEOREM ComparisonsAlways ==
  ASSUME NEW V,
         Of("experiments") =>
           /\ input.value \in Seq(ExperimentRows(V))
           /\ \A i, j \in DOMAIN input.value : input.value[i].id = input.value[j].id =>
                                               input.value[i] = input.value[j]
  PROVE  WinnersAreBest
<1> SUFFICES ASSUME Of("experiments") PROVE WinnersAreBest
  BY DEF WinnersAreBest
<1>1. PICK rows \in Seq(ExperimentRows(V)) :
        /\ rows = input.value
        /\ \A i, j \in DOMAIN rows : rows[i].id = rows[j].id => rows[i] = rows[j]
  OBVIOUS
<1>2. PICK entries : entries = [i \in DOMAIN rows |-> Compared(rows[i])]
  OBVIOUS
<1>3. entries \in Seq(Figures(V)) /\ DOMAIN entries = DOMAIN rows
  <2>1. \A i \in 1 .. Len(rows) : Compared(rows[i]) \in Figures(V)
    BY ComparedType
  <2> QED
    BY <1>2, <2>1
<1>4. \A i \in DOMAIN rows : entries[i].id = rows[i].id
  BY <1>2 DEF Compared
<1>5. WinnerIsBest(entries)
  <2>1. \A i, j \in DOMAIN entries : entries[i].id = entries[j].id => entries[i] = entries[j]
    <3> SUFFICES ASSUME NEW i \in DOMAIN rows, NEW j \in DOMAIN rows,
                        entries[i].id = entries[j].id
                 PROVE  entries[i] = entries[j]
      BY <1>3
    <3>1. rows[i] = rows[j]
      BY <1>1, <1>4
    <3> QED
      BY <1>2, <3>1
  <2> QED
    BY <1>3, <2>1, WinnerForAll
<1> QED
  BY <1>1, <1>2, <1>5, ReportForAll DEF WinnersAreBest
-----------------------------------------------------------------------------
(* The summaries of test runs. *)

\* The answers of the parsers, in their order, and the findings each of them looks at.
Answers(out) ==
  <<ParseTap(out), ParseJest(out), ParsePytest(out), ParseCargo(out), ParseGo(out), ParseMocha(out)>>

Looks ==
  <<{"tapPass", "tapFail", "tapSkip", "tapTotal"}, {"jest"}, {"pytestSummary", "pytestCounts"},
    {"cargo"}, {"goPass", "goFail"}, {"mochaPass", "mochaFail", "mochaPending"}>>

\* The first parser with an answer has the word.
LEMMA FirstAnswer ==
  ASSUME NEW out, NEW r \in 1 .. 6, \A j \in 1 .. r - 1 : Answers(out)[j] = {}
  PROVE  IF Answers(out)[r] # {} THEN ParseTestOutput(out) = Answers(out)[r]
         ELSE \/ ParseTestOutput(out) = {}
              \/ \E k \in r + 1 .. 6 : ParseTestOutput(out) = Answers(out)[k]
<1> DEFINE I == {j \in 1 .. 6 : Answers(out)[j] # {}}
           i == IF I # {} THEN Min(I) ELSE 0
<1>1. ParseTestOutput(out) = IF i = 0 THEN {} ELSE Answers(out)[i]
  <2>1. Len(Answers(out)) = 6
    BY DEF Answers
  <2> QED
    BY <2>1 DEF ParseTestOutput, SelectInSeq, Answers
<1>2. CASE I = {}
  BY <1>1, <1>2
<1>3. CASE I # {}
  <2>1. PICK m \in I : \A j \in I : m <= j
    <3>1. I \in SUBSET Nat
      OBVIOUS
    <3> HIDE DEF I
    <3> QED
      BY <1>3, <3>1, LeastNumber
  <2>2. Min(I) \in I /\ \A j \in I : Min(I) <= j
    BY <2>1 DEF Min
  <2>3. i \in I /\ \A j \in I : i <= j
    BY <1>3, <2>2
  <2> HIDE DEF i
  <2>4. i \in 1 .. 6 /\ Answers(out)[i] # {}
    BY <2>3
  <2>5. ParseTestOutput(out) = Answers(out)[i]
    BY <1>1, <2>4
  <2>6. i \in r .. 6
    BY <2>4
  <2>7. CASE Answers(out)[r] # {}
    <3>1. r \in I
      BY <2>7
    <3>2. i <= r
      BY <2>3, <3>1
    <3>3. i = r
      BY <2>6, <3>2
    <3> QED
      BY <2>5, <2>7, <3>3
  <2>8. CASE Answers(out)[r] = {}
    <3>1. i \in r + 1 .. 6
      BY <2>4, <2>6, <2>8
    <3> QED
      BY <2>5, <2>8, <3>1
  <2> QED
    BY <2>7, <2>8
<1> QED
  BY <1>2, <1>3

\* A parser looks only at its own findings, finds nothing where there is nothing, and signs
\* what it says.
LEMMA AnswersLook ==
  ASSUME NEW out, NEW other, NEW k \in 1 .. 6, \A f \in Looks[k] : out[f] = other[f]
  PROVE  Answers(out)[k] = Answers(other)[k]
<1>1. CASE k = 1
  <2>1. /\ out.tapPass = other.tapPass /\ out.tapFail = other.tapFail
        /\ out.tapSkip = other.tapSkip /\ out.tapTotal = other.tapTotal
    BY <1>1 DEF Looks
  <2>2. ParseTap(out) = ParseTap(other)
    BY <2>1 DEF ParseTap
  <2> QED
    BY <1>1, <2>2 DEF Answers
<1>2. CASE k = 2
  <2>1. out.jest = other.jest
    BY <1>2 DEF Looks
  <2>2. ParseJest(out) = ParseJest(other)
    BY <2>1 DEF ParseJest
  <2> QED
    BY <1>2, <2>2 DEF Answers
<1>3. CASE k = 3
  <2>1. out.pytestSummary = other.pytestSummary /\ out.pytestCounts = other.pytestCounts
    BY <1>3 DEF Looks
  <2>2. \A kind : LastCount(out, kind) = LastCount(other, kind)
    BY <2>1 DEF LastCount, SelectLastInSeq
  <2>3. ParsePytest(out) = ParsePytest(other)
    BY <2>1, <2>2 DEF ParsePytest
  <2> QED
    BY <1>3, <2>3 DEF Answers
<1>4. CASE k = 4
  <2>1. out.cargo = other.cargo
    BY <1>4 DEF Looks
  <2>2. ParseCargo(out) = ParseCargo(other)
    BY <2>1 DEF ParseCargo
  <2> QED
    BY <1>4, <2>2 DEF Answers
<1>5. CASE k = 5
  <2>1. out.goPass = other.goPass /\ out.goFail = other.goFail
    BY <1>5 DEF Looks
  <2>2. ParseGo(out) = ParseGo(other)
    BY <2>1 DEF ParseGo
  <2> QED
    BY <1>5, <2>2 DEF Answers
<1>6. CASE k = 6
  <2>1. /\ out.mochaPass = other.mochaPass /\ out.mochaFail = other.mochaFail
        /\ out.mochaPending = other.mochaPending
    BY <1>6 DEF Looks
  <2>2. ParseMocha(out) = ParseMocha(other)
    BY <2>1 DEF ParseMocha
  <2> QED
    BY <1>6, <2>2 DEF Answers
<1> QED
  BY <1>1, <1>2, <1>3, <1>4, <1>5, <1>6

\* No parser answers to an empty output.
LEMMA AnswersNone ==
  ASSUME NEW k \in 1 .. 6
  PROVE  Answers(NoOutput)[k] = {}
<1>1. /\ NoOutput.tapPass = <<>> /\ NoOutput.tapFail = <<>> /\ NoOutput.jest = <<>>
      /\ NoOutput.pytestSummary = FALSE /\ NoOutput.cargo = <<>> /\ NoOutput.goPass = 0
      /\ NoOutput.goFail = 0 /\ NoOutput.mochaPass = <<>> /\ NoOutput.mochaFail = <<>>
  BY DEF NoOutput
<1>2. ParseTap(NoOutput) = {}
  BY <1>1 DEF ParseTap
<1>3. ParseJest(NoOutput) = {}
  BY <1>1 DEF ParseJest
<1>4. ParsePytest(NoOutput) = {} /\ ParseCargo(NoOutput) = {} /\ ParseGo(NoOutput) = {}
  BY <1>1 DEF ParsePytest, ParseCargo, ParseGo
<1>5. ParseMocha(NoOutput) = {}
  BY <1>1 DEF ParseMocha
<1> QED
  BY <1>2, <1>3, <1>4, <1>5 DEF Answers

\* A parser signs its answers with its own name.
LEMMA AnswersSigned ==
  ASSUME NEW out, NEW k \in 1 .. 6, NEW a \in Answers(out)[k]
  PROVE  a.framework = Runners[k]
<1>1. \A t, p, f, s, name : Summary(name, t, p, f, s).framework = name
  BY DEF Summary
<1>2. \A b \in ParseTap(out) : b.framework = "node:test"
  BY <1>1 DEF ParseTap
<1>3. \A b \in ParseJest(out) : b.framework = "jest"
  BY <1>1 DEF ParseJest
<1>4. \A b \in ParsePytest(out) : b.framework = "pytest"
  BY <1>1 DEF ParsePytest
<1>5. \A b \in ParseCargo(out) : b.framework = "cargo"
  BY <1>1 DEF ParseCargo
<1>6. \A b \in ParseGo(out) : b.framework = "go"
  BY <1>1 DEF ParseGo
<1>7. \A b \in ParseMocha(out) : b.framework = "mocha"
  BY <1>1 DEF ParseMocha
<1> QED
  BY <1>2, <1>3, <1>4, <1>5, <1>6, <1>7 DEF Answers, Runners

\* A tool's words are those its own parser looks at, and what passes for counts of pytest.
Owns ==
  [k \in 1 .. 6 |-> Looks[k] \cup (IF k \in {2, 4} THEN {"pytestCounts"} ELSE {})]

\* They are what it says.
LEMMA WordsOwn ==
  ASSUME NEW k \in 1 .. 6, NEW run, NEW quiet
  PROVE  DOMAIN Words(Runners[k], run, quiet) = Owns[k]
<1>1. CASE k = 1
  BY <1>1 DEF Words, Runners, Looks, Owns
<1>2. CASE k = 2
  BY <1>2 DEF Words, Runners, Looks, Owns
<1>3. CASE k = 3
  BY <1>3 DEF Words, Runners, Looks, Owns
<1>4. CASE k = 4
  BY <1>4 DEF Words, Runners, Looks, Owns
<1>5. CASE k = 5
  BY <1>5 DEF Words, Runners, Looks, Owns
<1>6. CASE k = 6
  BY <1>6 DEF Words, Runners, Looks, Owns
<1> QED
  BY <1>1, <1>2, <1>3, <1>4, <1>5, <1>6

\* The parsers of other tools look at nothing of it, but for pytest's at the counts.
LEMMA OwnsApart ==
  ASSUME NEW j \in 1 .. 6, NEW k \in 1 .. 6, j # k, NEW f \in Looks[j]
  PROVE  /\ f \in DOMAIN NoOutput
         /\ f \in Owns[k] => j = 3 /\ k \in {2, 4} /\ f = "pytestCounts"
<1>1. CASE j = 1
  BY <1>1 DEF Looks, Owns, NoOutput
<1>2. CASE j = 2
  BY <1>2 DEF Looks, Owns, NoOutput
<1>3. CASE j = 3
  BY <1>3 DEF Looks, Owns, NoOutput
<1>4. CASE j = 4
  BY <1>4 DEF Looks, Owns, NoOutput
<1>5. CASE j = 5
  BY <1>5 DEF Looks, Owns, NoOutput
<1>6. CASE j = 6
  BY <1>6 DEF Looks, Owns, NoOutput
<1> QED
  BY <1>1, <1>2, <1>3, <1>4, <1>5, <1>6

\* What a tool prints in a place a parser looks at.
LEMMA PrintsOwn ==
  ASSUME NEW k \in 1 .. 6, NEW run, NEW quiet, NEW j \in 1 .. 6, NEW f \in Looks[j]
  PROVE  /\ f \in DOMAIN NoOutput
         /\ Prints(Runners[k], run, quiet)[f] = IF f \in Owns[k] THEN Words(Runners[k], run, quiet)[f]
                                                ELSE NoOutput[f]
<1>1. f \in DOMAIN NoOutput
  BY DEF Looks, NoOutput
<1>2. f \in DOMAIN Words(Runners[k], run, quiet) <=> f \in Owns[k]
  BY WordsOwn
<1> QED
  BY <1>1, <1>2 DEF Prints

\* Of a tool there are no words but its own.
Only(out, k) ==
  \A j \in 1 .. 6 : \A f \in Looks[j] :
    f \in DOMAIN NoOutput /\ (f \notin Owns[k] => out[f] = NoOutput[f])

\* So it is with what it prints.
LEMMA PrintsOnly ==
  ASSUME NEW k \in 1 .. 6, NEW run, NEW quiet
  PROVE  Only(Prints(Runners[k], run, quiet), k)
  BY PrintsOwn DEF Only

\* What a tool has counted.
IsRun(run) == run.passed \in Nat /\ run.failed \in Nat /\ run.errors \in Nat /\ run.skipped \in Nat

ErrorWord(run) == IF run.errors = 1 THEN "error" ELSE "errors"

\* The counts pytest's expression finds are a sequence.
PartKinds == {"passed", "failed", "skipped", "error", "errors"}

AreParts(counts) == counts \in Seq([kind : PartKinds, n : Nat])

LEMMA CountedParts ==
  ASSUME NEW kind \in PartKinds, NEW n \in Nat
  PROVE  AreParts(Counted(kind, n))
<1>1. PICK part \in [kind : PartKinds, n : Nat] : part = Part(kind, n)
  BY DEF Part
<1>2. AreParts(<<part>>) /\ AreParts(<<>>)
  BY DEF AreParts
<1> QED
  BY <1>1, <1>2 DEF Counted

LEMMA PartsJoin ==
  ASSUME NEW a, NEW b, AreParts(a), AreParts(b)
  PROVE  AreParts(a \o b)
  BY DEF AreParts

LEMMA PrintsParts ==
  ASSUME NEW k \in 1 .. 6, NEW run, IsRun(run), NEW quiet
  PROVE  AreParts(Prints(Runners[k], run, quiet)["pytestCounts"])
<1>1. /\ run.passed \in Nat /\ run.failed \in Nat /\ run.errors \in Nat /\ run.skipped \in Nat
  BY DEF IsRun
<1>2. "pytestCounts" \in Looks[3] /\ NoOutput["pytestCounts"] = <<>> /\ AreParts(<<>>)
  BY DEF Looks, NoOutput, AreParts
<1>3. PICK words : words = Words(Runners[k], run, quiet)["pytestCounts"]
  OBVIOUS
<1>4. "pytestCounts" \in Owns[k] => AreParts(words)
  <2>1. CASE k = 2
    <3>1. words = (Counted("failed", run.failed) \o Counted("skipped", run.skipped))
                    \o Counted("passed", run.passed)
      BY <1>3, <2>1 DEF Words, Runners
    <3>2. /\ AreParts(Counted("failed", run.failed)) /\ AreParts(Counted("skipped", run.skipped))
          /\ AreParts(Counted("passed", run.passed))
      BY <1>1, CountedParts DEF PartKinds
    <3>3. AreParts(Counted("failed", run.failed) \o Counted("skipped", run.skipped))
      BY <3>2, PartsJoin
    <3> QED
      BY <3>1, <3>2, <3>3, PartsJoin
  <2>2. CASE k = 3
    <3>1. words = ((Counted("failed", run.failed) \o Counted("passed", run.passed))
                     \o Counted("skipped", run.skipped)) \o Counted(ErrorWord(run), run.errors)
      BY <1>3, <2>2 DEF Words, Runners, ErrorWord
    <3>2. ErrorWord(run) \in PartKinds
      BY DEF ErrorWord, PartKinds
    <3>3. /\ AreParts(Counted("failed", run.failed)) /\ AreParts(Counted("passed", run.passed))
          /\ AreParts(Counted("skipped", run.skipped)) /\ AreParts(Counted(ErrorWord(run), run.errors))
      BY <1>1, <3>2, CountedParts DEF PartKinds
    <3>4. AreParts(Counted("failed", run.failed) \o Counted("passed", run.passed))
      BY <3>3, PartsJoin
    <3>5. AreParts((Counted("failed", run.failed) \o Counted("passed", run.passed))
                     \o Counted("skipped", run.skipped))
      BY <3>3, <3>4, PartsJoin
    <3> QED
      BY <3>1, <3>3, <3>5, PartsJoin
  <2>3. CASE k = 4
    <3>1. words = <<Part("passed", run.passed), Part("failed", 0), Part("passed", 0),
                    Part("failed", run.failed)>>
      BY <1>3, <2>3 DEF Words, Runners
    <3>2. PICK a \in [kind : PartKinds, n : Nat], b \in [kind : PartKinds, n : Nat],
               c \in [kind : PartKinds, n : Nat], d \in [kind : PartKinds, n : Nat] :
            /\ a = Part("passed", run.passed) /\ b = Part("failed", 0)
            /\ c = Part("passed", 0) /\ d = Part("failed", run.failed)
      BY <1>1 DEF Part, PartKinds
    <3>3. AreParts(<<a, b, c, d>>)
      BY DEF AreParts
    <3> QED
      BY <3>1, <3>2, <3>3
  <2>4. CASE k \in {1, 5, 6}
    BY <2>4 DEF Owns, Looks
  <2> QED
    BY <2>1, <2>2, <2>3, <2>4
<1>5. CASE "pytestCounts" \in Owns[k]
  <2>1. Prints(Runners[k], run, quiet)["pytestCounts"] = words
    BY <1>2, <1>3, <1>5, PrintsOwn
  <2> QED
    BY <1>4, <1>5, <2>1
<1>6. CASE "pytestCounts" \notin Owns[k]
  <2>1. Prints(Runners[k], run, quiet)["pytestCounts"] = <<>>
    BY <1>2, <1>6, PrintsOwn
  <2> QED
    BY <1>2, <2>1
<1> QED
  BY <1>5, <1>6

\* The words of another format hide nothing of one they do not touch.
LEMMA MixedKeeps ==
  ASSUME NEW out, AreParts(out["pytestCounts"]), NEW other, NEW l \in 1 .. 6, Only(other, l),
         NEW j \in 1 .. 6, j # l, ~(j = 3 /\ l \in {2, 4})
  PROVE  Answers(Mixed(out, other))[j] = Answers(out)[j]
<1>1. \A f \in Looks[j] : f \in DOMAIN NoOutput /\ other[f] = NoOutput[f]
  BY OwnsApart DEF Only
<1>2. NoOutput["pytestCounts"] = <<>> /\ out["pytestCounts"] \o <<>> = out["pytestCounts"]
  BY DEF NoOutput, AreParts
<1>3. ASSUME NEW f \in Looks[j] PROVE Mixed(out, other)[f] = out[f]
  <2>1. CASE f = "pytestCounts"
    <3>1. Mixed(out, other)["pytestCounts"] = out["pytestCounts"] \o other["pytestCounts"]
      BY <1>1, <2>1 DEF Mixed
    <3> QED
      BY <1>1, <1>2, <2>1, <3>1
  <2>2. CASE f # "pytestCounts"
    BY <1>1, <2>2 DEF Mixed
  <2> QED
    BY <2>1, <2>2
<1> QED
  BY <1>3, AnswersLook

\* An output says nothing to the parsers of other tools: without its summary line pytest's does
\* not look at counts.
LEMMA PrintsNone ==
  ASSUME NEW k \in 1 .. 6, NEW run, NEW quiet \in BOOLEAN, NEW j \in 1 .. 6, j # k
  PROVE  Answers(Prints(Runners[k], run, quiet))[j] = {}
<1>1. CASE j # 3
  <2>1. \A f \in Looks[j] : Prints(Runners[k], run, quiet)[f] = NoOutput[f]
    BY <1>1, PrintsOwn, OwnsApart
  <2> QED
    BY <2>1, AnswersLook, AnswersNone
<1>2. CASE j = 3
  <2>1. "pytestSummary" \in Looks[3] /\ NoOutput["pytestSummary"] = FALSE
    BY DEF Looks, NoOutput
  <2>2. "pytestSummary" \notin Owns[k]
    BY <1>2, <2>1, OwnsApart
  <2>3. Prints(Runners[k], run, quiet)["pytestSummary"] = FALSE
    BY <2>1, <2>2, PrintsOwn
  <2>4. ParsePytest(Prints(Runners[k], run, quiet)) = {}
    BY <2>3 DEF ParsePytest
  <2> QED
    BY <1>2, <2>4 DEF Answers
<1> QED
  BY <1>1, <1>2

\* To its own parser it says what the words say.
LEMMA PrintsWords ==
  ASSUME NEW k \in 1 .. 6, NEW run, NEW quiet
  PROVE  Answers(Prints(Runners[k], run, quiet))[k] = Answers(Words(Runners[k], run, quiet))[k]
<1>1. \A f \in Looks[k] : Prints(Runners[k], run, quiet)[f] = Words(Runners[k], run, quiet)[f]
  <2>1. \A f \in Looks[k] : f \in Owns[k]
    BY DEF Owns
  <2> QED
    BY <2>1, PrintsOwn
<1> QED
  BY <1>1, AnswersLook
-----------------------------------------------------------------------------
\* The lists of pytest: a kind occurs at most once.
Counts(V) == [kind : V, n : Nat]

EachOnce(list) == \A i, j \in DOMAIN list : list[i].kind = list[j].kind => i = j

\* The number of a kind in a list.
Holds(list, kind, n) ==
  IF \E i \in DOMAIN list : list[i].kind = kind
  THEN \E i \in DOMAIN list : list[i].kind = kind /\ list[i].n = n
  ELSE n = 0

\* The last count of a kind that occurs once is its number.
LEMMA LastOne ==
  ASSUME NEW V, NEW out, out.pytestCounts \in Seq(Counts(V)), EachOnce(out.pytestCounts),
         NEW kind, NEW n, Holds(out.pytestCounts, kind, n)
  PROVE  LastCount(out, kind) = n
<1> DEFINE I == {i \in 1 .. Len(out.pytestCounts) : out.pytestCounts[i].kind = kind}
           last == IF I # {} THEN Max(I) ELSE 0
<1>1. LastCount(out, kind) = IF last = 0 THEN 0 ELSE out.pytestCounts[last].n
  BY DEF LastCount, SelectLastInSeq
<1>2. DOMAIN out.pytestCounts = 1 .. Len(out.pytestCounts) /\ Len(out.pytestCounts) \in Nat
  OBVIOUS
<1>3. CASE I = {}
  BY <1>1, <1>2, <1>3 DEF Holds
<1>4. CASE I # {}
  <2>1. PICK i \in I : out.pytestCounts[i].n = n
    BY <1>2, <1>4 DEF Holds
  <2>2. \A j \in I : j = i
    BY <1>2 DEF EachOnce
  <2>3. I = {i} /\ i \in Nat /\ i # 0
    BY <2>2
  <2>4. Max({i}) = i
    BY <2>3 DEF Max
  <2>5. last = i
    BY <2>3, <2>4
  <2> QED
    BY <1>1, <2>1, <2>3, <2>5
<1> QED
  BY <1>3, <1>4

\* Another kind at the end.
Wanting(list, kind) == \A i \in DOMAIN list : list[i].kind # kind

Grows(V, list, new, kind, n) ==
  /\ new \in Seq(Counts(V)) /\ EachOnce(new) /\ Holds(new, kind, n)
  /\ \A other, m : other # kind /\ Holds(list, other, m) => Holds(new, other, m)
  /\ \A other : other # kind /\ Wanting(list, other) => Wanting(new, other)

\* A kind that is printed joins the list of counts.
LEMMA CountedNext ==
  ASSUME NEW V, NEW list \in Seq(Counts(V)), EachOnce(list), NEW kind \in V, NEW n \in Nat,
         Wanting(list, kind), NEW new, new = list \o Counted(kind, n)
  PROVE  Grows(V, list, new, kind, n)
<1>1. CASE n = 0
  <2>1. new = list
    BY <1>1 DEF Counted, Part
  <2> QED
    BY <1>1, <2>1 DEF Grows, Holds, Wanting
<1>2. CASE n # 0
  <2> DEFINE one == [kind |-> kind, n |-> n]
  <2>1. new = list \o <<one>>
    BY <1>2 DEF Counted, Part
  <2>2. one \in Counts(V) /\ one.kind = kind /\ one.n = n
    BY DEF Counts
  <2> HIDE DEF one
  <2>3. /\ new \in Seq(Counts(V)) /\ Len(list) \in Nat /\ DOMAIN new = 1 .. Len(list) + 1
        /\ DOMAIN list = 1 .. Len(list) /\ new[Len(list) + 1] = one
        /\ \A i \in DOMAIN list : new[i] = list[i]
    BY <2>1, <2>2
  <2>4. \A i : i \in DOMAIN new <=> i \in DOMAIN list \/ i = Len(list) + 1
    BY <2>3
  <2>5. EachOnce(new)
    BY <2>2, <2>3, <2>4 DEF EachOnce, Wanting
  <2>6. Holds(new, kind, n)
    BY <2>2, <2>3, <2>4 DEF Holds
  <2>7. ASSUME NEW other, NEW m, other # kind, Holds(list, other, m) PROVE Holds(new, other, m)
    BY <2>2, <2>3, <2>4, <2>7 DEF Holds
  <2>8. ASSUME NEW other, other # kind, Wanting(list, other) PROVE Wanting(new, other)
    BY <2>2, <2>3, <2>4, <2>8 DEF Wanting
  <2> QED
    BY <2>3, <2>5, <2>6, <2>7, <2>8 DEF Grows
<1> QED
  BY <1>1, <1>2

\* The counts of pytest's last line are the numbers of the run; errors count as failures.
LEMMA PytestCounts ==
  ASSUME NEW run, IsRun(run), NEW out,
         out.pytestCounts = Counted("failed", run.failed) \o Counted("passed", run.passed)
                              \o Counted("skipped", run.skipped)
                              \o Counted(ErrorWord(run), run.errors)
  PROVE  /\ LastCount(out, "passed") = run.passed /\ LastCount(out, "skipped") = run.skipped
         /\ LastCount(out, "failed") + LastCount(out, "error") + LastCount(out, "errors")
              = run.failed + run.errors
<1> DEFINE V == {"failed", "passed", "skipped", "error", "errors"}
           word == ErrorWord(run)
           blank == IF run.errors = 1 THEN "errors" ELSE "error"
<1>1. /\ run.passed \in Nat /\ run.failed \in Nat /\ run.errors \in Nat /\ run.skipped \in Nat
      /\ word \in V /\ blank \in V
      /\ word \notin {"failed", "passed", "skipped", blank}
      /\ blank \notin {"failed", "passed", "skipped"}
      /\ {word, blank} = {"error", "errors"}
  BY DEF IsRun, ErrorWord
<1>2. PICK n \in Nat, p \in Nat, s \in Nat, e \in Nat :
        n = run.failed /\ p = run.passed /\ s = run.skipped /\ e = run.errors
  BY <1>1
<1> HIDE DEF word, blank
<1>3. PICK l0 : l0 = <<>>
  OBVIOUS
<1>4. PICK l1 : l1 = l0 \o Counted("failed", n)
  OBVIOUS
<1>5. PICK l2 : l2 = l1 \o Counted("passed", p)
  OBVIOUS
<1>6. PICK l3 : l3 = l2 \o Counted("skipped", s)
  OBVIOUS
<1>7. PICK l4 : l4 = l3 \o Counted(word, e)
  OBVIOUS
<1>8. out.pytestCounts = l4
  <2>1. l1 = Counted("failed", n)
    BY <1>3, <1>4 DEF Counted, Part
  <2> QED
    BY <1>2, <1>5, <1>6, <1>7, <2>1 DEF word
<1>9. l0 \in Seq(Counts(V)) /\ EachOnce(l0) /\ \A kind : Wanting(l0, kind)
  BY <1>3 DEF EachOnce, Wanting
<1>10. /\ l1 \in Seq(Counts(V)) /\ EachOnce(l1) /\ Holds(l1, "failed", n)
       /\ \A kind : kind # "failed" /\ Wanting(l0, kind) => Wanting(l1, kind)
  <2>1. "failed" \in V /\ Wanting(l0, "failed")
    BY <1>9
  <2> HIDE DEF V
  <2>2. Grows(V, l0, l1, "failed", n)
    BY <1>4, <1>9, <2>1, CountedNext
  <2> QED
    BY <2>2 DEF Grows
<1>11. /\ l2 \in Seq(Counts(V)) /\ EachOnce(l2) /\ Holds(l2, "passed", p)
       /\ Holds(l2, "failed", n)
       /\ \A kind : kind # "passed" /\ Wanting(l1, kind) => Wanting(l2, kind)
  <2>1. "passed" \in V /\ Wanting(l1, "passed")
    BY <1>9, <1>10
  <2> HIDE DEF V
  <2>2. Grows(V, l1, l2, "passed", p)
    BY <1>5, <1>10, <2>1, CountedNext
  <2> QED
    BY <1>10, <2>2 DEF Grows
<1>12. /\ l3 \in Seq(Counts(V)) /\ EachOnce(l3) /\ Holds(l3, "skipped", s)
       /\ Holds(l3, "failed", n) /\ Holds(l3, "passed", p)
       /\ \A kind : kind # "skipped" /\ Wanting(l2, kind) => Wanting(l3, kind)
  <2>1. "skipped" \in V /\ Wanting(l2, "skipped")
    BY <1>9, <1>10, <1>11
  <2> HIDE DEF V
  <2>2. Grows(V, l2, l3, "skipped", s)
    BY <1>6, <1>11, <2>1, CountedNext
  <2> QED
    BY <1>11, <2>2 DEF Grows
<1>13. /\ l4 \in Seq(Counts(V)) /\ EachOnce(l4) /\ Holds(l4, word, e)
       /\ Holds(l4, "failed", n) /\ Holds(l4, "passed", p) /\ Holds(l4, "skipped", s)
       /\ \A kind : kind # word /\ Wanting(l3, kind) => Wanting(l4, kind)
  <2>1. word \in V /\ Wanting(l3, word)
    BY <1>1, <1>9, <1>10, <1>11, <1>12
  <2>2. word # "failed" /\ word # "passed" /\ word # "skipped"
    BY <1>1
  <2> HIDE DEF V
  <2>3. Grows(V, l3, l4, word, e)
    BY <1>7, <1>12, <2>1, CountedNext
  <2> QED
    BY <1>12, <2>2, <2>3 DEF Grows
<1>14. Holds(l4, blank, 0)
  <2>1. Wanting(l4, blank)
    BY <1>1, <1>9, <1>10, <1>11, <1>12, <1>13
  <2> QED
    BY <2>1 DEF Holds, Wanting
<1> HIDE DEF V
<1>15. /\ LastCount(out, "failed") = n /\ LastCount(out, "passed") = p
       /\ LastCount(out, "skipped") = s /\ LastCount(out, word) = e /\ LastCount(out, blank) = 0
  BY <1>8, <1>13, <1>14, LastOne
<1> QED
  <2>1. CASE word = "error" /\ blank = "errors"
    BY <1>2, <1>15, <2>1
  <2>2. CASE word = "errors" /\ blank = "error"
    BY <1>2, <1>15, <2>2
  <2>3. word # blank
    BY <1>1
  <2> QED
    BY <1>1, <2>1, <2>2, <2>3
-----------------------------------------------------------------------------
\* Two lines of cargo are summed up.
LEMMA TotalOfTwo ==
  ASSUME NEW a \in Nat, NEW b \in Nat
  PROVE  Total(<<a, b>>) = a + b
<1>1. <<a, b>> \in Seq(Nat) /\ Len(<<a, b>>) = 2
  OBVIOUS
<1>2. Total(<<a, b>>) = StreamLength(<<a, b>>)
  BY DEF Total, StreamLength
<1>3. PICK h : /\ h[0] = 0 /\ \A i \in 1 .. 2 : h[i] = h[i - 1] + <<a, b>>[i]
               /\ h[2] = StreamLength(<<a, b>>)
  BY <1>1, TotalSteps
<1>4. h[1] = h[0] + a /\ h[2] = h[1] + b
  <2>1. 1 \in 1 .. 2 /\ 2 \in 1 .. 2 /\ 1 - 1 = 0 /\ 2 - 1 = 1
    OBVIOUS
  <2> QED
    BY <1>3, <2>1
<1> QED
  BY <1>2, <1>3, <1>4

\* The failures of a run as its own tool counts them, and its skipped tests.
Failures(runner, run) == run.failed + (IF runner = "pytest" THEN run.errors ELSE 0)
SkippedTests(runner, run) == IF runner = "go" THEN 0 ELSE run.skipped

Truth(runner, run) ==
  Summary(runner, run.passed + Failures(runner, run) + SkippedTests(runner, run), run.passed,
          Failures(runner, run), SkippedTests(runner, run))

\* What a parser makes of the words of its own tool.
LEMMA WordsTrue ==
  ASSUME NEW k \in 1 .. 6, NEW run, IsRun(run), NEW quiet \in BOOLEAN
  PROVE  LET answer == Answers(Words(Runners[k], run, quiet))[k] IN
         /\ run.passed + Failures(Runners[k], run) > 0 /\ ~quiet =>
              answer = {Truth(Runners[k], run)}
         /\ \A a \in answer : a.failed = Failures(Runners[k], run)
<1> DEFINE words == Words(Runners[k], run, quiet)
           answer == Answers(words)[k]
<1>1. /\ run.passed \in Nat /\ run.failed \in Nat /\ run.errors \in Nat /\ run.skipped \in Nat
  BY DEF IsRun
<1>2. \A name, t, p, f, s : Summary(name, t, p, f, s).failed = f
  BY DEF Summary
<1> SUFFICES /\ run.passed + Failures(Runners[k], run) > 0 /\ ~quiet =>
                  answer = {Truth(Runners[k], run)}
             /\ \A a \in answer : a.failed = Failures(Runners[k], run)
  OBVIOUS
<1>3. CASE k = 1
  <2>1. Runners[k] = "node:test" /\ answer = ParseTap(words)
    BY <1>3 DEF Runners, Answers
  <2>2. /\ words.tapPass = <<run.passed>> /\ words.tapFail = <<run.failed>>
        /\ words.tapSkip = <<run.skipped>>
        /\ words.tapTotal = <<run.passed + run.failed + run.skipped>>
    BY <2>1 DEF Words
  <2> HIDE DEF words
  <2>3. ParseTap(words) = {Summary("node:test", run.passed + run.failed + run.skipped,
                                   run.passed, run.failed, run.skipped)}
    BY <2>2 DEF ParseTap, First
  <2>4. Failures(Runners[k], run) = run.failed /\ SkippedTests(Runners[k], run) = run.skipped
    BY <1>1, <2>1 DEF Failures, SkippedTests
  <2> HIDE DEF answer
  <2> QED
    BY <1>2, <2>1, <2>3, <2>4 DEF Truth
<1>4. CASE k = 2
  <2>1. Runners[k] = "jest" /\ answer = ParseJest(words)
    BY <1>4 DEF Runners, Answers
  <2>2. words.jest = <<[passed |-> run.passed, failed |-> run.failed, skipped |-> run.skipped,
                        todo |-> 0, total |-> run.passed + run.failed + run.skipped]>>
    BY <2>1 DEF Words
  <2> HIDE DEF words
  <2>3. ParseJest(words) = {Summary("jest", run.passed + run.failed + run.skipped,
                                    run.passed, run.failed, run.skipped)}
    <3>1. PICK line : line = [passed |-> run.passed, failed |-> run.failed,
                              skipped |-> run.skipped, todo |-> 0,
                              total |-> run.passed + run.failed + run.skipped]
      OBVIOUS
    <3>2. {words.jest[i] : i \in DOMAIN words.jest \cap {1}} = {line}
      BY <2>2, <3>1
    <3>3. /\ line.passed = run.passed /\ line.failed = run.failed
          /\ line.skipped + line.todo = run.skipped
          /\ line.total = run.passed + run.failed + run.skipped
      BY <1>1, <3>1
    <3> QED
      BY <3>2, <3>3 DEF ParseJest
  <2>4. Failures(Runners[k], run) = run.failed /\ SkippedTests(Runners[k], run) = run.skipped
    BY <1>1, <2>1 DEF Failures, SkippedTests
  <2> HIDE DEF answer
  <2> QED
    BY <1>2, <2>1, <2>3, <2>4 DEF Truth
<1>5. CASE k = 3
  <2>1. Runners[k] = "pytest" /\ answer = ParsePytest(words)
    BY <1>5 DEF Runners, Answers
  <2>2. /\ words.pytestSummary = (~quiet /\ run.passed + run.failed + run.errors > 0)
        /\ words.pytestCounts = Counted("failed", run.failed) \o Counted("passed", run.passed)
                                  \o Counted("skipped", run.skipped)
                                  \o Counted(ErrorWord(run), run.errors)
    BY <2>1 DEF Words, ErrorWord
  <2> HIDE DEF words
  <2>3. /\ LastCount(words, "passed") = run.passed /\ LastCount(words, "skipped") = run.skipped
        /\ LastCount(words, "failed") + LastCount(words, "error") + LastCount(words, "errors")
             = run.failed + run.errors
    BY <2>2, PytestCounts
  <2>4. ParsePytest(words) =
          IF ~words.pytestSummary THEN {}
          ELSE {Summary("pytest", run.passed + (run.failed + run.errors) + run.skipped,
                        run.passed, run.failed + run.errors, run.skipped)}
    BY <2>3 DEF ParsePytest
  <2>5. /\ Failures(Runners[k], run) = run.failed + run.errors
        /\ SkippedTests(Runners[k], run) = run.skipped
    BY <1>1, <2>1 DEF Failures, SkippedTests
  <2>6. Truth(Runners[k], run) =
          Summary("pytest", run.passed + (run.failed + run.errors) + run.skipped,
                  run.passed, run.failed + run.errors, run.skipped)
    BY <2>1, <2>5 DEF Truth
  <2>7. ASSUME run.passed + Failures(Runners[k], run) > 0, ~quiet PROVE words.pytestSummary
    <3>1. run.passed + (run.failed + run.errors) > 0
      BY <2>5, <2>7
    <3>2. run.passed + run.failed + run.errors > 0
      BY <1>1, <3>1
    <3> QED
      BY <2>2, <2>7, <3>2
  <2> HIDE DEF answer
  <2> QED
    BY <1>2, <2>1, <2>4, <2>5, <2>6, <2>7
<1>6. CASE k = 4
  <2>1. Runners[k] = "cargo" /\ answer = ParseCargo(words)
    BY <1>6 DEF Runners, Answers
  <2>2. words.cargo = <<[passed |-> run.passed, failed |-> 0, ignored |-> 0],
                        [passed |-> 0, failed |-> run.failed, ignored |-> run.skipped]>>
    BY <2>1 DEF Words
  <2> HIDE DEF words
  <2>3. /\ [i \in DOMAIN words.cargo |-> words.cargo[i]["passed"]] = <<run.passed, 0>>
        /\ [i \in DOMAIN words.cargo |-> words.cargo[i]["failed"]] = <<0, run.failed>>
        /\ [i \in DOMAIN words.cargo |-> words.cargo[i]["ignored"]] = <<0, run.skipped>>
        /\ words.cargo # <<>>
    BY <2>2
  <2>4. /\ Total(<<run.passed, 0>>) = run.passed /\ Total(<<0, run.failed>>) = run.failed
        /\ Total(<<0, run.skipped>>) = run.skipped
    BY <1>1, TotalOfTwo
  <2>5. ParseCargo(words) = {Summary("cargo", run.passed + run.failed + run.skipped,
                                     run.passed, run.failed, run.skipped)}
    BY <2>3, <2>4 DEF ParseCargo
  <2>6. Failures(Runners[k], run) = run.failed /\ SkippedTests(Runners[k], run) = run.skipped
    BY <1>1, <2>1 DEF Failures, SkippedTests
  <2> HIDE DEF answer
  <2> QED
    BY <1>2, <2>1, <2>5, <2>6 DEF Truth
<1>7. CASE k = 5
  <2>1. Runners[k] = "go" /\ answer = ParseGo(words)
    BY <1>7 DEF Runners, Answers
  <2>2. words.goPass = (IF quiet THEN 0 ELSE run.passed) /\ words.goFail = run.failed
    BY <2>1 DEF Words
  <2> HIDE DEF words
  <2>3. Failures(Runners[k], run) = run.failed /\ SkippedTests(Runners[k], run) = 0
    BY <1>1, <2>1 DEF Failures, SkippedTests
  <2>4. \A a \in ParseGo(words) : a.failed = run.failed
    BY <1>2, <2>2 DEF ParseGo
  <2>5. ASSUME run.passed + run.failed > 0, ~quiet
        PROVE  ParseGo(words) = {Summary("go", run.passed + run.failed + 0, run.passed, run.failed, 0)}
    <3>1. words.goPass = run.passed /\ ~(words.goPass = 0 /\ words.goFail = 0)
      BY <1>1, <2>2, <2>5
    <3>2. run.passed + run.failed + 0 = run.passed + run.failed
      BY <1>1
    <3> QED
      BY <2>2, <3>1, <3>2 DEF ParseGo
  <2> HIDE DEF answer
  <2> QED
    BY <2>1, <2>3, <2>4, <2>5 DEF Truth
<1>8. CASE k = 6
  <2>1. Runners[k] = "mocha" /\ answer = ParseMocha(words)
    BY <1>8 DEF Runners, Answers
  <2>2. /\ words.mochaPass = <<run.passed>>
        /\ words.mochaFail = (IF run.failed = 0 THEN <<>> ELSE <<run.failed>>)
        /\ words.mochaPending = (IF run.skipped = 0 THEN <<>> ELSE <<run.skipped>>)
    BY <2>1 DEF Words
  <2> HIDE DEF words
  <2>3. /\ First(words.mochaPass) = run.passed /\ words.mochaPass # <<>>
        /\ First(words.mochaFail) = run.failed /\ First(words.mochaPending) = run.skipped
    BY <1>1, <2>2 DEF First
  <2>4. ParseMocha(words) = {Summary("mocha", run.passed + run.failed + run.skipped,
                                     run.passed, run.failed, run.skipped)}
    BY <2>3 DEF ParseMocha
  <2>5. Failures(Runners[k], run) = run.failed /\ SkippedTests(Runners[k], run) = run.skipped
    BY <1>1, <2>1 DEF Failures, SkippedTests
  <2> HIDE DEF answer
  <2> QED
    BY <1>2, <2>1, <2>4, <2>5 DEF Truth
<1> QED
  BY <1>3, <1>4, <1>5, <1>6, <1>7, <1>8

RunnerRank(runner) == SelectInSeq(Runners, LAMBDA r : r = runner)

\* The rank of a runner is its place among the runners.
LEMMA RankOf ==
  ASSUME NEW k \in 1 .. 6, NEW runner, runner = Runners[k]
  PROVE  RunnerRank(runner) = k
<1> DEFINE I == {i \in 1 .. Len(Runners) : Runners[i] = runner}
<1>1. Len(Runners) = 6 /\ \A i \in 1 .. 6 : Runners[i] = Runners[k] => i = k
  BY DEF Runners
<1>2. I = {k}
  BY <1>1
<1>3. Min({k}) = k
  BY DEF Min
<1>4. RunnerRank(runner) = IF I # {} THEN Min(I) ELSE 0
  BY DEF RunnerRank, SelectInSeq
<1> HIDE DEF I
<1> QED
  BY <1>2, <1>3, <1>4

\* The summary is the truth, whichever runner a project has, whatever its tool has counted, and
\* whatever words of later formats are in its output, except cargo's in pytest's.
THEOREM SummaryForAll ==
  ASSUME NEW present, NEW runner \in {Runners[i] : i \in 1 .. 6}, NEW run, IsRun(run),
         NEW noise \in 0 .. 6, NEW noisy
  PROVE  SummaryIsTrue(present, runner, run, noise, noisy)
<1> SUFFICES ASSUME ~Misled(runner, noise) PROVE SummaryIsTrue(present, runner, run, noise, noisy)
  BY DEF SummaryIsTrue
<1>3. PICK quiet \in BOOLEAN : quiet = (\E f \in ChooseFramework(present) : f.quiet)
  OBVIOUS
<1> DEFINE plainOut == Prints(runner, run, quiet)
           output(k) == IF noise > k THEN Mixed(plainOut, Prints(Runners[noise], noisy, FALSE))
                                     ELSE plainOut
<1>1. PICK k \in 1 .. 6 : runner = Runners[k]
  OBVIOUS
<1>2. RunnerRank(runner) = k
  BY <1>1, RankOf
<1> DEFINE out == output(k)
           answers == ParseTestOutput(out)
<1>4. \A j \in 1 .. k : Answers(out)[j] = Answers(plainOut)[j]
  <2>1. CASE noise > k
    <3>1. noise \in 1 .. 6 /\ \A j \in 1 .. k : j \in 1 .. 6 /\ j # noise
      BY <2>1
    <3>2. PICK other : other = Prints(Runners[noise], noisy, FALSE)
      OBVIOUS
    <3>3. Only(other, noise)
      BY <3>1, <3>2, PrintsOnly
    <3>4. out = Mixed(plainOut, other)
      BY <2>1, <3>2
    <3>5. AreParts(plainOut["pytestCounts"])
      BY <1>1, PrintsParts
    <3>6. ~(k = 3 /\ noise = 4)
      BY <1>1 DEF Misled, Runners
    <3>7. \A j \in 1 .. k : ~(j = 3 /\ noise \in {2, 4})
      BY <2>1, <3>6
    <3> HIDE DEF out, plainOut
    <3> QED
      BY <3>1, <3>3, <3>4, <3>5, <3>7, MixedKeeps
  <2>2. CASE ~(noise > k)
    BY <2>2
  <2> QED
    BY <2>1, <2>2
<1> HIDE DEF out
<1>5. \A j \in 1 .. k - 1 : Answers(out)[j] = {}
  <2> SUFFICES ASSUME NEW j \in 1 .. k - 1 PROVE Answers(out)[j] = {}
    OBVIOUS
  <2>1. j \in 1 .. k /\ j \in 1 .. 6 /\ j # k
    OBVIOUS
  <2> QED
    BY <1>1, <1>4, <2>1, PrintsNone
<1>6. Answers(out)[k] = Answers(Words(Runners[k], run, quiet))[k]
  <2>1. k \in 1 .. k
    OBVIOUS
  <2> QED
    BY <1>1, <1>4, <2>1, PrintsWords
<1>7. /\ run.passed + Failures(runner, run) > 0 /\ ~quiet => Answers(out)[k] = {Truth(runner, run)}
      /\ \A a \in Answers(out)[k] : a.failed = Failures(runner, run)
  BY <1>1, <1>6, WordsTrue
<1>8. IF Answers(out)[k] # {} THEN answers = Answers(out)[k]
      ELSE answers = {} \/ \E l \in k + 1 .. 6 : answers = Answers(out)[l]
  BY <1>5, FirstAnswer
<1> HIDE DEF answers
<1>9. run.passed + Failures(runner, run) > 0 /\ ~quiet => answers = {Truth(runner, run)}
  BY <1>7, <1>8
<1>10. ASSUME NEW a \in answers, a.framework = runner PROVE a.failed = Failures(runner, run)
  <2>1. CASE Answers(out)[k] # {}
    BY <1>7, <1>8, <2>1
  <2>2. ASSUME NEW l \in k + 1 .. 6, answers = Answers(out)[l] PROVE FALSE
    <3>1. l \in 1 .. 6 /\ l # k
      OBVIOUS
    <3>2. a.framework = Runners[l]
      BY <2>2, <3>1, AnswersSigned
    <3>3. Runners[l] # Runners[k]
      BY <3>1 DEF Runners
    <3> QED
      BY <1>1, <1>10, <3>2, <3>3
  <2> QED
    BY <1>8, <2>1, <2>2
<1> QED
  BY <1>2, <1>3, <1>9, <1>10 DEF SummaryIsTrue, RunnerRank, Truth, Failures, SkippedTests,
      answers, out

\* Whatever test run is drawn, the invariant of the run holds of it.
THEOREM SummariesAlways ==
  ASSUME Of("tests") => /\ input.value.runner \in {Runners[i] : i \in 1 .. 6}
                        /\ IsRun(input.value.run) /\ input.value.noise \in 0 .. 6
  PROVE  SummariesAreTrue
  BY SummaryForAll DEF SummariesAreTrue
-----------------------------------------------------------------------------
(* The inspection of changes: its inductive invariant, then the order of its lists. *)

Once(list) == \A i, j \in DOMAIN list : list[i] = list[j] => i = j

Members(list) == {list[i] : i \in DOMAIN list}

Types == {"MODIFIED", "CREATED", "DELETED"}

\* What the three lists of the answer say, as pairs of path and type.
Entered == (Modified \X {"MODIFIED"}) \cup (Created \X {"CREATED"}) \cup (Deleted \X {"DELETED"})

Finished == {<<ch.path, ch.type>> : ch \in changes}

\* Whether `after` is what a reading of the file may have given.
MayBeRead(p, type, after) ==
  IF type = "DELETED" THEN after = Nothing
  ELSE (after = Nothing /\ p \in unread) \/ (p \notin touched => after = Current(p))

TypeInv ==
  /\ files \in Workspaces /\ original \in Workspaces /\ baseline \in Workspaces
  /\ snapshot \in Snapshots(original) /\ manifest \in Workspaces
  /\ copied \in BOOLEAN /\ cut \in BOOLEAN /\ truncated \in BOOLEAN
  /\ stage \in {"idle", "listing", "comparing", "reading", "done", "failed"}
  /\ unlisted \in SUBSET Paths /\ touched \in SUBSET Paths /\ unread \in SUBSET Paths
  /\ queue \in Seq(Paths \X Types)

ListingInv ==
  /\ stage = "idle" => unlisted = Paths
  /\ stage \notin {"idle", "listing", "failed"} /\ ~cut => unlisted = {}
  /\ ~cut => \A p \in Paths \ (unlisted \cup touched) : manifest[p] = files[p]

QueueInv ==
  /\ stage \notin {"reading", "done"} => queue = <<>> /\ changes = {}
  /\ Once(queue)
  /\ stage \in {"reading", "done"} => Entered = Members(queue) \cup Finished
  /\ Members(queue) \cap Finished = {}
  /\ truncated <=> stage = "done" /\ queue # <<>>

\* A change is what the two versions make of it, as far as they were read.
Backed(ch) ==
  /\ ch.path \in Paths /\ ch.type \in Types
  /\ \E after \in Contents \cup {Nothing} :
       /\ MayBeRead(ch.path, ch.type, after)
       /\ ch = BuildChange(ch.path, ch.type, ReadBaseline(ch.path), after)

ChangesInv == \A ch \in changes : Backed(ch)

IInv == TypeInv /\ ListingInv /\ QueueInv /\ ChangesInv
-----------------------------------------------------------------------------
(* The lists in their order. *)

\* How many elements of S come before p.
Place(S, p) == Cardinality({q \in S : q < p})

\* The place of an element is below the number of elements.
LEMMA RankBounds ==
  ASSUME NEW S \in SUBSET Nat, IsFiniteSet(S), NEW p \in S
  PROVE  IsFiniteSet({q \in S : q < p}) /\ Place(S, p) \in 0 .. Cardinality(S) - 1
<1>1. {q \in S : q < p} \in SUBSET (S \ {p})
  OBVIOUS
<1>2. IsFiniteSet(S \ {p}) /\ Cardinality(S \ {p}) = Cardinality(S) - 1
  BY FS_RemoveElement
<1>3. IsFiniteSet({q \in S : q < p}) /\ Place(S, p) <= Cardinality(S \ {p})
  BY <1>1, <1>2, FS_Subset DEF Place
<1>4. Place(S, p) \in Nat /\ Cardinality(S) \in Nat
  BY <1>3, FS_CardinalityType DEF Place
<1> QED
  BY <1>2, <1>3, <1>4

\* A larger element has a higher place.
LEMMA RankRises ==
  ASSUME NEW S \in SUBSET Nat, IsFiniteSet(S), NEW p \in S, NEW q \in S, p < q
  PROVE  Place(S, p) < Place(S, q)
<1> DEFINE P == {r \in S : r < p}
           Q == {r \in S : r < q}
<1>1. P \in SUBSET Q /\ p \in Q /\ p \notin P
  <2>1. p \in Nat /\ q \in Nat /\ \A r \in S : r \in Nat
    OBVIOUS
  <2>2. \A r \in S : r < p => r < q
    BY <2>1
  <2>3. P \in SUBSET Q
    BY <2>2
  <2>4. p \in Q /\ ~(p < p)
    BY <2>1
  <2> QED
    BY <2>3, <2>4
<1>2. IsFiniteSet(Q) /\ Cardinality(P) \in Nat /\ Cardinality(Q) \in Nat
  BY RankBounds DEF Place
<1>3. Place(S, p) = Cardinality(P) /\ Place(S, q) = Cardinality(Q)
  BY DEF Place
<1> HIDE DEF P, Q
<1>4. Cardinality(P) <= Cardinality(Q) /\ (Cardinality(Q) = Cardinality(P) => Q = P)
  BY <1>1, <1>2, FS_Subset
<1> QED
  BY <1>1, <1>2, <1>3, <1>4

\* In a finite set of numbers there is, for every number below its size, exactly one element
\* that has so many of them before it.
LEMMA Ranked ==
  ASSUME NEW S \in SUBSET Nat, IsFiniteSet(S)
  PROVE  /\ \A k \in 0 .. Cardinality(S) - 1 : \E p \in S : Place(S, p) = k
         /\ \A p, q \in S : Place(S, p) = Place(S, q) => p = q
<1> DEFINE n == Cardinality(S)
           rank == [p \in S |-> Place(S, p)]
<1>1. n \in Nat
  BY FS_CardinalityType
<1>2. \A p \in S : Place(S, p) \in 0 .. n - 1
  BY RankBounds
<1>3. ASSUME NEW p \in S, NEW q \in S, p # q PROVE Place(S, p) # Place(S, q)
  <2>1. CASE p < q
    BY <1>2, <2>1, RankRises
  <2>2. CASE q < p
    BY <1>2, <2>2, RankRises
  <2> QED
    BY <1>3, <2>1, <2>2
<1>4. IsFiniteSet(0 .. n - 1) /\ Cardinality(0 .. n - 1) = n
  <2> HIDE DEF n
  <2> QED
    BY <1>1, FS_Interval
<1>5. rank \in [S -> 0 .. n - 1] /\ \A p, q \in S : rank[p] = rank[q] => p = q
  BY <1>2, <1>3
<1>6. \A p \in S : rank[p] = Place(S, p)
  OBVIOUS
<1> HIDE DEF rank
<1>7. rank \in Injection(S, 0 .. n - 1)
  BY <1>5 DEF Injection, IsInjective
<1>8. rank \in Surjection(S, 0 .. n - 1)
  BY <1>4, <1>7, FS_Injection
<1> QED
  BY <1>3, <1>6, <1>8 DEF Surjection

\* A list in its order has every path once.
LEMMA OrderedOnce ==
  ASSUME NEW S \in SUBSET Nat, IsFiniteSet(S), NEW type
  PROVE  /\ InOrder(S, type) \in Seq(S \X {type}) /\ Once(InOrder(S, type))
         /\ Members(InOrder(S, type)) = S \X {type}
<1> DEFINE n == Cardinality(S)
           Nth(i) == CHOOSE p \in S : Place(S, p) = i - 1
           list == [i \in 1 .. n |-> <<Nth(i), type>>]
<1>1. n \in Nat
  BY FS_CardinalityType
<1>2. InOrder(S, type) = list
  BY DEF InOrder, Place
<1>3. ASSUME NEW i \in 1 .. n PROVE Nth(i) \in S /\ Place(S, Nth(i)) = i - 1
  <2>1. i - 1 \in 0 .. n - 1
    BY <1>1
  <2> QED
    BY <2>1, Ranked
<1>4. ASSUME NEW p \in S PROVE Place(S, p) + 1 \in 1 .. n /\ Nth(Place(S, p) + 1) = p
  <2>1. Place(S, p) \in 0 .. n - 1
    BY RankBounds
  <2> HIDE DEF n
  <2>2. Place(S, p) + 1 \in 1 .. n /\ (Place(S, p) + 1) - 1 = Place(S, p)
    BY <1>1, <2>1
  <2> QED
    BY <1>3, <2>2, Ranked
<1> HIDE DEF n, Nth
<1>5. list \in Seq(S \X {type})
  BY <1>1, <1>3
<1>6. \A i, j \in 1 .. n : list[i] = list[j] => i = j
  BY <1>1, <1>3
<1>7. \A i \in 1 .. n : list[i] \in S \X {type}
  BY <1>3
<1>8. ASSUME NEW pair \in S \X {type} PROVE \E i \in 1 .. n : list[i] = pair
  <2>1. pair[1] \in S /\ pair = <<pair[1], type>>
    OBVIOUS
  <2>2. Place(S, pair[1]) + 1 \in 1 .. n /\ Nth(Place(S, pair[1]) + 1) = pair[1]
    BY <1>4, <2>1
  <2>3. list[Place(S, pair[1]) + 1] = pair
    BY <2>1, <2>2
  <2> QED
    BY <2>2, <2>3
<1>9. DOMAIN list = 1 .. n
  OBVIOUS
<1> HIDE DEF list
<1>10. Once(list)
  BY <1>6, <1>9 DEF Once
<1>11. Members(list) = S \X {type}
  BY <1>7, <1>8, <1>9 DEF Members
<1> QED
  BY <1>2, <1>5, <1>10, <1>11

\* What two lists of different things become when one follows the other.
LEMMA Joining ==
  ASSUME NEW V, NEW s \in Seq(V), NEW t \in Seq(V), Once(s), Once(t),
         Members(s) \cap Members(t) = {}
  PROVE  /\ s \o t \in Seq(V) /\ Once(s \o t)
         /\ Members(s \o t) = Members(s) \cup Members(t)
<1> DEFINE m == Len(s)
           n == Len(t)
           u == s \o t
<1>1. /\ m \in Nat /\ DOMAIN s = 1 .. m /\ n \in Nat /\ DOMAIN t = 1 .. n
      /\ u \in Seq(V) /\ DOMAIN u = 1 .. m + n
  OBVIOUS
<1>2. \A i \in 1 .. m : u[i] = s[i]
  OBVIOUS
<1>3. \A i \in 1 .. n : u[m + i] = t[i]
  OBVIOUS
<1>4. \A i \in 1 .. m + n : i \in 1 .. m \/ (i - m \in 1 .. n /\ m + (i - m) = i)
  BY <1>1
<1> HIDE DEF m, n, u
<1>5. \A i \in 1 .. m : s[i] \in Members(s)
  BY <1>1 DEF Members
<1>6. \A i \in 1 .. n : t[i] \in Members(t)
  BY <1>1 DEF Members
<1>7. ASSUME NEW i \in 1 .. m + n
      PROVE  u[i] \in Members(s) \cup Members(t)
  BY <1>2, <1>3, <1>4, <1>5, <1>6
<1>8. ASSUME NEW x \in Members(s) \cup Members(t) PROVE \E i \in 1 .. m + n : u[i] = x
  <2>1. CASE x \in Members(s)
    BY <1>1, <1>2, <2>1 DEF Members
  <2>2. CASE x \in Members(t)
    <3>1. PICK i \in 1 .. n : t[i] = x
      BY <1>1, <2>2 DEF Members
    <3>2. m + i \in 1 .. m + n
      BY <1>1
    <3> QED
      BY <1>3, <3>1, <3>2
  <2> QED
    BY <2>1, <2>2
<1>9. Members(u) = Members(s) \cup Members(t)
  <2>1. Members(u) = {u[i] : i \in 1 .. m + n}
    BY <1>1 DEF Members
  <2>2. {u[i] : i \in 1 .. m + n} \subseteq Members(s) \cup Members(t)
    BY <1>7
  <2>3. Members(s) \cup Members(t) \subseteq {u[i] : i \in 1 .. m + n}
    BY <1>8
  <2> QED
    BY <2>1, <2>2, <2>3
<1>10. ASSUME NEW i \in 1 .. m + n, NEW j \in 1 .. m + n, u[i] = u[j] PROVE i = j
  <2>1. CASE i \in 1 .. m /\ j \in 1 .. m
    BY <1>1, <1>2, <1>10, <2>1 DEF Once
  <2>2. CASE i \notin 1 .. m /\ j \notin 1 .. m
    <3>1. i - m \in 1 .. n /\ j - m \in 1 .. n /\ u[i] = t[i - m] /\ u[j] = t[j - m]
      BY <1>3, <1>4, <2>2
    <3>2. i - m = j - m
      BY <1>1, <1>10, <3>1 DEF Once
    <3> QED
      BY <1>1, <3>2
  <2>3. CASE i \in 1 .. m /\ j \notin 1 .. m
    <3>1. j - m \in 1 .. n /\ u[j] = t[j - m] /\ u[i] = s[i]
      BY <1>2, <1>3, <1>4, <2>3
    <3> QED
      BY <1>5, <1>6, <1>10, <2>3, <3>1
  <2>4. CASE i \notin 1 .. m /\ j \in 1 .. m
    <3>1. i - m \in 1 .. n /\ u[i] = t[i - m] /\ u[j] = s[j]
      BY <1>2, <1>3, <1>4, <2>4
    <3> QED
      BY <1>5, <1>6, <1>10, <2>4, <3>1
  <2> QED
    BY <2>1, <2>2, <2>3, <2>4
<1>11. u \in Seq(V) /\ Once(u)
  BY <1>1, <1>10 DEF Once
<1> QED
  BY <1>9, <1>11 DEF u

\* What is left of a list without its first element.
LEMMA TailOnce ==
  ASSUME NEW V, NEW s \in Seq(V), s # <<>>, Once(s)
  PROVE  /\ Tail(s) \in Seq(V) /\ Once(Tail(s)) /\ s[1] \in V
         /\ s[1] \in Members(s) /\ Members(Tail(s)) = Members(s) \ {s[1]}
<1> DEFINE n == Len(s)
           t == Tail(s)
<1>1. /\ n \in Nat /\ n >= 1 /\ DOMAIN s = 1 .. n
      /\ t \in Seq(V) /\ DOMAIN t = 1 .. n - 1 /\ s[1] \in V
  OBVIOUS
<1>2. \A i \in 1 .. n - 1 : t[i] = s[i + 1]
  OBVIOUS
<1> HIDE DEF n, t
<1>3. \A i \in 1 .. n - 1 : i + 1 \in 1 .. n /\ i + 1 # 1
  BY <1>1
<1>4. \A i \in 1 .. n : i # 1 => i - 1 \in 1 .. n - 1 /\ (i - 1) + 1 = i
  BY <1>1
<1>5. Once(t)
  <2> SUFFICES ASSUME NEW i \in 1 .. n - 1, NEW j \in 1 .. n - 1, t[i] = t[j] PROVE i = j
    BY <1>1 DEF Once
  <2>1. i + 1 \in 1 .. n /\ j + 1 \in 1 .. n /\ s[i + 1] = s[j + 1]
    BY <1>2, <1>3
  <2>2. i + 1 = j + 1
    BY <1>1, <2>1 DEF Once
  <2> QED
    BY <1>1, <2>2
<1>6. 1 \in 1 .. n /\ s[1] \in Members(s)
  BY <1>1 DEF Members
<1>7. ASSUME NEW x \in Members(t) PROVE x \in Members(s) \ {s[1]}
  <2>1. PICK i \in 1 .. n - 1 : x = t[i]
    BY <1>1, <1>7 DEF Members
  <2>2. x = s[i + 1] /\ i + 1 \in 1 .. n /\ i + 1 # 1
    BY <1>2, <1>3, <2>1
  <2>3. s[i + 1] # s[1]
    BY <1>1, <1>6, <2>2 DEF Once
  <2> QED
    BY <1>1, <2>2, <2>3 DEF Members
<1>8. ASSUME NEW x \in Members(s), x # s[1] PROVE x \in Members(t)
  <2>1. PICK i \in 1 .. n : x = s[i]
    BY <1>1, <1>8 DEF Members
  <2>2. i - 1 \in 1 .. n - 1 /\ x = t[i - 1]
    BY <1>2, <1>4, <1>8, <2>1
  <2> QED
    BY <1>1, <2>2 DEF Members
<1>9. Members(t) = Members(s) \ {s[1]}
  BY <1>7, <1>8
<1> QED
  BY <1>1, <1>5, <1>6, <1>9 DEF t

\* The queue of an inspection has every file that differs once, with its type.
LEMMA QueueBuilt ==
  LET list == InOrder(Modified, "MODIFIED") \o InOrder(Created, "CREATED")
              \o InOrder(Deleted, "DELETED")
  IN list \in Seq(Paths \X Types) /\ Once(list) /\ Members(list) = Entered
<1> DEFINE V == Paths \X Types
           m == InOrder(Modified, "MODIFIED")
           c == InOrder(Created, "CREATED")
           d == InOrder(Deleted, "DELETED")
<1>1. /\ Modified \in SUBSET Paths /\ Created \in SUBSET Paths /\ Deleted \in SUBSET Paths
      /\ Paths \subseteq Nat /\ IsFiniteSet(Paths)
  BY ChangesAssumption DEF Modified, Created, Deleted
<1>2. IsFiniteSet(Modified) /\ IsFiniteSet(Created) /\ IsFiniteSet(Deleted)
  BY <1>1, FS_Subset
<1>3. m \in Seq(Modified \X {"MODIFIED"}) /\ Once(m) /\ Members(m) = Modified \X {"MODIFIED"}
  BY <1>1, <1>2, OrderedOnce
<1>4. c \in Seq(Created \X {"CREATED"}) /\ Once(c) /\ Members(c) = Created \X {"CREATED"}
  BY <1>1, <1>2, OrderedOnce
<1>5. d \in Seq(Deleted \X {"DELETED"}) /\ Once(d) /\ Members(d) = Deleted \X {"DELETED"}
  BY <1>1, <1>2, OrderedOnce
<1>6. /\ Modified \X {"MODIFIED"} \subseteq V /\ Created \X {"CREATED"} \subseteq V
      /\ Deleted \X {"DELETED"} \subseteq V
  BY <1>1 DEF Types
<1> HIDE DEF V, m, c, d
<1>7. m \in Seq(V) /\ c \in Seq(V) /\ d \in Seq(V)
  BY <1>3, <1>4, <1>5, <1>6
<1>8. Members(m) \cap Members(c) = {}
  BY <1>3, <1>4
<1>9. m \o c \in Seq(V) /\ Once(m \o c) /\ Members(m \o c) = Members(m) \cup Members(c)
  BY <1>3, <1>4, <1>7, <1>8, Joining
<1>10. Members(m \o c) \cap Members(d) = {}
  BY <1>3, <1>4, <1>5, <1>9
<1>11. /\ (m \o c) \o d \in Seq(V) /\ Once((m \o c) \o d)
       /\ Members((m \o c) \o d) = Members(m \o c) \cup Members(d)
  <2> DEFINE mc == m \o c
  <2>1. mc \in Seq(V) /\ Once(mc) /\ Members(mc) \cap Members(d) = {}
    BY <1>9, <1>10
  <2> HIDE DEF mc
  <2>2. mc \o d \in Seq(V) /\ Once(mc \o d) /\ Members(mc \o d) = Members(mc) \cup Members(d)
    BY <1>5, <1>7, <2>1, Joining
  <2> QED
    BY <2>2 DEF mc
<1>12. Members((m \o c) \o d) = Entered
  BY <1>3, <1>4, <1>5, <1>9, <1>11 DEF Entered
<1> QED
  BY <1>11, <1>12 DEF V, m, c, d
-----------------------------------------------------------------------------
(* The inductive invariant. *)

\* The strengthening holds in the beginning.
LEMMA InitIInv ==
  Init => IInv
<1> SUFFICES ASSUME Init PROVE IInv
  OBVIOUS
<1>1. TypeInv
  <2>1. /\ files \in Workspaces /\ original \in Workspaces /\ manifest \in Workspaces
        /\ copied \in BOOLEAN /\ cut \in BOOLEAN /\ truncated \in BOOLEAN
        /\ snapshot \in Snapshots(original)
    BY DEF Init, Workspaces
  <2>2. unlisted \in SUBSET Paths /\ touched \in SUBSET Paths /\ unread \in SUBSET Paths
    BY DEF Init
  <2>3. stage \in {"idle", "listing", "comparing", "reading", "done", "failed"}
    BY DEF Init
  <2>4. queue \in Seq(Paths \X Types)
    BY DEF Init
  <2>5. baseline \in Workspaces
    <3>1. ASSUME NEW ws \in CutListings(original) PROVE ws \in Workspaces
      <4>1. PICK S \in SUBSET Paths :
              \/ ws = [q \in Paths |-> IF q \in S THEN original[q] ELSE Nothing]
              \/ \E name \in Paths, p \in Paths \ S :
                   ws = [[q \in Paths |-> IF q \in S THEN original[q] ELSE Nothing]
                         EXCEPT ![name] = original[p]]
        BY <3>1 DEF CutListings
      <4>2. CASE ws = [q \in Paths |-> IF q \in S THEN original[q] ELSE Nothing]
        BY <2>1, <4>2 DEF Workspaces
      <4>3. ASSUME NEW name \in Paths, NEW p \in Paths \ S,
                   ws = [[q \in Paths |-> IF q \in S THEN original[q] ELSE Nothing]
                         EXCEPT ![name] = original[p]]
            PROVE  ws \in Workspaces
        BY <2>1, <4>3 DEF Workspaces
      <4> QED
        BY <4>1, <4>2, <4>3
    <3> QED
      BY <2>1, <3>1 DEF Init
  <2> QED
    BY <2>1, <2>2, <2>3, <2>4, <2>5 DEF TypeInv
<1>2. ListingInv
  BY DEF Init, ListingInv
<1>3. QueueInv
  BY DEF Init, QueueInv, Once, Members, Finished
<1>4. ChangesInv
  BY DEF Init, ChangesInv
<1> QED
  BY <1>1, <1>2, <1>3, <1>4 DEF IInv

\* The three ways of going on with the reading.
EndsReading ==
  queue = <<>> /\ stage' = "done" /\ UNCHANGED <<queue, changes, truncated, unread>>

SpendsBudget ==
  queue # <<>> /\ stage' = "done" /\ truncated' = TRUE /\ UNCHANGED <<queue, changes, unread>>

ReadsOne(fails) ==
  LET p == queue[1][1]
      type == queue[1][2]
  IN /\ queue # <<>> /\ queue' = Tail(queue) /\ UNCHANGED <<stage, truncated>>
     /\ fails => type # "DELETED"
     /\ changes' = changes \cup
          {BuildChange(p, type, ReadBaseline(p),
                       IF fails \/ type = "DELETED" THEN Nothing ELSE Current(p))}
     /\ unread' = IF fails THEN unread \cup {p} ELSE unread

\* A step of the reading is one of the three.
LEMMA ReadCases ==
  ASSUME ReadsNext
  PROVE  EndsReading \/ SpendsBudget \/ \E fails \in BOOLEAN : ReadsOne(fails)
<1>1. CASE queue = <<>>
  BY <1>1 DEF ReadsNext, EndsReading
<1>2. CASE queue # <<>> /\ truncated' = TRUE /\ stage' = "done" /\ UNCHANGED <<queue, changes, unread>>
  BY <1>2 DEF SpendsBudget
<1>3. CASE \E fails \in {FALSE, queue[1][2] # "DELETED"} :
             ReadsOne(fails) 
  <2>1. PICK fails \in {FALSE, queue[1][2] # "DELETED"} : ReadsOne(fails)
    BY <1>3
  <2>2. fails \in BOOLEAN
    OBVIOUS
  <2> QED
    BY <2>1, <2>2
<1> QED
  BY <1>1, <1>2, <1>3 DEF ReadsNext, ReadsOne

\* The types are kept.
LEMMA TypeStep ==
  TypeInv /\ [Next]_changesVars => TypeInv'
<1> SUFFICES ASSUME TypeInv, [Next]_changesVars PROVE TypeInv'
  OBVIOUS
<1> USE DEF TypeInv, Workspaces, Snapshots, listing, reference
<1>1. ASSUME NEW p \in Paths, NEW content \in Contents \cup {Nothing}, Writes(p, content)
      PROVE  TypeInv'
  BY <1>1 DEF Writes
<1>2. CASE Begins
  BY <1>2 DEF Begins
<1>3. ASSUME NEW p \in Paths, ListsFile(p) PROVE TypeInv'
  BY <1>3 DEF ListsFile
<1>4. CASE ListingEnds
  <2>1. \/ manifest' = manifest
        \/ \E p \in Paths, name \in Paths : manifest' = [manifest EXCEPT ![name] = files[p]]
    BY <1>4 DEF ListingEnds
  <2>2. manifest' \in Workspaces
    BY <2>1
  <2> QED
    BY <1>4, <2>2 DEF ListingEnds
<1>5. CASE Compares
  <2>1. queue' \in Seq(Paths \X Types)
    BY <1>5, QueueBuilt DEF Compares
  <2> QED
    BY <1>5, <2>1 DEF Compares
<1>6. CASE ReadsNext
  <2>1. UNCHANGED <<files, reference, manifest, unlisted, cut, touched>>
    BY <1>6 DEF ReadsNext
  <2>2. CASE EndsReading
    BY <2>1, <2>2 DEF EndsReading
  <2>3. CASE SpendsBudget
    BY <2>1, <2>3 DEF SpendsBudget
  <2>4. ASSUME NEW fails \in BOOLEAN, ReadsOne(fails) PROVE TypeInv'
    <3>1. queue[1] \in Paths \X Types /\ queue' \in Seq(Paths \X Types)
      BY <2>4 DEF ReadsOne
    <3>2. unread' \in SUBSET Paths
      BY <2>4, <3>1 DEF ReadsOne
    <3> QED
      BY <2>1, <2>4, <3>1, <3>2 DEF ReadsOne
  <2> QED
    BY <1>6, <2>2, <2>3, <2>4, ReadCases
<1>7. CASE UNCHANGED changesVars
  BY <1>7 DEF changesVars
<1> QED
  BY <1>1, <1>2, <1>3, <1>4, <1>5, <1>6, <1>7 DEF Next

\* A file that nobody wrote since the listing began is listed as it is.
LEMMA ListingStep ==
  TypeInv /\ ListingInv /\ [Next]_changesVars => ListingInv'
<1> SUFFICES ASSUME TypeInv, ListingInv, [Next]_changesVars PROVE ListingInv'
  OBVIOUS
<1> USE DEF TypeInv, ListingInv, Workspaces, listing
<1>1. ASSUME NEW p \in Paths, NEW content \in Contents \cup {Nothing}, Writes(p, content)
      PROVE  ListingInv'
  BY <1>1 DEF Writes
<1>2. CASE Begins
  BY <1>2 DEF Begins
<1>3. ASSUME NEW p \in Paths, ListsFile(p) PROVE ListingInv'
  BY <1>3 DEF ListsFile
<1>4. CASE ListingEnds
  BY <1>4 DEF ListingEnds
<1>5. CASE Compares
  BY <1>5 DEF Compares
<1>6. CASE ReadsNext
  BY <1>6 DEF ReadsNext
<1>7. CASE UNCHANGED changesVars
  BY <1>7 DEF changesVars
<1> QED
  BY <1>1, <1>2, <1>3, <1>4, <1>5, <1>6, <1>7 DEF Next

\* The comparison depends on the baseline and the listing only.
LEMMA SameEntered ==
  ASSUME UNCHANGED <<baseline, manifest>>
  PROVE  Entered' = Entered
  BY DEF Entered, Modified, Created, Deleted

\* What is queued, what is done and what was left out make up the comparison.
LEMMA QueueStep ==
  TypeInv /\ QueueInv /\ [Next]_changesVars => QueueInv'
<1> SUFFICES ASSUME TypeInv, QueueInv, [Next]_changesVars PROVE QueueInv'
  OBVIOUS
<1>1. ASSUME UNCHANGED <<baseline, manifest, stage, queue, changes, truncated>> PROVE QueueInv'
  BY <1>1, SameEntered DEF QueueInv, Members, Once, Finished
<1>2. ASSUME NEW p \in Paths, NEW content \in Contents \cup {Nothing}, Writes(p, content)
      PROVE  QueueInv'
  BY <1>1, <1>2 DEF Writes, listing, reference
<1>3. CASE Begins
  BY <1>3 DEF Begins, reference, QueueInv, Members, Once, Finished
<1>4. ASSUME NEW p \in Paths, ListsFile(p) PROVE QueueInv'
  BY <1>4 DEF ListsFile, QueueInv, Members, Once, Finished
<1>5. CASE ListingEnds
  <2>1. /\ stage = "listing" /\ stage' \in {"comparing", "failed"}
        /\ UNCHANGED <<queue, changes, truncated>>
    BY <1>5 DEF ListingEnds
  <2> QED
    BY <2>1 DEF QueueInv, Members, Once, Finished
<1>6. CASE Compares
  <2>1. /\ stage = "comparing" /\ stage' = "reading" /\ changes' = changes
        /\ truncated' = truncated /\ UNCHANGED <<baseline, manifest>>
    BY <1>6 DEF Compares, listing, reference
  <2>2. Once(queue') /\ Members(queue') = Entered
    BY <1>6, QueueBuilt DEF Compares
  <2>3. Finished' = {} /\ Entered' = Entered
    BY <2>1, SameEntered DEF QueueInv, Finished
  <2>4. Once(queue)' /\ Members(queue)' = Entered'
    BY <2>2, <2>3 DEF Once, Members
  <2> QED
    BY <2>1, <2>3, <2>4 DEF QueueInv
<1>7. CASE ReadsNext
  <2>1. stage = "reading" /\ UNCHANGED <<baseline, manifest>>
    BY <1>7 DEF ReadsNext, listing, reference
  <2>2. Entered' = Entered
    BY <2>1, SameEntered
  <2>3. CASE EndsReading
    BY <2>1, <2>2, <2>3 DEF EndsReading, QueueInv, Members, Once, Finished
  <2>4. CASE SpendsBudget
    BY <2>1, <2>2, <2>4 DEF SpendsBudget, QueueInv, Members, Once, Finished
  <2>5. ASSUME NEW fails \in BOOLEAN, ReadsOne(fails) PROVE QueueInv'
    <3> DEFINE p == queue[1][1]
               type == queue[1][2]
               new == BuildChange(p, type, ReadBaseline(p),
                                  IF fails \/ type = "DELETED" THEN Nothing ELSE Current(p))
    <3>1. /\ queue # <<>> /\ queue' = Tail(queue) /\ stage' = "reading" /\ truncated' = truncated
          /\ changes' = changes \cup {new}
      BY <2>1, <2>5 DEF ReadsOne
    <3>2. /\ Tail(queue) \in Seq(Paths \X Types) /\ Once(Tail(queue))
          /\ queue[1] \in Paths \X Types /\ queue[1] \in Members(queue)
          /\ Members(Tail(queue)) = Members(queue) \ {queue[1]}
      BY <3>1, TailOnce DEF TypeInv, QueueInv
    <3>3. new.path = p /\ new.type = type /\ <<p, type>> = queue[1]
      BY <3>2 DEF BuildChange
    <3> HIDE DEF new, p, type
    <3>4. Finished' = Finished \cup {queue[1]}
      BY <3>1, <3>3 DEF Finished
    <3>5. Once(queue)' /\ Members(queue)' = Members(queue) \ {queue[1]}
      BY <3>1, <3>2 DEF Once, Members
    <3> QED
      BY <2>1, <2>2, <3>1, <3>2, <3>4, <3>5 DEF QueueInv
  <2> QED
    BY <1>7, <2>3, <2>4, <2>5, ReadCases
<1>8. CASE UNCHANGED changesVars
  BY <1>1, <1>8 DEF changesVars, listing, reference
<1> QED
  BY <1>2, <1>3, <1>4, <1>5, <1>6, <1>7, <1>8 DEF Next

\* What becomes of a change that has been read: a write marks its file.
LEMMA StaysRead ==
  ASSUME ChangesInv, NEW ch \in changes, UNCHANGED reference,
         unread \subseteq unread', touched \subseteq touched',
         \A p \in Paths : files'[p] = files[p] \/ p \in touched'
  PROVE  Backed(ch)'
<1>1. ch.path \in Paths /\ ch.type \in Types /\ Backed(ch)
  BY DEF ChangesInv, Backed
<1>2. PICK after \in Contents \cup {Nothing} :
        /\ MayBeRead(ch.path, ch.type, after)
        /\ ch = BuildChange(ch.path, ch.type, ReadBaseline(ch.path), after)
  BY <1>1 DEF Backed
<1>3. ReadBaseline(ch.path)' = ReadBaseline(ch.path)
  BY DEF ReadBaseline, reference
<1>4. MayBeRead(ch.path, ch.type, after)'
  BY <1>1, <1>2 DEF MayBeRead, Current
<1> QED
  BY <1>1, <1>2, <1>3, <1>4 DEF Backed

\* A change that was built stays backed by the two versions it was built from.
LEMMA ChangesStep ==
  TypeInv /\ QueueInv /\ ChangesInv /\ [Next]_changesVars => ChangesInv'
<1> SUFFICES ASSUME TypeInv, QueueInv, ChangesInv, [Next]_changesVars PROVE ChangesInv'
  OBVIOUS
<1>1. ASSUME changes' = {} PROVE ChangesInv'
  BY <1>1 DEF ChangesInv
<1>2. ASSUME changes' = changes, UNCHANGED <<files, reference, touched, unread>>
      PROVE  ChangesInv'
  BY <1>2, StaysRead DEF ChangesInv
<1>3. ASSUME NEW p \in Paths, NEW content \in Contents \cup {Nothing}, Writes(p, content)
      PROVE  ChangesInv'
  <2>1. /\ UNCHANGED <<reference, changes, unread>>
        /\ touched' = IF stage = "idle" THEN touched ELSE touched \cup {p}
        /\ files' = [files EXCEPT ![p] = content]
    BY <1>3 DEF Writes
  <2>2. CASE stage = "idle"
    BY <1>1, <2>1, <2>2 DEF QueueInv
  <2>3. CASE stage # "idle"
    <3>1. touched \subseteq touched' /\ \A r \in Paths : files'[r] = files[r] \/ r \in touched'
      BY <2>1, <2>3 DEF TypeInv, Workspaces
    <3> QED
      BY <2>1, <3>1, StaysRead DEF ChangesInv
  <2> QED
    BY <2>2, <2>3
<1>4. CASE Begins
  BY <1>2, <1>4 DEF Begins
<1>5. ASSUME NEW p \in Paths, ListsFile(p) PROVE ChangesInv'
  BY <1>2, <1>5 DEF ListsFile
<1>6. CASE ListingEnds
  BY <1>2, <1>6 DEF ListingEnds
<1>7. CASE Compares
  BY <1>2, <1>7 DEF Compares
<1>8. CASE ReadsNext
  <2>1. UNCHANGED <<files, reference, touched>>
    BY <1>8 DEF ReadsNext
  <2>2. CASE EndsReading
    BY <1>2, <2>1, <2>2 DEF EndsReading
  <2>3. CASE SpendsBudget
    BY <1>2, <2>1, <2>3 DEF SpendsBudget
  <2>4. ASSUME NEW fails \in BOOLEAN, ReadsOne(fails) PROVE ChangesInv'
    <3>1. queue[1] \in Paths \X Types
      BY <2>4 DEF ReadsOne, TypeInv
    <3>2. PICK p \in Paths, type \in Types : queue[1] = <<p, type>>
      BY <3>1
    <3>3. PICK after : after = IF fails \/ type = "DELETED" THEN Nothing ELSE Current(p)
      OBVIOUS
    <3>4. PICK new : new = BuildChange(p, type, ReadBaseline(p), after)
      OBVIOUS
    <3>5. /\ changes' = changes \cup {new} /\ (fails => type # "DELETED")
          /\ unread' = IF fails THEN unread \cup {p} ELSE unread
      BY <2>4, <3>2, <3>3, <3>4 DEF ReadsOne
    <3>6. Current(p)' = Current(p) /\ ReadBaseline(p)' = ReadBaseline(p)
      BY <2>1 DEF Current, ReadBaseline, reference
    <3>7. after \in Contents \cup {Nothing}
      BY <3>3 DEF TypeInv, Workspaces, Current
    <3>8. MayBeRead(p, type, after)'
      BY <3>3, <3>5, <3>6 DEF MayBeRead
    <3>9. new.path = p /\ new.type = type
      BY <3>4 DEF BuildChange
    <3>10. Backed(new)'
      BY <3>4, <3>6, <3>7, <3>8, <3>9 DEF Backed
    <3>11. \A ch \in changes : Backed(ch)'
      BY <2>1, <3>5, StaysRead
    <3> QED
      BY <3>5, <3>10, <3>11 DEF ChangesInv
  <2> QED
    BY <1>8, <2>2, <2>3, <2>4, ReadCases
<1>9. CASE UNCHANGED changesVars
  BY <1>2, <1>9 DEF changesVars
<1> QED
  BY <1>3, <1>4, <1>5, <1>6, <1>7, <1>8, <1>9 DEF Next

\* The strengthening that every step keeps.
THEOREM ChangesInvariant ==
  Spec => []IInv
<1>1. IInv /\ [Next]_changesVars => IInv'
  BY TypeStep, ListingStep, QueueStep, ChangesStep DEF IInv
<1> QED
  BY InitIInv, <1>1, PTL DEF Spec
-----------------------------------------------------------------------------
\* So the answer of an inspection that ended is exact.
LEMMA ExactFromInv ==
  IInv => ChangesAreExact
<1> SUFFICES ASSUME IInv, stage = "done"
             PROVE  /\ ~cut => \A p \in Paths \ (touched \cup Misjudged) :
                         /\ p \in Listed <=> files[p] # original[p]
                         /\ p \in Deleted <=> files[p] = Nothing /\ original[p] # Nothing
                         /\ p \in Modified => files[p] # Nothing
                    /\ \A p \in Listed :
                         Cardinality({type \in {"MODIFIED", "CREATED", "DELETED"} :
                                        \E ch \in changes : ch.path = p /\ ch.type = type})
                         = IF \E ch \in changes : ch.path = p THEN 1 ELSE 0
                    /\ {ch.path : ch \in changes} \subseteq Listed
                    /\ truncated <=> {ch.path : ch \in changes} # Listed
  BY DEF ChangesAreExact
<1>1. ASSUME ~cut, NEW p \in Paths \ (touched \cup Misjudged)
      PROVE  /\ p \in Listed <=> files[p] # original[p]
             /\ p \in Deleted <=> files[p] = Nothing /\ original[p] # Nothing
             /\ p \in Modified => files[p] # Nothing
  <2>1. manifest[p] = files[p] /\ baseline[p] = original[p]
    BY <1>1 DEF IInv, ListingInv, Misjudged
  <2> QED
    BY <2>1 DEF Listed, Modified, Created, Deleted
<1>2. Entered = Members(queue) \cup Finished /\ Members(queue) \cap Finished = {}
  BY DEF IInv, QueueInv
<1>3. ASSUME NEW ch \in changes PROVE <<ch.path, ch.type>> \in Entered
  BY <1>2 DEF Finished
<1>4. \A pair \in Entered : pair[1] \in Listed /\ pair = <<pair[1], pair[2]>>
  BY DEF Entered, Listed
<1>5. \A p \in Listed : \E type \in Types : <<p, type>> \in Entered
  BY DEF Entered, Listed, Types
<1>6. \A p, t, u : <<p, t>> \in Entered /\ <<p, u>> \in Entered => t = u
  BY DEF Entered, Modified, Created, Deleted
<1>7. {ch.path : ch \in changes} \subseteq Listed
  BY <1>3, <1>4
<1>8. ASSUME NEW p \in Listed
      PROVE  Cardinality({type \in {"MODIFIED", "CREATED", "DELETED"} :
                            \E ch \in changes : ch.path = p /\ ch.type = type})
             = IF \E ch \in changes : ch.path = p THEN 1 ELSE 0
  <2> DEFINE told == {type \in {"MODIFIED", "CREATED", "DELETED"} :
                        \E ch \in changes : ch.path = p /\ ch.type = type}
  <2>1. CASE \E ch \in changes : ch.path = p
    <3>1. PICK ch \in changes : ch.path = p
      BY <2>1
    <3>2. ch.type \in Types
      BY DEF IInv, ChangesInv, Backed
    <3>3. told = {ch.type}
      BY <1>3, <1>6, <3>1, <3>2 DEF Types
    <3> QED
      BY <2>1, <3>3, FS_Singleton
  <2>2. CASE ~ \E ch \in changes : ch.path = p
    <3>1. told = {}
      BY <2>2
    <3> QED
      BY <2>2, <3>1, FS_EmptySet
  <2> QED
    BY <2>1, <2>2
<1>9. truncated <=> queue # <<>>
  BY DEF IInv, QueueInv
<1>10. ASSUME queue = <<>> PROVE {ch.path : ch \in changes} = Listed
  <2>1. Members(queue) = {}
    BY <1>10 DEF Members
  <2>2. Entered = Finished
    BY <1>2, <2>1
  <2>3. ASSUME NEW p \in Listed PROVE p \in {ch.path : ch \in changes}
    <3>1. PICK type \in Types : <<p, type>> \in Finished
      BY <1>5, <2>2
    <3> QED
      BY <3>1 DEF Finished
  <2> QED
    BY <1>7, <2>3
<1>11. ASSUME queue # <<>> PROVE {ch.path : ch \in changes} # Listed
  <2>1. queue[1] \in Members(queue)
    BY <1>11, TailOnce DEF IInv, TypeInv, QueueInv
  <2>2. queue[1] \in Entered /\ queue[1] \notin Finished
    BY <1>2, <2>1
  <2>3. queue[1][1] \in Listed /\ queue[1] = <<queue[1][1], queue[1][2]>>
    BY <1>4, <2>2
  <2>4. ASSUME NEW ch \in changes PROVE ch.path # queue[1][1]
    <3>1. <<ch.path, ch.type>> \in Finished
      BY DEF Finished
    <3> QED
      BY <1>3, <1>6, <2>2, <2>3, <3>1
  <2> QED
    BY <2>3, <2>4
<1> QED
  BY <1>1, <1>7, <1>8, <1>9, <1>10, <1>11

\* So the sides of a diff are the versions that were there.
LEMMA DiffsFromInv ==
  IInv => DiffsAreTrue
<1> SUFFICES ASSUME IInv, NEW ch \in changes, copied, ~cut, ch.path \notin touched
             PROVE  LET p == ch.path IN
                    /\ ch.body = "diff" =>
                         /\ \/ ch.from = original[p]
                            \/ ch.from = Nothing /\ original[p] \in Large
                            \/ p \in Linked
                         /\ ch.to = files[p]
                              \/ (ch.to = Nothing /\ (p \in unread \/ files[p] \in Large))
                    /\ ch.type = "DELETED" /\ original[p] \notin {Nothing} \cup Large \cup Binary =>
                         ch.body = "diff"
  BY DEF DiffsAreTrue
<1> DEFINE p == ch.path
           type == ch.type
<1>1. PICK after \in Contents \cup {Nothing} :
        MayBeRead(p, type, after) /\ ch = BuildChange(p, type, ReadBaseline(p), after)
  BY DEF IInv, ChangesInv, Backed
<1>2. p \in Paths /\ type \in Types
  BY DEF IInv, ChangesInv, Backed
<1>3. stage \in {"reading", "done"} /\ <<p, type>> \in Entered
  BY DEF IInv, QueueInv, Finished
<1>4. manifest[p] = files[p]
  BY <1>2, <1>3 DEF IInv, ListingInv
<1>5. type = "DELETED" => files[p] = Nothing
  BY <1>3, <1>4 DEF Entered, Deleted
<1>6. ch.from = ReadBaseline(p) /\ ch.to = after
  BY <1>1 DEF BuildChange
<1>7. (ch.from = original[p]) \/ (ch.from = Nothing /\ original[p] \in Large) \/ p \in Linked
  <2>1. original[p] # Nothing => snapshot[p] = original[p]
    BY <1>2 DEF IInv, TypeInv, Snapshots
  <2>2. p \notin Linked => snapshot[p] = original[p]
    BY <1>2, <2>1 DEF Linked
  <2> QED
    BY <1>6, <2>2 DEF ReadBaseline
<1>8. ch.to = files[p] \/ (ch.to = Nothing /\ (p \in unread \/ files[p] \in Large))
  BY <1>1, <1>5, <1>6 DEF MayBeRead, Current
<1>9. ASSUME type = "DELETED", original[p] \notin {Nothing} \cup Large \cup Binary
      PROVE  ch.body = "diff"
  <2>1. snapshot[p] = original[p]
    BY <1>2, <1>9 DEF IInv, TypeInv, Snapshots
  <2>2. ReadBaseline(p) = original[p] /\ after = Nothing
    BY <1>1, <1>9, <2>1 DEF ReadBaseline, MayBeRead
  <2> QED
    BY <1>1, <1>9, <2>2 DEF BuildChange
<1> QED
  BY <1>7, <1>8, <1>9

\* inspect_changes, for any files, contents, budget of diffs and writes in between: the answer
\* names a file exactly when it differs from what it was at the beginning, under the right heading,
\* unless it was written to meanwhile or a listing was cut off; and every file it names has its one change, or
\* the answer says that there are more.
THEOREM ExactAlways ==
  Spec => []ChangesAreExact
  BY ChangesInvariant, ExactFromInv, PTL

\* _build_change, for any files, contents, budget of diffs and writes in between: a diff has the
\* two versions of its file on its sides, as far as they could be read, and a deleted text has one;
\* only where a link was may the earlier side be what the link leads to on the host.
THEOREM DiffsTrueAlways ==
  Spec => []DiffsAreTrue
  BY ChangesInvariant, DiffsFromInv, PTL
=============================================================================
