------------------------------ MODULE Artifacts ------------------------------
(* artifacts/manager.py: patterns are expanded in the sandbox, the files they  *)
(* name are copied out.                                                        *)
EXTENDS Integers, SequencesExt

\* A pattern is lawful, or blank, absolute or with a ".."; it may break the shell's syntax; it
\* names files, which the shell prints, each a line with a path inside the workspace or outside.

\* What `execute` may give back of the one command that all lawful patterns make up: nothing if
\* one of them is no shell; or what they name; or the beginning of that, if the output was
\* capped or the time was over, with or without the stump of a line. Of all this _expand, which
\* looks for exit code 3 alone, learns nothing.
Outputs(patterns, stumps) ==
  LET lawful == SelectSeq(patterns, LAMBDA pattern : pattern.lawful)
      named == FlattenSeq([i \in DOMAIN lawful |-> lawful[i].prints])
      cut == {SubSeq(named, 1, n) : n \in 0 .. Len(named) - 1}
  IN IF \E i \in DOMAIN lawful : lawful[i].breaks THEN {<<>>}
     ELSE {named} \cup cut \cup {Append(short, stump) : short \in cut, stump \in stumps}

\* Faulty variant: a file counts once for every line that names it.
TakesAgain(found, line) ==
  IF line.inside THEN [found EXCEPT !.matches = Append(@, line.path)]
                 ELSE [found EXCEPT !.skipped = @ \cup {line.path}]

\* One line of the output.
TakesLine(found, line) ==
  IF ~line.inside THEN [found EXCEPT !.skipped = @ \cup {line.path}]
  ELSE IF Contains(found.matches, line.path) THEN found
  ELSE [found EXCEPT !.matches = Append(@, line.path)]

Refused(patterns) == {patterns[i].text : i \in {j \in DOMAIN patterns : ~patterns[j].lawful}}

NoMatch == "no files matched the requested patterns"

\* _expand: what the command printed, each file once, the rest skipped; if there is nothing at
\* all, the answer says so, unless no pattern was given.
Expand(patterns, output) ==
  LET found == FoldLeft(TakesLine, [matches |-> <<>>, skipped |-> Refused(patterns)], output)
  IN IF patterns # <<>> /\ found.matches = <<>> /\ found.skipped = {}
     THEN [found EXCEPT !.skipped = {NoMatch}]
     ELSE found

\* The loop of collect: the file that finds the limit reached is skipped and ends it, a file
\* that cannot be read is skipped.
TakesFile(done, path, unreadable, limit) ==
  IF done.ended THEN done
  ELSE IF Len(done.collected) >= limit
    THEN [done EXCEPT !.skipped = @ \cup {path}, !.ended = TRUE]
  ELSE IF path \in unreadable THEN [done EXCEPT !.skipped = @ \cup {path}]
  ELSE [done EXCEPT !.collected = Append(@, path)]

Collect(patterns, output, unreadable, limit) ==
  LET found == Expand(patterns, output)
  IN FoldLeft(LAMBDA done, path : TakesFile(done, path, unreadable, limit),
              [collected |-> <<>>, skipped |-> found.skipped, ended |-> FALSE], found.matches)

\* One call stores no more files than the limit, each once, none from outside the workspace and
\* none it could not read. Everything the shell printed is answered for, as collected or as
\* skipped, up to the file that came when the limit was reached; what would have come after it
\* goes unmentioned, and only then does anything. Lawful patterns of which nothing was printed,
\* be it that they name nothing or that one of them broke the command, are told to match nothing.
ArtifactsAccounted(patterns, output, unreadable, limit) ==
  LET result == Collect(patterns, output, unreadable, limit)
      got == {result.collected[i] : i \in DOMAIN result.collected}
      printed == {output[i] : i \in DOMAIN output}
      inside == {line.path : line \in {l \in printed : l.inside}}
  IN /\ Len(result.collected) <= limit
     /\ Cardinality(got) = Len(result.collected)
     /\ got \subseteq inside \ unreadable
     /\ ({line.path : line \in printed} \ inside) \cup Refused(patterns) \subseteq result.skipped
     /\ result.ended => Len(result.collected) = limit /\ result.skipped \cap inside # {}
     /\ ~result.ended => inside \subseteq got \cup result.skipped
     /\ patterns # <<>> /\ Refused(patterns) = {} /\ output = <<>> => result.skipped = {NoMatch}
=============================================================================
