----------------------------- MODULE MCFunctions -----------------------------
(* The stateless parts over bounded inputs, one input per behaviour; and the    *)
(* inspection of Changes, which runs while there is no other input.             *)
EXTENDS Changes, Policy, Filesystem, Artifacts, TestRuns, Reports, Output, TLC

CONSTANTS plain, credential, malformed, readme, lib, secret, cache, docs, notes

VARIABLE input

MCInit == Init /\ input = [kind |-> "none"]

Draws(kind, value) ==
  /\ input' = [kind |-> kind, value |-> value]
  /\ UNCHANGED changesVars

Option(values) == {{}} \cup {{v} : v \in values}

Amount(n, unit) == [amount |-> n, unit |-> unit]

\* Around the floor, the ceiling and the units; "q" is no unit.
DrawLimits ==
  \E cpu \in Option({-1, 0, 1, 2, 7, 8, 9}), timeout \in Option({0, 1, 5, 6}), pids \in Option({0, 1, 3, 4}),
     memory \in Option({Amount(5, "m"), Amount(6, "m"), Amount(6145, "k"), Amount(1, "g"),
                        Amount(2, "g"), Amount(7, "q")}),
     defaults \in {1, 9}, own \in Option({-1, 0, 3, 9}) :
    Draws("limits",
      [request |-> [cpu |-> cpu, memory |-> memory, timeout |-> timeout, pids |-> pids],
       own |-> own,
       settings |-> [cpu |-> defaults, maxCpu |-> 8, memory |-> Amount(8 * defaults, "m"),
                     maxMemory |-> Amount(16, "m"), timeout |-> defaults, maxTimeout |-> 5,
                     pids |-> defaults, maxPids |-> 3]])

DrawImage ==
  \E ref \in Option(BoundedSeq({"n", "x", "/", ":"}, 4)), any \in BOOLEAN,
     prefixes \in {{<<"n">>}, {<<"n", "/", "x">>}, {<<"n">>, <<"x", "/", "n">>}} :
    Draws("image", [ref |-> ref,
                    settings |-> [image |-> <<"n">>, anyImage |-> any, prefixes |-> prefixes]])

DrawEnvironment ==
  \E entries \in BoundedSeq([name : {plain, credential, malformed}, value : Option({1, 2})], 3),
     host \in {[n \in {plain, credential} |-> 3], [n \in {credential} |-> 3]}, strict \in BOOLEAN :
    Draws("environment", [entries |-> entries, host |-> host, settings |-> [strict |-> strict]])

DrawPath ==
  \E parts \in BoundedSeq({"..", "w", "x"}, 5), absolute \in BOOLEAN,
     workspace \in {<<"w">>, <<"w", "x">>} :
    Draws("path", [raw |-> [parts |-> parts, absolute |-> absolute], workspace |-> workspace])

Entry(path, kind, size) == [path |-> path, kind |-> kind, size |-> size]

Project ==
  {Entry(<<readme>>, "file", 2), Entry(<<lib, readme>>, "file", 1), Entry(<<lib, secret>>, "file", 1),
   Entry(<<secret, readme>>, "file", 1), Entry(<<cache>>, "file", 1), Entry(<<notes>>, "link", 0),
   Entry(<<secret>>, "link", 0), Entry(<<docs>>, "linkToDirectory", 0), Entry(<<lib, docs>>, "other", 0),
   Entry(<<cache>>, "unreadable", 1), Entry(<<lib, notes>>, "unreadable", 1),
   Entry(<<lib, cache>>, "uncopied", 1), Entry(<<docs, lib>>, "uncopied", 1)}

DrawWalk ==
  \E walk \in UNION {[1 .. n -> Project] : n \in 0 .. 3}, excludes \in {{}, {cache}},
     limits \in {[files |-> 1, bytes |-> 9], [files |-> 2, bytes |-> 2], [files |-> 9, bytes |-> 3]} :
    /\ \A i, j \in DOMAIN walk : walk[i] = walk[j] => i = j
    /\ Draws("walk", [walk |-> walk, excludes |-> excludes, limits |-> limits])

Line(path, inside) == [path |-> path, inside |-> inside]

Pattern(text, lawful, breaks, prints) ==
  [text |-> text, lawful |-> lawful, breaks |-> breaks, prints |-> prints]

DrawPatterns ==
  \E patterns \in BoundedSeq({Pattern("1", TRUE, FALSE, <<>>),
                              Pattern("2", TRUE, FALSE, <<Line(readme, TRUE), Line(lib, TRUE)>>),
                              Pattern("3", TRUE, FALSE, <<Line(notes, FALSE), Line(lib, TRUE), Line(docs, TRUE)>>),
                              Pattern("4", FALSE, FALSE, <<Line(cache, TRUE)>>),
                              Pattern("5", TRUE, TRUE, <<>>)}, 3),
     unreadable \in SUBSET {readme, lib}, limit \in 1 .. 3 :
  \E output \in Outputs(patterns, {Line(lib, TRUE), Line(cache, TRUE)}) :
    Draws("patterns", [patterns |-> patterns, output |-> output, unreadable |-> unreadable,
                       limit |-> limit])

DrawTestRun ==
  \E present \in {{}, {"Cargo.toml"}, {"go.mod"}, {"package.json"}, {"tox.ini", "Makefile"}},
     noise \in 0 .. 6, run \in [passed : 0 .. 2, failed : 0 .. 2, errors : 0 .. 2, skipped : 0 .. 1] :
  \E runner \in Starts(ChooseFramework(present)) :
    Draws("tests", [present |-> present, runner |-> runner, run |-> run, noise |-> noise])

Job(kind, status, exit, testsFailed) ==
  [kind |-> kind, status |-> status, exit |-> exit, testsFailed |-> testsFailed]

\* Tests that pass, fail, are cut off by the timeout or say nothing; commands that succeed,
\* fail or are cancelled.
SomeJobs ==
  {Job("test", "COMPLETED", 0, 0), Job("test", "COMPLETED", 1, 1), Job("test", "TIMEOUT", -1, 0),
   Job("test", "COMPLETED", 0, -1), Job("command", "COMPLETED", 0, -1),
   Job("command", "FAILED", -1, -1), Job("command", "CANCELLED", -1, -1)}

DrawExperiments ==
  \E n \in 2 .. 3 :
  \E some \in [1 .. n -> [jobs : BoundedSeq(SomeJobs, IF n = 2 THEN 2 ELSE 1),
                         stored : IF n = 2 THEN {-1, 1} ELSE {-1}, inspected : {-1, 0}]] :
    Draws("experiments",
      [i \in 1 .. n |-> [id |-> i, jobs |-> some[i].jobs, stored |-> some[i].stored,
                        inspected |-> some[i].inspected, destroyed |-> i = 1]])

DrawSpec ==
  \E image \in Option({<<"n">>, <<"x">>}), network \in Option({"none", "open"}),
     strategy \in Option(Strategies \cup {"MOVE"}), writable, writableMounts \in BOOLEAN,
     pids \in Option({0, 3}), default \in Strategies :
    Draws("spec",
      [request |-> [image |-> image, network |-> network, strategy |-> strategy,
                    writable |-> writable, environment |-> <<>>, cpu |-> {}, memory |-> {},
                    timeout |-> {}, pids |-> pids],
       settings |-> [image |-> <<"n">>, anyImage |-> FALSE, prefixes |-> {<<"n">>},
                     network |-> "restricted", strategy |-> default, strict |-> TRUE,
                     writableMounts |-> writableMounts, cpu |-> 2, maxCpu |-> 8,
                     memory |-> Amount(8, "m"), maxMemory |-> Amount(16, "m"), timeout |-> 3,
                     maxTimeout |-> 5, pids |-> 3, maxPids |-> 3]])

DrawChunks ==
  \E chunks \in BoundedSeq(1 .. 3, 4), max \in 1 .. 5 :
    Draws("chunks", [chunks |-> chunks, max |-> max])

\* An input is drawn instead of an inspection; one workspace is enough for that.
Draw ==
  /\ input.kind = "none" /\ stage = "idle" /\ writes = 0 /\ copied
  /\ \A p \in Paths : files[p] = Nothing /\ snapshot[p] = Nothing
  /\ \/ DrawLimits \/ DrawImage \/ DrawEnvironment \/ DrawPath \/ DrawWalk \/ DrawPatterns
     \/ DrawTestRun \/ DrawExperiments \/ DrawSpec \/ DrawChunks

MCNext == Draw \/ (input.kind = "none" /\ Next /\ UNCHANGED input)

MCSpec == MCInit /\ [][MCNext]_<<changesVars, input>>
-----------------------------------------------------------------------------
Of(kind) == input.kind = kind

\* Policy: the limits of a container, and the timeouts of the commands that name none, never
\* pass the ceilings; a request is granted as a whole or not at all.
CeilingsHold ==
  /\ Of("limits") =>
       /\ WithinCeilings(input.value.request, input.value.settings)
       /\ UnaskedWithinCeiling(input.value.own, input.value.request, input.value.settings)
  /\ Of("spec") => SpecIsWhole(input.value.request, <<>>, input.value.settings)

\* Policy: no command gets more time than the ceiling (the code does not see to it).
CommandsWithinCeiling ==
  Of("limits") =>
    CommandWithinCeiling(input.value.own, input.value.request, input.value.settings)

\* Policy: the allowlist of images works by components.
ImagesByComponent == Of("image") => ImageBelowPrefix(input.value.ref, input.value.settings)

\* Policy: the environment is what the allowlist says, no more and no less.
EnvironmentFiltered ==
  Of("environment") =>
    EnvironmentExact(input.value.entries, input.value.host, input.value.settings)

\* Filesystem: a path inside the sandbox is confined to the workspace.
PathsConfined == Of("path") => PathConfined(input.value.raw, input.value.workspace)

\* Filesystem: a snapshot has neither secrets nor more than the limits, complete or not.
SnapshotsAreExact ==
  Of("walk") => SnapshotIsExact(input.value.walk, input.value.excludes, input.value.limits)

\* Artifacts: what the patterns name is collected or skipped.
ArtifactsAreAccounted ==
  Of("patterns") =>
    ArtifactsAccounted(input.value.patterns, input.value.output, input.value.unreadable,
                       input.value.limit)

\* TestRuns: the summary of a test run is that of its runner.
SummariesAreTrue ==
  Of("tests") => SummaryIsTrue(input.value.present, input.value.runner, input.value.run,
                                 input.value.noise,
                                 [passed |-> 3, failed |-> 0, errors |-> 0, skipped |-> 0])

\* Reports: nobody does better than the experiment that is recommended, and a comparison says
\* of an experiment what its report says.
WinnersAreBest ==
  Of("experiments") =>
    /\ WinnerIsBest([i \in DOMAIN input.value |-> Compared(input.value[i])])
    /\ \A i \in DOMAIN input.value : ReportsAgree(input.value[i])

\* Output: what is captured is capped, and truncation is told.
OutputIsCapped == Of("chunks") => OutputCapped(input.value.chunks, input.value.max)
=============================================================================
