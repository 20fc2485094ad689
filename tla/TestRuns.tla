------------------------------ MODULE TestRuns ------------------------------
(* experiments/testing.py: which test runner a project has, and what its       *)
(* output says. An output is given by what the regular expressions find in it: *)
(* the numbers after "# pass" and so on, in the order they appear.             *)
EXTENDS Integers, SequencesExt

\* FRAMEWORKS, in their order, with the files that tell them, and whether the command is one
\* after which the tool is quiet: "pytest -q", and "go test" without -v.
Frameworks ==
  <<[name |-> "cargo", quiet |-> FALSE, markers |-> {"Cargo.toml"}],
    [name |-> "go", quiet |-> TRUE, markers |-> {"go.mod"}],
    [name |-> "npm", quiet |-> FALSE, markers |-> {"package.json"}],
    [name |-> "pytest", quiet |-> TRUE,
     markers |-> {"pytest.ini", "tox.ini", "setup.cfg", "pyproject.toml"}],
    [name |-> "make", quiet |-> FALSE, markers |-> {"Makefile"}]>>

\* choose_framework: the first one with a marker; the empty set stands for none.
ChooseFramework(present) ==
  LET i == SelectInSeq(Frameworks, LAMBDA f : f.markers \cap present # {})
  IN {Frameworks[k] : k \in {i} \ {0}}

-----------------------------------------------------------------------------
\* The first number of a search, 0 without one.
First(found) == IF found = <<>> THEN 0 ELSE found[1]

Total(numbers) == FoldLeft(+, 0, numbers)

Summary(framework, total, passed, failed, skipped) ==
  [framework |-> framework, total |-> total, passed |-> passed, failed |-> failed,
   skipped |-> skipped]

\* The parsers: a set of no or one summary. Each looks for its runner's own words.
ParseTap(out) ==
  IF out.tapPass = <<>> /\ out.tapFail = <<>> THEN {}
  ELSE {Summary("node:test",
                IF out.tapTotal = <<>> THEN First(out.tapPass) + First(out.tapFail)
                                       ELSE First(out.tapTotal),
                First(out.tapPass), First(out.tapFail), First(out.tapSkip))}

ParseJest(out) ==
  {Summary("jest", line.total, line.passed, line.failed, line.skipped + line.todo) :
     line \in {out.jest[i] : i \in DOMAIN out.jest \cap {1}}}

\* The counts are taken from the whole output, whoever printed them: the last one of a kind
\* stands.
LastCount(out, kind) ==
  LET last == SelectLastInSeq(out.pytestCounts, LAMBDA c : c.kind = kind)
  IN IF last = 0 THEN 0 ELSE out.pytestCounts[last].n

\* Faulty variant: errors are not failures.
ParsePytestCareless(out) ==
  IF ~out.pytestSummary THEN {}
  ELSE LET passed == LastCount(out, "passed")
           failed == LastCount(out, "failed")
           skipped == LastCount(out, "skipped")
       IN {Summary("pytest", passed + failed + skipped, passed, failed, skipped)}

ParsePytest(out) ==
  IF ~out.pytestSummary THEN {}
  ELSE LET passed == LastCount(out, "passed")
           failed == LastCount(out, "failed") + LastCount(out, "error") + LastCount(out, "errors")
           skipped == LastCount(out, "skipped")
       IN {Summary("pytest", passed + failed + skipped, passed, failed, skipped)}

\* One line for every test binary.
ParseCargo(out) ==
  IF out.cargo = <<>> THEN {}
  ELSE LET sum(field) == Total([i \in DOMAIN out.cargo |-> out.cargo[i][field]])
       IN {Summary("cargo", sum("passed") + sum("failed") + sum("ignored"), sum("passed"),
                   sum("failed"), sum("ignored"))}

ParseGo(out) ==
  IF out.goPass = 0 /\ out.goFail = 0 THEN {}
  ELSE {Summary("go", out.goPass + out.goFail, out.goPass, out.goFail, 0)}

ParseMocha(out) ==
  IF out.mochaPass = <<>> /\ out.mochaFail = <<>> THEN {}
  ELSE {Summary("mocha", First(out.mochaPass) + First(out.mochaFail) + First(out.mochaPending),
                First(out.mochaPass), First(out.mochaFail), First(out.mochaPending))}

\* The more specific formats come first.
ParseTestOutput(out) ==
  LET answers == <<ParseTap(out), ParseJest(out), ParsePytest(out), ParseCargo(out),
                   ParseGo(out), ParseMocha(out)>>
      i == SelectInSeq(answers, LAMBDA a : a # {})
  IN IF i = 0 THEN {} ELSE answers[i]
-----------------------------------------------------------------------------
(* What the test tools print after a run; they are not part of the repository. *)

NoOutput ==
  [tapPass |-> <<>>, tapFail |-> <<>>, tapSkip |-> <<>>, tapTotal |-> <<>>, jest |-> <<>>,
   pytestSummary |-> FALSE, pytestCounts |-> <<>>, cargo |-> <<>>, goPass |-> 0, goFail |-> 0,
   mochaPass |-> <<>>, mochaFail |-> <<>>, mochaPending |-> <<>>]

Runners == <<"node:test", "jest", "pytest", "cargo", "go", "mocha">>

\* The tools a command of FRAMEWORKS, or one the client gives, may start.
Starts(chosen) ==
  IF \E f \in chosen : f.name \in {"cargo", "go", "pytest"} THEN {f.name : f \in chosen}
  ELSE IF \E f \in chosen : f.name = "npm" THEN {"node:test", "jest", "mocha"}
  ELSE {Runners[i] : i \in DOMAIN Runners}

Part(kind, n) == [kind |-> kind, n |-> n]

\* A kind of result, if there are any.
Counted(kind, n) == IF n > 0 THEN <<Part(kind, n)>> ELSE <<>>

\* pytest names only the kinds that occur, between "=" unless it is quiet; cargo prints a line
\* per test binary, here the second one has the failures; a quiet go names failures only. The
\* counts of jest and cargo have the form of pytest's, and are found by its expression too.
Words(runner, run, quiet) ==
  CASE runner = "node:test" ->
         [tapTotal |-> <<run.passed + run.failed + run.skipped>>,
          tapPass |-> <<run.passed>>, tapFail |-> <<run.failed>>, tapSkip |-> <<run.skipped>>]
    [] runner = "jest" ->
         [jest |-> <<[passed |-> run.passed, failed |-> run.failed, skipped |-> run.skipped,
                      todo |-> 0, total |-> run.passed + run.failed + run.skipped]>>,
          pytestCounts |-> Counted("failed", run.failed) \o Counted("skipped", run.skipped)
                             \o Counted("passed", run.passed)]
    [] runner = "pytest" ->
         [pytestSummary |-> ~quiet /\ run.passed + run.failed + run.errors > 0,
          pytestCounts |-> Counted("failed", run.failed) \o Counted("passed", run.passed)
                             \o Counted("skipped", run.skipped)
                             \o Counted(IF run.errors = 1 THEN "error" ELSE "errors", run.errors)]
    [] runner = "cargo" ->
         [cargo |-> <<[passed |-> run.passed, failed |-> 0, ignored |-> 0],
                      [passed |-> 0, failed |-> run.failed, ignored |-> run.skipped]>>,
          pytestCounts |-> <<Part("passed", run.passed), Part("failed", 0), Part("passed", 0),
                             Part("failed", run.failed)>>]
    [] runner = "go" -> [goPass |-> IF quiet THEN 0 ELSE run.passed, goFail |-> run.failed]
    [] runner = "mocha" ->
         [mochaPass |-> <<run.passed>>,
          mochaFail |-> IF run.failed = 0 THEN <<>> ELSE <<run.failed>>,
          mochaPending |-> IF run.skipped = 0 THEN <<>> ELSE <<run.skipped>>]

\* The words of a tool, and nothing else.
Prints(runner, run, quiet) ==
  LET words == Words(runner, run, quiet)
  IN [field \in DOMAIN NoOutput |-> IF field \in DOMAIN words THEN words[field] ELSE NoOutput[field]]

\* The output of one tool, and after it that of another: a search finds the first's words if
\* there are any, and pytest's expression finds the counts of both.
Mixed(out, other) ==
  [field \in DOMAIN NoOutput |->
     IF field = "pytestCounts" THEN out[field] \o other[field]
     ELSE IF out[field] # NoOutput[field] THEN out[field] ELSE other[field]]

\* What cargo has counted passes for pytest's counts.
Misled(runner, noise) == runner = "pytest" /\ noise # 0 /\ Runners[noise] = "cargo"

\* "Best effort, never a lie": the summary of a tool that is not quiet has the counts of the
\* run, errors being failures, also when the output goes on in a format that is tried later; no
\* summary means that the run had nothing the runner reports. Whatever command run_tests
\* chose, the failures a tool's own summary tells are those of the run. It is a lie when the
\* words are of a format tried earlier, when a tool reports twice, and when cargo's counts
\* follow pytest's.
SummaryIsTrue(present, runner, run, noise, noisy) ==
  LET quiet == \E f \in ChooseFramework(present) : f.quiet
      rank == SelectInSeq(Runners, LAMBDA r : r = runner)
      failed == run.failed + (IF runner = "pytest" THEN run.errors ELSE 0)
      skipped == IF runner = "go" THEN 0 ELSE run.skipped
      out == Prints(runner, run, quiet)
      answers == ParseTestOutput(IF noise > rank THEN Mixed(out, Prints(Runners[noise], noisy, FALSE))
                                                 ELSE out)
  IN ~Misled(runner, noise) =>
       /\ run.passed + failed > 0 /\ ~quiet =>
            answers = {Summary(runner, run.passed + failed + skipped, run.passed, failed, skipped)}
       /\ \A a \in answers : a.framework = runner => a.failed = failed
=============================================================================
