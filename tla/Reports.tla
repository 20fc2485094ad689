------------------------------- MODULE Reports -------------------------------
(* The figures of experiments/manager.py: what report and compare say of the    *)
(* jobs and changes of an experiment, and which one a comparison recommends. A  *)
(* figure that is not known is Unknown.                                         *)
EXTENDS Integers, SequencesExt

\* Stands for None; every number known is at least 0.
Unknown == -1

\* _job_failed: a completed job without an exit code did not fail, a cancelled one neither.
JobFailed(job) ==
  \/ job.status = "COMPLETED" /\ job.exit \notin {0, Unknown}
  \/ job.status \in {"FAILED", "TIMEOUT"}

FailedCommands(jobs) == Cardinality({i \in DOMAIN jobs : JobFailed(jobs[i])})

\* _last_test_summary: the last test job, whatever became of it; what its output says.
TestsFailed(jobs) ==
  LET i == SelectLastInSeq(jobs, LAMBDA j : j.kind = "test")
  IN IF i = 0 THEN Unknown ELSE jobs[i].testsFailed

LastExit(jobs) == IF jobs = <<>> THEN Unknown ELSE jobs[Len(jobs)].exit

\* An experiment here: its jobs in the order of the rows, the figures the last inspection
\* stored, and what an inspection would find now, Unknown if it fails.
Compared(e) ==
  [id |-> e.id, testsFailed |-> TestsFailed(e.jobs), exit |-> LastExit(e.jobs),
   failedCommands |-> FailedCommands(e.jobs),
   filesChanged |-> IF e.stored # Unknown \/ e.destroyed THEN e.stored ELSE e.inspected]

\* report looks again as long as there is a sandbox.
Reported(e) ==
  [testsFailed |-> TestsFailed(e.jobs), failedCommands |-> FailedCommands(e.jobs),
   filesChanged |-> IF e.destroyed \/ e.inspected = Unknown THEN e.stored ELSE e.inspected]

OrIfUnknown(n, other) == IF n = Unknown THEN other ELSE n

\* Bound: 999 in the code; no instance has as much.
Many == 999

Rank(e) ==
  <<OrIfUnknown(e.testsFailed, Many), IF e.exit = 0 THEN 0 ELSE 1, e.failedCommands,
    OrIfUnknown(e.filesChanged, Many)>>

\* Faulty variant: the exit code is looked at last.
BeforeByDiff(a, b) ==
  LET ra == Rank(a)  rb == Rank(b)
      differ == {i \in {1, 3, 4, 2} : ra[i] # rb[i]}
      order == <<1, 4, 3, 2>>
  IN \E k \in 1 .. 4 : ra[order[k]] < rb[order[k]] /\ \A j \in 1 .. k - 1 : ra[order[j]] = rb[order[j]]

\* Tuples are compared from the left.
Before(a, b) ==
  \E k \in 1 .. 4 : Rank(a)[k] < Rank(b)[k] /\ \A j \in 1 .. k - 1 : Rank(a)[j] = Rank(b)[j]

\* sorted() of the entries with these indices, which keeps the order of equals.
Sorted(entries, scored) ==
  LET above(i) == {j \in scored : \/ Before(entries[j], entries[i])
                                  \/ ~Before(entries[i], entries[j]) /\ j < i}
  IN [n \in 1 .. Cardinality(scored) |->
        entries[CHOOSE i \in scored : Cardinality(above(i)) = n - 1]]

\* The reasons that are given for the first against the second.
Reasons(best, second) ==
  {r \in {"tests", "exit", "diff"} :
     CASE r = "tests" -> best.testsFailed # Unknown
                         /\ best.testsFailed < (IF second.testsFailed \in {Unknown, 0}
                                                THEN Many ELSE second.testsFailed)
       [] r = "exit" -> best.exit = 0 /\ second.exit # 0
       [] r = "diff" -> /\ best.filesChanged # Unknown /\ second.filesChanged # Unknown
                        /\ best.filesChanged < second.filesChanged}

\* One that can be judged has a test summary or an exit code.
Scored(e) == e.testsFailed # Unknown \/ e.exit # Unknown

\* _recommend: with less than two experiments that can be judged there is no winner, and none
\* between equals.
Recommend(entries) ==
  LET scored == {i \in DOMAIN entries : Scored(entries[i])}
      best == Sorted(entries, scored)[1]
      second == Sorted(entries, scored)[2]
  IN IF Cardinality(scored) < 2 \/ Rank(best) = Rank(second)
     THEN [winner |-> Unknown, reasons |-> {}]
     ELSE [winner |-> best.id, reasons |-> Reasons(best, second)]

\* "Pick a winner only when the evidence actually supports one." Nobody does better than the
\* winner: no other experiment has fewer failing tests, or as many and a clean exit against
\* none; whoever has no figures at all never wins; and the reasons given are true of every
\* other experiment they compare with, except that a second without failing tests is told to
\* have more of them.
WinnerIsBest(entries) ==
  LET answer == Recommend(entries)
      all == {entries[i] : i \in DOMAIN entries}
      others == {e \in all : e.id # answer.winner /\ Scored(e)}
  IN answer.winner # Unknown =>
       \E best \in all :
         /\ best.id = answer.winner
         /\ Scored(best)
         /\ \A e \in others : e.testsFailed # Unknown =>
              /\ best.testsFailed # Unknown /\ best.testsFailed <= e.testsFailed
              /\ e.testsFailed = best.testsFailed /\ e.exit = 0 => best.exit = 0
         /\ others # {}
         /\ "exit" \in answer.reasons => best.exit = 0 /\ \E e \in others : e.exit # 0
         /\ "tests" \in answer.reasons =>
              \/ \E e \in others : e.testsFailed = Unknown \/ e.testsFailed > best.testsFailed
              \/ best.testsFailed = 0 /\ \E e \in others : e.testsFailed = 0

\* A report and a comparison made from the same rows agree on tests and commands; on the
\* changes they agree unless the workspace was written to since the stored inspection, which
\* the comparison takes as it is. A destroyed experiment keeps its last figures in both.
ReportsAgree(e) ==
  LET r == Reported(e)  c == Compared(e) IN
  /\ r.testsFailed = c.testsFailed /\ r.failedCommands = c.failedCommands
  /\ r.filesChanged = c.filesChanged
       \/ (~e.destroyed /\ e.stored # Unknown /\ e.stored # e.inspected)
  /\ e.destroyed => c.filesChanged = e.stored
=============================================================================
