------------------------------- MODULE Output -------------------------------
(* _OutputCollector of sandbox/docker.py: the chunks of one stream are stored   *)
(* up to a cap. Only lengths matter; a chunk is never empty.                    *)
EXTENDS Integers, SequencesExt

Empty == [size |-> 0, truncated |-> FALSE]

Smaller(a, b) == IF a < b THEN a ELSE b

\* Faulty variant: what fills the store to the brim counts as cut off.
AddsStrictly(store, chunk, max) ==
  IF store.size >= max THEN [size |-> store.size, truncated |-> TRUE]
  ELSE [size |-> store.size + Smaller(chunk, max - store.size),
        truncated |-> store.truncated \/ chunk >= max - store.size]

\* add_stdout, add_stderr
Adds(store, chunk, max) ==
  IF store.size >= max THEN [size |-> store.size, truncated |-> TRUE]
  ELSE [size |-> store.size + Smaller(chunk, max - store.size),
        truncated |-> store.truncated \/ chunk > max - store.size]

StreamLength(chunks) == FoldLeft(+, 0, chunks)

Collected(chunks, max) == FoldLeft(LAMBDA store, chunk : Adds(store, chunk, max), Empty, chunks)

\* However a stream is cut into chunks, what is kept is its beginning up to the cap, and it is
\* reported as truncated exactly if something is missing.
OutputCapped(chunks, max) ==
  LET total == StreamLength(chunks)
      store == Collected(chunks, max)
  IN store.size = Smaller(total, max) /\ (store.truncated <=> total > max)
=============================================================================
