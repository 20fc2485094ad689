----------------------------- MODULE Filesystem -----------------------------
(* security/filesystem.py: paths inside the sandbox, and the copy of a project *)
(* that goes into it.                                                          *)
EXTENDS Integers, SequencesExt

CONSTANT
  Protected        \* names SECRET_FILE_PATTERNS match

\* A path is a sequence of names. PurePosixPath has taken out "." and empty parts; ".." stays.
-----------------------------------------------------------------------------
(* validate_sandbox_path. A refusal is the empty set.                          *)

\* Faulty variant: ".." at the root is passed over, as a shell does.
StepsLeniently(done, part) ==
  {IF part # ".." THEN Append(d, part) ELSE IF d = <<>> THEN d ELSE Front(d) : d \in done}

\* One part of the path, after those that led to `done`; above the root there is nothing.
StepsTo(done, part) ==
  {IF part = ".." THEN Front(d) ELSE Append(d, part) : d \in done \ (IF part = ".." THEN {<<>>} ELSE {})}

Joined(raw, workspace) == IF raw.absolute THEN raw.parts ELSE workspace \o raw.parts

ValidateSandboxPath(raw, workspace) ==
  {path \in FoldLeft(StepsTo, {<<>>}, Joined(raw, workspace)) : IsPrefix(workspace, path)}

\* How deep the first k parts lead.
Depth(parts, k) ==
  LET ups == {i \in 1 .. k : parts[i] = ".."} IN k - 2 * Cardinality(ups)

\* The names no later ".." takes back.
Remaining(parts) ==
  LET stays(i) == parts[i] # ".." /\ \A k \in i .. Len(parts) : Depth(parts, k) >= Depth(parts, i)
      kept == {i \in DOMAIN parts : stays(i)}
  IN [n \in 1 .. Cardinality(kept) |->
        parts[CHOOSE i \in kept : Cardinality({j \in kept : j <= i}) = n]]

\* "Confine it to the workspace": a path is accepted exactly if no part of it leads above the
\* root and it ends in the workspace, and then it stands for the names that remain. What a
\* tool then reads or writes is that path, whatever detour the client gave.
PathConfined(raw, workspace) ==
  LET parts == Joined(raw, workspace)
      lawful == /\ \A k \in DOMAIN parts : Depth(parts, k) >= 0
                /\ IsPrefix(workspace, Remaining(parts))
  IN ValidateSandboxPath(raw, workspace) = IF lawful THEN {Remaining(parts)} ELSE {}
-----------------------------------------------------------------------------
(* The snapshot: the entries in the order os.walk meets them, each a path with *)
(* what it is and how long it is. The directories themselves are left out,     *)
(* except links to one, which os.walk takes for directories it does not enter. *)
(* Of an "unreadable" file hash_file raises, of an "uncopied" one only copy2.  *)

\* _matches_any for patterns without a slash: against every part of the path.
MatchesAny(path, names) == \E i \in DOMAIN path : path[i] \in names

Kept(entry, excludes) ==
  ~MatchesAny(entry.path, Protected) /\ ~MatchesAny(entry.path, excludes)

Hashed == {"file", "uncopied"}
Raises == {"unreadable", "uncopied"}

EmptyCopy == [failed |-> FALSE, disk |-> {}, manifest |-> {}, count |-> 0, bytes |-> 0]

\* Faulty variant: a file is copied before it is counted.
CopiesFirst(copy, entry, limits) ==
  LET full == copy.count + 1 > limits.files \/ copy.bytes + entry.size > limits.bytes
      failed == full \/ entry.kind \in Raises
  IN [copy EXCEPT !.count = @ + 1, !.bytes = @ + entry.size, !.failed = failed,
                  !.disk = @ \cup {entry}, !.manifest = IF failed THEN @ ELSE @ \cup {entry}]

\* A regular file that could be hashed: counted, then refused or copied. One whose copy fails
\* may lie on the disk in part, and has no place in the manifest.
Copies(copy, entry, limits) ==
  LET full == copy.count + 1 > limits.files \/ copy.bytes + entry.size > limits.bytes
      failed == full \/ entry.kind \in Raises
  IN [copy EXCEPT !.count = @ + 1, !.bytes = @ + entry.size, !.failed = failed,
                  !.disk = IF full THEN @ ELSE @ \cup {entry},
                  !.manifest = IF failed THEN @ ELSE @ \cup {entry}]

\* Links are made anew and not counted; a linked directory becomes an empty one. What cannot
\* be read ends the walk with its exception.
Meets(copy, entry, excludes, limits) ==
  IF copy.failed \/ ~Kept(entry, excludes) \/ entry.kind = "other" THEN copy
  ELSE IF entry.kind = "unreadable" THEN [copy EXCEPT !.failed = TRUE]
  ELSE IF entry.kind \in Hashed THEN Copies(copy, entry, limits)
  ELSE IF entry.kind = "link"
    THEN [copy EXCEPT !.disk = @ \cup {entry}, !.manifest = @ \cup {entry}]
  ELSE [copy EXCEPT !.disk = @ \cup {[entry EXCEPT !.kind = "directory"]}]

Snapshot(walk, excludes, limits) ==
  FoldLeft(LAMBDA copy, entry : Meets(copy, entry, excludes, limits), EmptyCopy, walk)

\* The bytes of a set of files.
Bytes(files) == MapThenSumSet(LAMBDA f : f.size, files)

\* What reaches the directory of a snapshot, be it complete or given up half-way:
\*   - nothing of a protected name at any depth, "even if someone empties the exclude list";
\*   - never more files or bytes than the limits, so that an oversized project cannot fill
\*     the state directory before it is refused;
\*   - unless it is given up, which happens exactly when the project is too large or an entry
\*     of it that is neither protected nor excluded cannot be read or copied, every entry that
\*     is kept, with the manifest naming what was copied.
SnapshotIsExact(walk, excludes, limits) ==
  LET copy == Snapshot(walk, excludes, limits)
      kept == {walk[i] : i \in {j \in DOMAIN walk : Kept(walk[j], excludes)}}
      regular == {e \in kept : e.kind \in Hashed}
      onDisk == {e \in copy.disk : e.kind \in Hashed}
  IN /\ \A e \in copy.disk : ~MatchesAny(e.path, Protected)
     /\ Cardinality(onDisk) <= limits.files /\ Bytes(onDisk) <= limits.bytes
     /\ copy.failed <=> \/ Cardinality(regular) > limits.files \/ Bytes(regular) > limits.bytes
                        \/ \E e \in kept : e.kind \in Raises
     /\ ~copy.failed =>
          /\ copy.manifest = {e \in kept : e.kind \in {"file", "link"}}
          /\ {e.path : e \in copy.disk} = {e.path : e \in {k \in kept : k.kind # "other"}}
=============================================================================
