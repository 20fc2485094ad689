------------------------------- MODULE Changes -------------------------------
(* inspect_changes: the manifest is read inside the container and compared     *)
(* with the baseline, then the changed files are read one by one, while        *)
(* commands go on writing to the workspace (experiments/changes.py, manager.py *)
(* and read_manifest of sandbox/docker.py).                                    *)
EXTENDS Integers, SequencesExt

CONSTANTS
  Paths,           \* numbers, in the order of the names
  Contents,
  Large,           \* the contents above max_diff_file_bytes
  Binary,
  Nothing,         \* no file, or a file that could not be read
  MaxWithDiff,     \* how many files are read at most
  MaxWrites        \* bound: writes of the commands

ASSUME ChangesAssumption ==
  /\ Paths \subseteq Nat /\ IsFiniteSet(Paths)
  /\ Large \subseteq Contents /\ Binary \subseteq Contents
  /\ Nothing \notin Contents
  /\ MaxWithDiff \in Nat /\ MaxWrites \in Nat

VARIABLES
  files,           \* the workspace: its regular files, a link is none
  original,        \* history: what it was when the baseline was captured
  baseline,        \* the manifest of that moment
  snapshot,        \* what is found on the host under a path of the snapshot
  copied,          \* whether there is a snapshot: not with a bind mount
  stage,           \* "idle", "listing", "comparing", "reading", "done", "failed"
  manifest,        \* what the listing has seen
  unlisted,        \* the paths it has yet to come to
  cut,             \* whether its output reached the cap
  queue,           \* the changes to be read: pairs of path and type
  changes,         \* those that were read
  truncated,
  touched,         \* history: the paths written to since the listing began
  unread,          \* history: the paths whose reading failed
  writes

reference == <<original, baseline, snapshot, copied>>
listing == <<manifest, unlisted, cut>>
changesVars == <<files, reference, stage, listing, queue, changes, truncated, touched,
                 unread, writes>>

Workspaces == [Paths -> Contents \cup {Nothing}]

\* What a listing of a workspace that is cut off at max_output_bytes makes of it: some files
\* are missing, and the line that was cut may give the digest of its file to the name that the
\* stump of it happens to be.
CutListings(workspace) ==
  LET Part(S) == [p \in Paths |-> IF p \in S THEN workspace[p] ELSE Nothing]
  IN UNION {{Part(S)} \cup {[Part(S) EXCEPT ![name] = workspace[p]] : name \in Paths, p \in Paths \ S}
            : S \in SUBSET Paths}

\* The snapshot has the files as they were, and the links as links: reading follows them, to
\* wherever they lead on the host, or to nothing.
Snapshots(workspace) ==
  {host \in Workspaces : \A p \in Paths : workspace[p] # Nothing => host[p] = workspace[p]}

\* The listing of the baseline knows regular files only, and it, too, may be cut off.
Init ==
  /\ original \in Workspaces /\ files = original
  /\ baseline \in {original} \cup CutListings(original)
  /\ copied \in BOOLEAN
  /\ snapshot \in Snapshots(original)
  /\ stage = "idle"
  /\ manifest = [p \in Paths |-> Nothing] /\ unlisted = Paths /\ cut = FALSE
  /\ queue = <<>> /\ changes = {} /\ truncated = FALSE
  /\ touched = {} /\ unread = {}
  /\ writes = 0
-----------------------------------------------------------------------------
\* A command, or write_file, changes a file, makes it or deletes it.
Writes(p, content) ==
  /\ stage \notin {"done", "failed"}
  /\ writes < MaxWrites
  /\ writes' = writes + 1
  /\ files[p] # content
  /\ files' = [files EXCEPT ![p] = content]
  /\ touched' = IF stage = "idle" THEN touched ELSE touched \cup {p}
  /\ UNCHANGED <<reference, stage, listing, queue, changes, truncated, unread>>

Begins ==
  /\ stage = "idle"
  /\ stage' = "listing"
  /\ UNCHANGED <<files, reference, listing, queue, changes, truncated, touched, unread, writes>>

\* sha256sum comes to a file, or the archive does.
ListsFile(p) ==
  /\ stage = "listing"
  /\ p \in unlisted
  /\ unlisted' = unlisted \ {p}
  /\ manifest' = [manifest EXCEPT ![p] = files[p]]
  /\ UNCHANGED <<files, reference, stage, cut, queue, changes, truncated, touched, unread, writes>>

\* The listing is over; its output may have been cut off at max_output_bytes, which
\* read_manifest does not look at, within a line or between two. Or it raises.
ListingEnds ==
  /\ stage = "listing"
  /\ \/ unlisted = {} /\ stage' = "comparing" /\ UNCHANGED <<cut, manifest>>
     \/ /\ unlisted # {} /\ stage' = "comparing" /\ cut' = TRUE
        /\ \/ UNCHANGED manifest
           \/ \E p \in unlisted, name \in Paths : manifest' = [manifest EXCEPT ![name] = files[p]]
     \/ stage' = "failed" /\ UNCHANGED <<cut, manifest>>
  /\ UNCHANGED <<files, reference, unlisted, queue, changes, truncated, touched,
                 unread, writes>>

Created == {p \in Paths : baseline[p] = Nothing /\ manifest[p] # Nothing}
Deleted == {p \in Paths : baseline[p] # Nothing /\ manifest[p] = Nothing}

\* Faulty variant: whatever differs is modified.
ModifiedOrDeleted == {p \in Paths : baseline[p] # Nothing /\ baseline[p] # manifest[p]}

Modified == {p \in Paths : /\ baseline[p] # Nothing /\ manifest[p] # Nothing
                           /\ baseline[p] # manifest[p]}

\* The paths of S in their order, each with its type: the i-th has i - 1 before it.
InOrder(S, type) ==
  [i \in 1 .. Cardinality(S) |-> <<CHOOSE p \in S : Cardinality({q \in S : q < p}) = i - 1, type>>]

Compares ==
  /\ stage = "comparing"
  /\ stage' = "reading"
  /\ queue' = InOrder(Modified, "MODIFIED") \o InOrder(Created, "CREATED")
              \o InOrder(Deleted, "DELETED")
  /\ UNCHANGED <<files, reference, listing, changes, truncated, touched, unread, writes>>

\* _read_baseline: what lies under the path on the host.
ReadBaseline(p) == IF copied /\ snapshot[p] \notin Large THEN snapshot[p] ELSE Nothing

\* Faulty variant: a deletion is told by the file that is no longer there.
BuildChangeOfWhatIsThere(p, type, before, after) ==
  [path |-> p, type |-> type, from |-> before, to |-> after,
   body |-> IF after \in {Nothing} \cup Large THEN "none"
            ELSE IF after \in Binary THEN "binary" ELSE "diff"]

\* _build_change: the later side decides about the body, the earlier one when there is none;
\* the diff takes a missing side for an empty file.
BuildChange(p, type, before, after) ==
  LET payload == IF after # Nothing THEN after ELSE before
  IN [path |-> p, type |-> type, from |-> before, to |-> after,
      body |-> IF payload \in {Nothing} \cup Large THEN "none"
               ELSE IF payload \in Binary THEN "binary" ELSE "diff"]

\* read_file of the backend refuses what is too large, _read_current makes nothing of that.
Current(p) == IF files[p] \in Large THEN Nothing ELSE files[p]

\* The next change: beyond the budget none is read any more. A deleted file is not read; a
\* file whose reading fails counts as nothing.
ReadsNext ==
  /\ stage = "reading"
  /\ \/ /\ queue = <<>>
        /\ stage' = "done"
        /\ UNCHANGED <<queue, changes, truncated, unread>>
     \/ /\ queue # <<>> /\ Cardinality(changes) >= MaxWithDiff
        /\ truncated' = TRUE
        /\ stage' = "done"
        /\ UNCHANGED <<queue, changes, unread>>
     \/ /\ queue # <<>> /\ Cardinality(changes) < MaxWithDiff
        /\ LET p == queue[1][1]
               type == queue[1][2]
           IN \E fails \in {FALSE, type # "DELETED"} :
                /\ changes' = changes \cup
                     {BuildChange(p, type, ReadBaseline(p),
                                  IF fails \/ type = "DELETED" THEN Nothing ELSE Current(p))}
                /\ unread' = IF fails THEN unread \cup {p} ELSE unread
        /\ queue' = Tail(queue)
        /\ UNCHANGED <<stage, truncated>>
  /\ UNCHANGED <<files, reference, listing, touched, writes>>

Next ==
  \/ Begins \/ ListingEnds \/ Compares \/ ReadsNext
  \/ \E p \in Paths : ListsFile(p) \/ \E content \in Contents \cup {Nothing} : Writes(p, content)

Spec == Init /\ [][Next]_changesVars
-----------------------------------------------------------------------------
(* Properties.                                                                 *)

Listed == Modified \cup Created \cup Deleted

\* The paths the baseline is wrong about, since it was cut off itself.
Misjudged == {p \in Paths : baseline[p] # original[p]}

\* The paths where no file was, but a link that leads to a file of the host.
Linked == {p \in Paths : original[p] = Nothing /\ snapshot[p] # Nothing}

\* "The file lists stay complete and truncated is set": the answer names a file exactly when it
\* differs from what it was at the beginning and under the right heading, if it was not written to
\* during the inspection and neither listing was cut off at it; and each file it names has its
\* change, or the answer says that there are more.
ChangesAreExact ==
  stage = "done" =>
    /\ ~cut => \A p \in Paths \ (touched \cup Misjudged) :
         /\ p \in Listed <=> files[p] # original[p]
         /\ p \in Deleted <=> files[p] = Nothing /\ original[p] # Nothing
         /\ p \in Modified => files[p] # Nothing
    /\ \A p \in Listed : Cardinality({type \in {"MODIFIED", "CREATED", "DELETED"} :
                                        \E ch \in changes : ch.path = p /\ ch.type = type})
                         = IF \E ch \in changes : ch.path = p THEN 1 ELSE 0
    /\ {ch.path : ch \in changes} \subseteq Listed
    /\ truncated <=> {ch.path : ch \in changes} # Listed

\* A diff has the two versions of the file on its sides, and a deleted text has its diff,
\* unless the file was written to during the inspection. Where a side is missing, the version
\* was too large or could not be read: such a file is shown as emptied or as new. Only where a
\* link was, which the code follows, may the earlier side be something else.
DiffsAreTrue ==
  \A ch \in changes : copied /\ ~cut /\ ch.path \notin touched =>
    LET p == ch.path IN
    /\ ch.body = "diff" =>
         /\ \/ ch.from = original[p]
            \/ ch.from = Nothing /\ original[p] \in Large
            \/ p \in Linked
         /\ ch.to = files[p] \/ (ch.to = Nothing /\ (p \in unread \/ files[p] \in Large))
    /\ ch.type = "DELETED" /\ original[p] \notin {Nothing} \cup Large \cup Binary =>
         ch.body = "diff"
=============================================================================
