--------------------------- MODULE ReleasePipeline ---------------------------
(***************************************************************************)
(* The release workflow (.github/workflows/release.yml): its two jobs, the *)
(* context check (scripts/release/check_release_context.py), the evidence  *)
(* that one job hands to the other, and the bundle                         *)
(* (scripts/release/prepare_release_bundle.py), while tags are pushed,     *)
(* moved and deleted, main is rewritten, runs overlap, break off and are   *)
(* run again, and calls of the GitHub API fail halfway.                    *)
(***************************************************************************)
EXTENDS Naturals

CONSTANTS
  Commits, Tags, Runs,
  VersionTag,  \* per commit: "v" and what its VERSION says
  WithNotes,   \* commits that hold docs/releases/<that tag>.md
  None,        \* no commit, no evidence
  MaxMoves,    \* bound: tags moved or deleted, main rewritten
  MaxReruns    \* bound: runs started again

Evidence == [of : Commits, passed : BOOLEAN]

ASSUME CommitsAssumption ==
  /\ VersionTag \in [Commits -> Tags]
  /\ WithNotes \subseteq Commits
  /\ None \notin Commits \cup Evidence
ASSUME BoundsAssumption == MaxMoves \in Nat /\ MaxReruns \in Nat

VARIABLES
  \* the repository
  main,      \* the commits of main's history
  everMain,  \* history: the commits that were in it at some time
  tagAt,     \* per tag: its commit
  retagged,  \* history: tags that were moved or deleted
  release,   \* per tag: its GitHub release
  \* the runs
  event,     \* per run: the event that started it
  ref,       \* per run: github.ref
  sha,       \* per run: github.sha
  at,        \* per run: the step it is at
  checked,   \* per run: what make release-check said in this attempt
  valid,     \* per run: whether its job validate succeeded
  evidence,  \* per run: its artifact release-evidence
  result,    \* per run: how it ended
  moves, reruns

repository == <<main, everMain, tagAt, retagged, moves>>
origin == <<event, ref, sha>>
vars == <<repository, release, origin, at, checked, valid, evidence, result,
          reruns>>

Branches == {"main", "feature"}
NoRelease == [state |-> "none", of |-> None, evidence |-> None]
Validating == {"context", "gate", "upload"}
Publishing == {"download", "view", "bundle", "create"}

Init ==
  /\ main \in SUBSET Commits
  /\ everMain = main
  /\ tagAt = [t \in Tags |-> None]
  /\ retagged = {}
  /\ release = [t \in Tags |-> NoRelease]
  /\ event = [r \in Runs |-> "none"]
  /\ ref = [r \in Runs |-> "main"]
  /\ sha = [r \in Runs |-> None]
  /\ at = [r \in Runs |-> "none"]
  /\ checked = [r \in Runs |-> FALSE]
  /\ valid = [r \in Runs |-> FALSE]
  /\ evidence = [r \in Runs |-> None]
  /\ result = [r \in Runs |-> "none"]
  /\ moves = 0
  /\ reruns = 0
-----------------------------------------------------------------------------
(* The repository.                                                         *)

Trigger(r, ev, x, c) ==
  /\ at[r] = "none"
  /\ event' = [event EXCEPT ![r] = ev]
  /\ ref' = [ref EXCEPT ![r] = x]
  /\ sha' = [sha EXCEPT ![r] = c]
  /\ at' = [at EXCEPT ![r] = "queued"]
  /\ UNCHANGED <<release, checked, valid, evidence, result, reruns>>

Moved == moves < MaxMoves /\ moves' = moves + 1

\* git push of a tag, of one that exists by force: on: push: tags.
PushTag(r, t, c) ==
  /\ tagAt[t] # c
  /\ Trigger(r, "push", t, c)
  /\ tagAt' = [tagAt EXCEPT ![t] = c]
  /\ IF tagAt[t] = None THEN UNCHANGED <<retagged, moves>>
     ELSE retagged' = retagged \cup {t} /\ Moved
  /\ UNCHANGED <<main, everMain>>

\* A tag without a published release is deleted.
DeleteTag(t) ==
  /\ tagAt[t] # None
  /\ release[t].state # "published"
  /\ Moved
  /\ tagAt' = [tagAt EXCEPT ![t] = None]
  /\ retagged' = retagged \cup {t}
  /\ UNCHANGED <<main, everMain, release, origin, at, checked, valid, evidence,
                 result, reruns>>

\* on: workflow_dispatch, which GitHub allows on every ref.
Dispatch(r, x, c) ==
  /\ \/ x = "main" /\ c \in main
     \/ x = "feature"
     \/ x \in Tags /\ tagAt[x] = c
  /\ Trigger(r, "workflow_dispatch", x, c)
  /\ UNCHANGED repository

Merge(c) ==
  /\ c \notin main
  /\ main' = main \cup {c}
  /\ everMain' = everMain \cup {c}
  /\ UNCHANGED <<tagAt, retagged, moves, release, origin, at, checked, valid,
                 evidence, result, reruns>>

\* A force push to main drops a commit.
Rewrite(c) ==
  /\ c \in main
  /\ Moved
  /\ main' = main \ {c}
  /\ UNCHANGED <<everMain, tagAt, retagged, release, origin, at, checked, valid,
                 evidence, result, reruns>>
-----------------------------------------------------------------------------
(* check_release_context.py, on the run's commit.                          *)

\* tag_matches_version implies validate_tag_format for a well-formed VERSION.
TagContext(r) ==
  /\ ref[r] = VersionTag[sha[r]]
  /\ sha[r] \in WithNotes
  /\ sha[r] \in main

DispatchContext(r) == ref[r] = "main" /\ sha[r] \in WithNotes

ContextOk(r) ==
  \/ event[r] = "push" /\ TagContext(r)
  \/ event[r] = "workflow_dispatch" /\ DispatchContext(r)

\* publish: if: success() && event_name == 'push' && startsWith(ref, 'refs/tags/')
PublishIf(r) == valid'[r] /\ event[r] = "push" /\ ref[r] \in Tags

End(r, how) ==
  /\ at' = [at EXCEPT ![r] = "done"]
  /\ result' = [result EXCEPT ![r] = how]

Goto(r, step) == at' = [at EXCEPT ![r] = step] /\ UNCHANGED result

\* concurrency: one run per ref is under way; a queued one waits, or is dropped.
Start(r) ==
  /\ at[r] = "queued"
  /\ \A q \in Runs : ref[q] = ref[r] => at[q] \notin Validating \cup Publishing
  /\ Goto(r, IF valid[r] THEN "download" ELSE "context")
  /\ UNCHANGED <<repository, release, origin, checked, valid, evidence, reruns>>

\* An invalid context fails before the gate; there is nothing to upload then.
Context(r) ==
  /\ at[r] = "context"
  /\ IF ContextOk(r) THEN Goto(r, "gate") ELSE End(r, "failure")
  /\ UNCHANGED <<repository, release, origin, checked, valid, evidence, reruns>>

\* make release-check on the commit.
Gate(r) ==
  /\ at[r] = "gate"
  /\ checked' \in {[checked EXCEPT ![r] = b] : b \in BOOLEAN}
  /\ Goto(r, "upload")
  /\ UNCHANGED <<repository, release, origin, valid, evidence, reruns>>

\* Mutant: an uploaded artifact makes the job a success.
UploadDecides(r) ==
  /\ at[r] = "upload"
  /\ evidence' =
       [evidence EXCEPT ![r] = [of |-> sha[r], passed |-> checked[r]]]
  /\ valid' = [valid EXCEPT ![r] = TRUE]
  /\ IF PublishIf(r) THEN Goto(r, "download") ELSE End(r, "success")
  /\ UNCHANGED <<repository, release, origin, checked, reruns>>

\* Mutant: the checkout is that of main.
UploadMain(r) ==
  /\ at[r] = "upload"
  /\ \E c \in main :
       evidence' = [evidence EXCEPT ![r] = [of |-> c, passed |-> checked[r]]]
  /\ valid' = [valid EXCEPT ![r] = checked[r]]
  /\ IF PublishIf(r) THEN Goto(r, "download")
     ELSE End(r, IF checked[r] THEN "success" ELSE "failure")
  /\ UNCHANGED <<repository, release, origin, checked, reruns>>

\* if: always(): a failed gate leaves its evidence too, or none at all.
Upload(r) ==
  /\ at[r] = "upload"
  /\ \/ evidence' =
          [evidence EXCEPT ![r] = [of |-> sha[r], passed |-> checked[r]]]
     \/ ~checked[r] /\ UNCHANGED evidence
  /\ valid' = [valid EXCEPT ![r] = checked[r]]
  /\ IF PublishIf(r) THEN Goto(r, "download")
     ELSE End(r, IF checked[r] THEN "success" ELSE "failure")
  /\ UNCHANGED <<repository, release, origin, checked, reruns>>
-----------------------------------------------------------------------------
(* The job publish.                                                        *)

\* The artifact may have expired by then.
Download(r) ==
  /\ at[r] = "download"
  /\ \/ evidence[r] # None /\ Goto(r, "view")
     \/ End(r, "failure")
  /\ UNCHANGED <<repository, release, origin, checked, valid, evidence, reruns>>

\* Mutant: a release that exists is no reason to fail.
ViewAndSkip(r) ==
  /\ at[r] = "view"
  /\ IF release[ref[r]].state = "published" THEN End(r, "success")
     ELSE Goto(r, "bundle")
  /\ UNCHANGED <<repository, release, origin, checked, valid, evidence, reruns>>

\* gh release view: a call that fails reads as "no existing release", and
\* whether it finds a draft is left open.
View(r) ==
  /\ at[r] = "view"
  /\ \/ Goto(r, "bundle")
     \/ release[ref[r]].state # "none" /\ End(r, "failure")
  /\ UNCHANGED <<repository, release, origin, checked, valid, evidence, reruns>>

\* prepare_release_bundle.py, which names the files after the VERSION it finds.
Bundle(r) ==
  /\ at[r] = "bundle"
  /\ Goto(r, "create") \/ End(r, "failure")
  /\ UNCHANGED <<repository, release, origin, checked, valid, evidence, reruns>>

\* GitHub makes a missing tag of a commit of main.
Tagged(t) == IF tagAt[t] # None THEN {tagAt[t]} ELSE main

\* Mutant: gh release upload --clobber, whatever is there.
CreateOrReplace(r) ==
  LET t == ref[r] IN
  /\ at[r] = "create"
  /\ \E c \in Tagged(t) :
       /\ release' = [release EXCEPT ![t] =
                        [state |-> "published", of |-> c,
                         evidence |-> evidence[r]]]
       /\ tagAt' = [tagAt EXCEPT ![t] = c]
  /\ End(r, "success")
  /\ UNCHANGED <<main, everMain, retagged, moves, origin, checked, valid,
                 evidence, reruns>>

\* gh release create: a draft, the assets, and then the publication, which
\* GitHub refuses when the tag has a published release.
Create(r) ==
  LET t == ref[r] IN
  /\ at[r] = "create"
  /\ release[t].state # "published"
  /\ \E c \in Tagged(t) :
       /\ release' = [release EXCEPT ![t] =
                        [state |-> "published", of |-> c,
                         evidence |-> evidence[r]]]
       /\ tagAt' = [tagAt EXCEPT ![t] = c]
  /\ End(r, "success")
  /\ UNCHANGED <<main, everMain, retagged, moves, origin, checked, valid,
                 evidence, reruns>>

\* It fails, or dies over its draft.
CreateFails(r) ==
  /\ at[r] = "create"
  /\ \/ UNCHANGED release
     \/ /\ release[ref[r]].state = "none"
        /\ release' = [release EXCEPT ![ref[r]].state = "draft"]
  /\ End(r, "failure")
  /\ UNCHANGED <<repository, origin, checked, valid, evidence, reruns>>

\* A lost runner, a cancelled run, one that is dropped from the queue.
Break(r) ==
  /\ at[r] \in {"queued"} \cup Validating \cup Publishing
  /\ End(r, "failure")
  /\ UNCHANGED <<repository, release, origin, checked, valid, evidence, reruns>>

\* "Re-run all jobs": the same event, ref and commit.
RerunAll(r) ==
  /\ at[r] = "done" /\ reruns < MaxReruns
  /\ at' = [at EXCEPT ![r] = "queued"]
  /\ result' = [result EXCEPT ![r] = "none"]
  /\ valid' = [valid EXCEPT ![r] = FALSE]
  /\ reruns' = reruns + 1
  /\ UNCHANGED <<repository, release, origin, checked, evidence>>

\* "Re-run failed jobs": publish alone when validate had succeeded.
RerunFailed(r) ==
  /\ at[r] = "done" /\ result[r] = "failure" /\ reruns < MaxReruns
  /\ at' = [at EXCEPT ![r] = "queued"]
  /\ result' = [result EXCEPT ![r] = "none"]
  /\ reruns' = reruns + 1
  /\ UNCHANGED <<repository, release, origin, checked, valid, evidence>>

RunStep(r) ==
  \/ Start(r) \/ Context(r) \/ Gate(r) \/ Upload(r)
  \/ Download(r) \/ View(r) \/ Bundle(r) \/ Create(r) \/ CreateFails(r)
  \/ Break(r) \/ RerunAll(r) \/ RerunFailed(r)

Next ==
  \/ \E r \in Runs : RunStep(r)
  \/ \E r \in Runs, t \in Tags, c \in Commits : PushTag(r, t, c)
  \/ \E r \in Runs, x \in Branches \cup Tags, c \in Commits : Dispatch(r, x, c)
  \/ \E t \in Tags : DeleteTag(t)
  \/ \E c \in Commits : Merge(c) \/ Rewrite(c)

Spec == Init /\ [][Next]_vars
-----------------------------------------------------------------------------
TypeOK ==
  /\ main \subseteq Commits
  /\ everMain \subseteq Commits
  /\ tagAt \in [Tags -> Commits \cup {None}]
  /\ retagged \subseteq Tags
  /\ release \in [Tags -> [state : {"none", "draft", "published"},
                           of : Commits \cup {None},
                           evidence : Evidence \cup {None}]]
  /\ event \in [Runs -> {"none", "push", "workflow_dispatch"}]
  /\ ref \in [Runs -> Branches \cup Tags]
  /\ sha \in [Runs -> Commits \cup {None}]
  /\ at \in [Runs -> {"none", "queued", "done"} \cup Validating \cup Publishing]
  /\ checked \in [Runs -> BOOLEAN]
  /\ valid \in [Runs -> BOOLEAN]
  /\ evidence \in [Runs -> Evidence \cup {None}]
  /\ result \in [Runs -> {"none", "success", "failure"}]
  /\ moves \in 0..MaxMoves
  /\ reruns \in 0..MaxReruns

Published(t) == release[t].state = "published"

(* What a release carries was made from a commit that passed the gates: of *)
(* that version, with its notes, on main when it was validated; whatever   *)
(* was run again, in whatever order.                                       *)
PublishedIsVerified ==
  \A t \in Tags : Published(t) =>
    LET e == release[t].evidence IN
    e # None /\ e.passed /\ VersionTag[e.of] = t /\ e.of \in WithNotes \cap everMain

(* The tag of a release is at the commit its evidence was made from, unless*)
(* someone moved or deleted the tag.                                       *)
EvidenceOfTag ==
  \A t \in Tags \ retagged : Published(t) => release[t].of = release[t].evidence.of

(* A published release is never changed, by a later run of the tag or an   *)
(* earlier one that is run again.                                          *)
Immutable ==
  [][\A t \in Tags : Published(t) => release'[t] = release[t]]_vars

(* The run of a tag is green only over a release with its own evidence.    *)
GreenMeansPublished ==
  \A r \in Runs : event[r] = "push" /\ result[r] = "success" =>
    Published(ref[r]) /\ release[ref[r]].evidence.of = sha[r]

Promise == INSTANCE ReleasePromise

(* Whatever the runs of a tag do to each other, and wherever one of them   *)
(* breaks off: together they are one publication, and never more.          *)
ReleasesAsPromised == Promise!Spec

(* A dry run never comes near the publish job, on no ref and in no re-run. *)
DryRunNeverPublishes ==
  \A r \in Runs : event[r] = "workflow_dispatch" => at[r] \notin Publishing
=============================================================================
