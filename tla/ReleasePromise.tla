---------------------------- MODULE ReleasePromise ----------------------------
(***************************************************************************)
(* What the release workflow (.github/workflows/release.yml) promises who  *)
(* installs a release: a tag is released once, from evidence that passed   *)
(* the gates for a commit of that version on main, and what is published   *)
(* is never touched again.                                                 *)
(*                                                                         *)
(* No run is to be seen here, let alone one that is queued, breaks off,    *)
(* overlaps with another or is started again.                              *)
(***************************************************************************)

CONSTANTS
  Commits, Tags,
  VersionTag,  \* per commit: "v" and what its VERSION says
  WithNotes,   \* commits that hold the notes of their release
  None

VARIABLES
  everMain,  \* the commits that main has had
  retagged,  \* the tags that someone moved or deleted
  release    \* per tag: its GitHub release

vars == <<everMain, retagged, release>>

Releasable(t) == {c \in everMain \cap WithNotes : VersionTag[c] = t}

Init ==
  /\ everMain \in SUBSET Commits
  /\ retagged = {}
  /\ release = [t \in Tags |-> [state |-> "none", of |-> None, evidence |-> None]]

Merge(c) ==
  /\ everMain' = everMain \cup {c}
  /\ UNCHANGED <<retagged, release>>

Retag(t) ==
  /\ retagged' = retagged \cup {t}
  /\ UNCHANGED <<everMain, release>>

\* A publication that breaks off leaves a draft, of a tag that may be released.
Draft(t) ==
  /\ release[t].state = "none"
  /\ Releasable(t) # {}
  /\ release' = [release EXCEPT ![t].state = "draft"]
  /\ UNCHANGED <<everMain, retagged>>

\* The evidence is of commit c, the tag at commit d.
Publish(t, c, d) ==
  /\ release[t].state # "published"
  /\ c \in Releasable(t)
  /\ t \notin retagged => d = c
  /\ release' = [release EXCEPT ![t] =
                   [state |-> "published", of |-> d,
                    evidence |-> [of |-> c, passed |-> TRUE]]]
  /\ UNCHANGED <<everMain, retagged>>

Next ==
  \/ \E c \in Commits : Merge(c)
  \/ \E t \in Tags : Retag(t) \/ Draft(t)
  \/ \E t \in Tags, c, d \in Commits : Publish(t, c, d)

Spec == Init /\ [][Next]_vars
=============================================================================
