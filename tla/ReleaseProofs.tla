----------------------------- MODULE ReleaseProofs -----------------------------
(***************************************************************************)
(* What a release is worth, for any commits, tags and runs, any number of  *)
(* re-runs, and tags and a main that are moved at will.                    *)
(***************************************************************************)
EXTENDS ReleasePipeline, TLAPS

(* A tag's push is not forgotten before the tag is moved.                  *)
PushInv(r) ==
  event[r] = "push" =>
    /\ sha[r] \in Commits
    /\ ref[r] \in Tags
    /\ ref[r] \notin retagged => tagAt[ref[r]] = sha[r]

(* What the context check said of the run's commit holds from then on.     *)
Admitted(r) ==
  event[r] = "push" =>
    /\ ref[r] = VersionTag[sha[r]]
    /\ sha[r] \in WithNotes \cap everMain

(* validate's success goes with evidence of the gates that were passed.    *)
ValidInv(r) ==
  valid[r] =>
    /\ Admitted(r)
    /\ evidence[r] = [of |-> sha[r], passed |-> TRUE]
    /\ \/ event[r] = "push"
       \/ at[r] = "done" /\ result[r] = "success"

StepInv(r) ==
  /\ IF at[r] = "none" THEN event[r] = "none" /\ ~valid[r] ELSE sha[r] \in Commits
  /\ at[r] \in {"gate", "upload"} => Admitted(r)
  /\ at[r] \in Publishing => valid[r] /\ event[r] = "push"
  /\ at[r] # "done" => result[r] # "success"

GreenInv(r) ==
  event[r] = "push" /\ result[r] = "success" =>
    Published(ref[r]) /\ release[ref[r]].evidence.of = sha[r]

RunInv(r) == PushInv(r) /\ ValidInv(r) /\ StepInv(r) /\ GreenInv(r)

ReleaseInv(t) ==
  Published(t) =>
    /\ release[t].evidence # None
    /\ release[t].evidence.passed
    /\ VersionTag[release[t].evidence.of] = t
    /\ release[t].evidence.of \in WithNotes \cap everMain
    /\ t \notin retagged => release[t].of = release[t].evidence.of

Inv ==
  /\ TypeOK
  /\ main \subseteq everMain
  /\ \A r \in Runs : RunInv(r)
  /\ \A t \in Tags : ReleaseInv(t)

\* Before the first tag is pushed there are no runs and no release.
LEMMA InitInv == Init => Inv
<1> SUFFICES ASSUME Init PROVE Inv
  OBVIOUS
<1>1. TypeOK
  BY BoundsAssumption
     DEF Init, TypeOK, NoRelease, Branches, Validating, Publishing
<1>2. ASSUME NEW r \in Runs PROVE RunInv(r)
  BY DEF Init, RunInv, PushInv, ValidInv, StepInv, GreenInv, Publishing
<1>3. ASSUME NEW t \in Tags PROVE ReleaseInv(t)
  BY DEF Init, ReleaseInv, Published, NoRelease
<1> QED
  BY <1>1, <1>2, <1>3 DEF Init, Inv

\* Every step of a workflow run, and every push, keeps the types.
LEMMA TypeStep == Inv /\ [Next]_vars => TypeOK'
<1> SUFFICES ASSUME Inv, [Next]_vars PROVE TypeOK'
  OBVIOUS
<1>0. TypeOK /\ \A r \in Runs : StepInv(r)
  BY DEF Inv, RunInv
<1> USE <1>0 DEF TypeOK, Validating, Publishing, Goto, End, repository, origin
<1>1. ASSUME NEW r \in Runs,
             Start(r) \/ Context(r) \/ Gate(r) \/ Download(r) \/ View(r)
               \/ Bundle(r) \/ Break(r)
      PROVE  TypeOK'
  BY <1>1 DEF Start, Context, Gate, Download, View, Bundle, Break
<1>2. ASSUME NEW r \in Runs, Upload(r) PROVE TypeOK'
  <2>1. [of |-> sha[r], passed |-> checked[r]] \in Evidence
    BY <1>2 DEF Upload, StepInv, Evidence
  <2>2. evidence' \in [Runs -> Evidence \cup {None}]
    BY <1>2, <2>1 DEF Upload
  <2>3. valid' \in [Runs -> BOOLEAN]
    BY <1>2 DEF Upload
  <2> QED
    BY <1>2, <2>2, <2>3 DEF Upload
<1>3. ASSUME NEW r \in Runs, Create(r) PROVE TypeOK'
  <2> DEFINE Release == [state : {"none", "draft", "published"},
                         of : Commits \cup {None},
                         evidence : Evidence \cup {None}]
  <2>1. PICK c \in Tagged(ref[r]) :
          /\ release' = [release EXCEPT ![ref[r]] =
                           [state |-> "published", of |-> c,
                            evidence |-> evidence[r]]]
          /\ tagAt' = [tagAt EXCEPT ![ref[r]] = c]
    BY <1>3 DEF Create
  <2>2. c \in Commits \/ ref[r] \notin Tags
    BY DEF Tagged
  <2>3. /\ tagAt' \in [Tags -> Commits \cup {None}]
        /\ release' \in [Tags -> Release]
    BY <2>1, <2>2
  <2> QED
    BY <1>3, <2>3 DEF Create
<1>4. ASSUME NEW r \in Runs, CreateFails(r) PROVE TypeOK'
  BY <1>4 DEF CreateFails
<1>5. ASSUME NEW r \in Runs, RerunAll(r) \/ RerunFailed(r) PROVE TypeOK'
  <2>1. reruns' \in 0..MaxReruns
    BY <1>5, BoundsAssumption DEF RerunAll, RerunFailed
  <2>2. /\ valid' \in [Runs -> BOOLEAN]
        /\ at' \in [Runs -> {"none", "queued", "done"} \cup Validating \cup Publishing]
        /\ result' \in [Runs -> {"none", "success", "failure"}]
    BY <1>5 DEF RerunAll, RerunFailed
  <2> QED
    BY <1>5, <2>1, <2>2 DEF RerunAll, RerunFailed
<1>6. ASSUME NEW r \in Runs, NEW t \in Tags, NEW c \in Commits, PushTag(r, t, c)
      PROVE  TypeOK'
  BY <1>6, BoundsAssumption DEF PushTag, Trigger, Moved, Branches
<1>7. ASSUME NEW r \in Runs, NEW x \in Branches \cup Tags, NEW c \in Commits,
             Dispatch(r, x, c)
      PROVE  TypeOK'
  BY <1>7 DEF Dispatch, Trigger
<1>8. ASSUME NEW t \in Tags, DeleteTag(t) PROVE TypeOK'
  BY <1>8, BoundsAssumption DEF DeleteTag, Moved
<1>9. ASSUME NEW c \in Commits, Merge(c) \/ Rewrite(c) PROVE TypeOK'
  BY <1>9, BoundsAssumption DEF Merge, Rewrite, Moved
<1>10. CASE UNCHANGED vars
  BY <1>10 DEF vars
<1> QED
  BY <1>1, <1>2, <1>3, <1>4, <1>5, <1>6, <1>7, <1>8, <1>9, <1>10
     DEF Next, RunStep

\* Which functions an action of one run changes, and only at that run.
SameOrigin == UNCHANGED <<event, ref, sha>>
OthersStay(r) ==
  \A q \in Runs \ {r} :
    /\ at'[q] = at[q] /\ result'[q] = result[q]
    /\ valid'[q] = valid[q] /\ evidence'[q] = evidence[q]

(* A step of one run that leaves the repository and the releases alone     *)
(* disturbs no other run.                                                  *)
LEMMA RunStays ==
  ASSUME Inv, NEW r \in Runs, SameOrigin, UNCHANGED <<repository, release>>,
         OthersStay(r), TypeOK', ValidInv(r)', StepInv(r)', GreenInv(r)'
  PROVE  Inv'
<1>1. ASSUME NEW q \in Runs PROVE RunInv(q)'
  <2>1. RunInv(q) /\ PushInv(q)'
    BY DEF Inv, RunInv, PushInv, SameOrigin, repository
  <2>2. CASE q = r
    BY <2>1, <2>2 DEF RunInv
  <2>3. CASE q # r
    <3>1. /\ at'[q] = at[q] /\ result'[q] = result[q]
          /\ valid'[q] = valid[q] /\ evidence'[q] = evidence[q]
      BY <2>3 DEF OthersStay
    <3> QED
      BY <2>1, <3>1
         DEF RunInv, ValidInv, StepInv, GreenInv, Admitted, SameOrigin,
             repository, Published, Publishing
  <2> QED
    BY <2>2, <2>3
<1>2. ASSUME NEW t \in Tags PROVE ReleaseInv(t)'
  BY DEF Inv, ReleaseInv, Published, repository
<1> QED
  BY <1>1, <1>2 DEF Inv, repository

\* The steps of a run but the ones that touch a release.
LEMMA QuietStep ==
  ASSUME Inv, TypeOK', NEW r \in Runs,
         \/ Start(r) \/ Context(r) \/ Gate(r) \/ Upload(r) \/ Download(r)
         \/ View(r) \/ Bundle(r) \/ Break(r) \/ RerunAll(r) \/ RerunFailed(r)
  PROVE  Inv'
<1> USE DEF Goto, End, origin
<1>1. TypeOK /\ RunInv(r) /\ main \subseteq everMain
  BY DEF Inv
<1>2. SameOrigin /\ OthersStay(r) /\ UNCHANGED <<repository, release>>
  BY <1>1 DEF Start, Context, Gate, Upload, Download, View, Bundle, Break,
              RerunAll, RerunFailed, SameOrigin, OthersStay, TypeOK
<1> SUFFICES ValidInv(r)' /\ StepInv(r)' /\ GreenInv(r)'
  BY <1>2, RunStays
<1>3. Admitted(r)' <=> Admitted(r)
  BY <1>2 DEF SameOrigin, Admitted, repository
<1>4. Published(ref[r])' <=> Published(ref[r])
  BY <1>2 DEF SameOrigin, Published
<1> USE <1>1, <1>2, <1>3, <1>4
    DEF TypeOK, RunInv, ValidInv, StepInv, GreenInv, SameOrigin, Validating,
        Publishing
<1>5. CASE Start(r)
  BY <1>5 DEF Start
<1>6. CASE Context(r)
  <2>1. ContextOk(r) => Admitted(r)
    BY DEF ContextOk, TagContext, Admitted
  <2> QED
    BY <1>6, <2>1 DEF Context
<1>7. CASE Gate(r)
  BY <1>7 DEF Gate
<1>8. CASE Upload(r)
  <2>1. Admitted(r)
    BY <1>8 DEF Upload
  <2>2. valid'[r] = checked[r]
    BY <1>8 DEF Upload
  <2>3. event[r] = "push" => ref[r] \in Tags
    BY DEF PushInv
  <2> QED
    BY <1>8, <2>1, <2>2, <2>3 DEF Upload, PublishIf
<1>9. CASE Download(r) \/ View(r) \/ Bundle(r)
  BY <1>9 DEF Download, View, Bundle
<1>10. CASE Break(r)
  BY <1>10 DEF Break
<1>11. CASE RerunAll(r)
  BY <1>11 DEF RerunAll
<1>12. CASE RerunFailed(r)
  BY <1>12 DEF RerunFailed
<1> QED
  BY <1>5, <1>6, <1>7, <1>8, <1>9, <1>10, <1>11, <1>12

\* The publication: with evidence of the run's own commit, on the run's own tag.
LEMMA CreateStep ==
  ASSUME Inv, TypeOK', NEW r \in Runs, Create(r) PROVE Inv'
<1> DEFINE t == ref[r]
<1>1. TypeOK /\ RunInv(r) /\ event[r] = "push" /\ valid[r]
  BY DEF Inv, RunInv, StepInv, Create, Publishing
<1>2. /\ t \in Tags /\ Admitted(r)
      /\ evidence[r] = [of |-> sha[r], passed |-> TRUE]
      /\ t \notin retagged => tagAt[t] = sha[r] /\ sha[r] \in Commits
  BY <1>1 DEF RunInv, PushInv, ValidInv
<1>3. PICK c \in Tagged(t) :
        /\ release' = [release EXCEPT ![t] =
                         [state |-> "published", of |-> c,
                          evidence |-> evidence[r]]]
        /\ tagAt' = [tagAt EXCEPT ![t] = c]
  BY DEF Create
<1>4. t \notin retagged => c = sha[r] /\ tagAt' = tagAt
  BY <1>1, <1>2, <1>3, CommitsAssumption DEF Tagged, TypeOK
<1>5. /\ release'[t].state = "published" /\ release'[t].of = c
      /\ release'[t].evidence = [of |-> sha[r], passed |-> TRUE]
      /\ \A u \in Tags \ {t} : release'[u] = release[u]
  BY <1>1, <1>2, <1>3 DEF TypeOK
<1>6. /\ SameOrigin /\ UNCHANGED <<main, everMain, retagged, valid, evidence>>
      /\ at' = [at EXCEPT ![r] = "done"]
      /\ result' = [result EXCEPT ![r] = "success"]
      /\ release[t].state # "published"
  BY DEF Create, End, SameOrigin, origin
<1>7. ASSUME NEW q \in Runs PROVE RunInv(q)'
  <2>1. RunInv(q)
    BY DEF Inv
  <2>2. PushInv(q)'
    BY <2>1, <1>1, <1>2, <1>3, <1>4, <1>6 DEF RunInv, PushInv, SameOrigin, TypeOK
  <2>3. Admitted(q)' <=> Admitted(q)
    BY <1>6 DEF Admitted, SameOrigin
  <2>4. ValidInv(q)' /\ StepInv(q)'
    BY <2>1, <2>3, <1>1, <1>6
       DEF RunInv, ValidInv, StepInv, SameOrigin, Publishing, TypeOK
  <2>5. GreenInv(q)'
    <3>1. CASE q = r
      BY <3>1, <1>5, <1>6 DEF GreenInv, Published, SameOrigin
    <3>2. CASE q # r
      <4>1. event[q] = "push" /\ result'[q] = "success" =>
              /\ ref[q] \in Tags /\ Published(ref[q])
              /\ release[ref[q]].evidence.of = sha[q]
        BY <2>1, <3>2, <1>6 DEF RunInv, PushInv, GreenInv
      <4>2. Published(ref[q]) => ref[q] # t
        BY <1>6 DEF Published
      <4> QED
        BY <4>1, <4>2, <1>5, <1>6 DEF GreenInv, Published, SameOrigin
    <3> QED
      BY <3>1, <3>2
  <2> QED
    BY <2>2, <2>4, <2>5 DEF RunInv
<1>8. ASSUME NEW u \in Tags PROVE ReleaseInv(u)'
  <2>1. CASE u = t
    <3>1. [of |-> sha[r], passed |-> TRUE] # None
      <4>1. sha[r] \in Commits
        BY <1>1 DEF RunInv, PushInv
      <4>2. [of |-> sha[r], passed |-> TRUE] \in Evidence
        BY <4>1 DEF Evidence
      <4> QED
        BY <4>2, CommitsAssumption
    <3> QED
      BY <2>1, <3>1, <1>1, <1>2, <1>4, <1>5, <1>6
         DEF ReleaseInv, Published, Admitted
  <2>2. CASE u # t
    BY <2>2, <1>5, <1>6 DEF Inv, ReleaseInv, Published
  <2> QED
    BY <2>1, <2>2
<1>9. main' \subseteq everMain'
  BY <1>6 DEF Inv
<1> QED
  BY <1>7, <1>8, <1>9 DEF Inv

\* gh release create that dies half way leaves at most a draft of its run.
LEMMA CreateFailsStep ==
  ASSUME Inv, TypeOK', NEW r \in Runs, CreateFails(r) PROVE Inv'
<1>1. TypeOK
  BY DEF Inv
<1>2. /\ SameOrigin /\ UNCHANGED <<repository, valid, evidence>>
      /\ at' = [at EXCEPT ![r] = "done"]
      /\ result' = [result EXCEPT ![r] = "failure"]
      /\ at[r] = "create"
  BY DEF CreateFails, End, SameOrigin, origin
<1>3. \A t \in Tags : /\ Published(t)' <=> Published(t)
                      /\ Published(t) => release'[t] = release[t]
  BY <1>1 DEF CreateFails, Published, TypeOK
<1>4. ASSUME NEW q \in Runs PROVE RunInv(q)'
  <2>1. RunInv(q)
    BY DEF Inv
  <2>2. PushInv(q)' /\ (Admitted(q)' <=> Admitted(q))
    BY <2>1, <1>2 DEF RunInv, PushInv, Admitted, SameOrigin, repository
  <2>3. ValidInv(q)' /\ StepInv(q)'
    BY <2>1, <2>2, <1>1, <1>2
       DEF RunInv, ValidInv, StepInv, SameOrigin, Publishing, TypeOK
  <2>4. event[q] = "push" /\ result'[q] = "success" =>
          /\ ref[q] \in Tags /\ Published(ref[q])
          /\ release[ref[q]].evidence.of = sha[q]
    <3>1. result'[q] = "success" => q # r /\ result'[q] = result[q]
      BY <1>1, <1>2 DEF TypeOK
    <3> QED
      BY <2>1, <3>1 DEF RunInv, PushInv, GreenInv
  <2>5. GreenInv(q)'
    BY <2>4, <1>2, <1>3 DEF GreenInv, SameOrigin, Published
  <2> QED
    BY <2>2, <2>3, <2>5 DEF RunInv
<1>5. ASSUME NEW t \in Tags PROVE ReleaseInv(t)'
  BY <1>2, <1>3 DEF Inv, ReleaseInv, repository
<1> QED
  BY <1>2, <1>4, <1>5 DEF Inv, repository

\* A new run: nothing was known of it, and it is the first of its tag, unless
\* the tag was moved.
LEMMA TriggerStep ==
  ASSUME Inv, TypeOK', NEW r \in Runs, NEW x, NEW c \in Commits,
         \/ x \in Tags /\ PushTag(r, x, c)
         \/ x \in Branches \cup Tags /\ Dispatch(r, x, c)
  PROVE  Inv'
<1> DEFINE ev == event'[r]
<1>1. TypeOK /\ RunInv(r)
  BY DEF Inv
<1>2. /\ at[r] = "none" /\ at' = [at EXCEPT ![r] = "queued"]
      /\ ref' = [ref EXCEPT ![r] = x] /\ sha' = [sha EXCEPT ![r] = c]
      /\ UNCHANGED <<main, everMain, release, valid, evidence, result>>
  BY DEF PushTag, Dispatch, Trigger, repository
<1>3. ~valid[r] /\ result[r] # "success"
  BY <1>1, <1>2 DEF RunInv, StepInv
<1>4. \/ /\ event' = [event EXCEPT ![r] = "push"]
         /\ x \in Tags /\ tagAt' = [tagAt EXCEPT ![x] = c]
         /\ tagAt[x] # None => x \in retagged'
         /\ retagged \subseteq retagged'
      \/ /\ event' = [event EXCEPT ![r] = "workflow_dispatch"]
         /\ UNCHANGED <<tagAt, retagged>>
  BY DEF PushTag, Dispatch, Trigger, repository
<1>5. ASSUME NEW q \in Runs PROVE RunInv(q)'
  <2>1. RunInv(q)
    BY DEF Inv
  <2>2. CASE q = r
    <3>1. PushInv(q)'
      BY <2>2, <1>1, <1>2, <1>4 DEF PushInv, TypeOK
    <3>2. /\ at'[q] = "queued" /\ sha'[q] = c /\ valid'[q] = valid[r]
          /\ result'[q] = result[r]
      BY <2>2, <1>1, <1>2 DEF TypeOK
    <3> QED
      BY <2>2, <3>1, <3>2, <1>3
         DEF RunInv, ValidInv, StepInv, GreenInv, Publishing
  <2>3. CASE q # r
    <3>1. /\ at'[q] = at[q] /\ ref'[q] = ref[q] /\ sha'[q] = sha[q]
          /\ event'[q] = event[q]
      BY <2>3, <1>1, <1>2, <1>4 DEF TypeOK
    <3>2. PushInv(q)'
      <4>1. SUFFICES ASSUME event[q] = "push", ref[q] \notin retagged'
                     PROVE  tagAt'[ref[q]] = sha[q]
        BY <2>1, <3>1 DEF RunInv, PushInv
      <4>2. /\ ref[q] \in Tags /\ tagAt[ref[q]] = sha[q] /\ sha[q] # None
        BY <2>1, <4>1, <1>4, CommitsAssumption DEF RunInv, PushInv
      <4> QED
        BY <4>1, <4>2, <1>1, <1>4 DEF TypeOK
    <3> QED
      BY <2>1, <3>1, <3>2, <1>2
         DEF RunInv, ValidInv, StepInv, GreenInv, Admitted, Published, Publishing
  <2> QED
    BY <2>2, <2>3
<1>6. ASSUME NEW t \in Tags PROVE ReleaseInv(t)'
  BY <1>2, <1>4 DEF Inv, ReleaseInv, Published
<1> QED
  BY <1>2, <1>5, <1>6 DEF Inv

\* Tags and main that are moved: what was said of them is history by then.
LEMMA RepositoryStep ==
  ASSUME Inv, TypeOK',
         \/ \E t \in Tags : DeleteTag(t)
         \/ \E c \in Commits : Merge(c) \/ Rewrite(c)
  PROVE  Inv'
<1>1. /\ SameOrigin
      /\ UNCHANGED <<release, at, checked, valid, evidence, result>>
  BY DEF DeleteTag, Merge, Rewrite, SameOrigin, origin
<1>2. /\ everMain \subseteq everMain' /\ retagged \subseteq retagged'
      /\ main' \subseteq everMain'
      /\ \A t \in Tags \ retagged' : tagAt'[t] = tagAt[t]
  BY DEF DeleteTag, Merge, Rewrite, Inv, TypeOK
<1>3. ASSUME NEW r \in Runs PROVE RunInv(r)'
  <2>1. RunInv(r)
    BY DEF Inv
  <2>2. PushInv(r)' /\ (Admitted(r) => Admitted(r)')
    BY <2>1, <1>1, <1>2 DEF RunInv, PushInv, Admitted, SameOrigin
  <2> QED
    BY <2>1, <2>2, <1>1
       DEF RunInv, ValidInv, StepInv, GreenInv, SameOrigin, Published, Publishing
<1>4. ASSUME NEW t \in Tags PROVE ReleaseInv(t)'
  BY <1>1, <1>2 DEF Inv, ReleaseInv, Published
<1> QED
  BY <1>2, <1>3, <1>4 DEF Inv

\* Every step of a run, and every push, dispatch and re-run, keeps it.
LEMMA InvStep == Inv /\ [Next]_vars => Inv'
<1> SUFFICES ASSUME Inv, [Next]_vars PROVE Inv'
  OBVIOUS
<1>1. TypeOK'
  BY TypeStep
<1>2. ASSUME NEW r \in Runs, RunStep(r) PROVE Inv'
  BY <1>1, <1>2, QuietStep, CreateStep, CreateFailsStep DEF RunStep
<1>3. ASSUME NEW r \in Runs, NEW t \in Tags, NEW c \in Commits, PushTag(r, t, c)
      PROVE  Inv'
  BY <1>1, <1>3, TriggerStep
<1>4. ASSUME NEW r \in Runs, NEW x \in Branches \cup Tags, NEW c \in Commits,
             Dispatch(r, x, c)
      PROVE  Inv'
  BY <1>1, <1>4, TriggerStep
<1>5. CASE \/ \E t \in Tags : DeleteTag(t)
           \/ \E c \in Commits : Merge(c) \/ Rewrite(c)
  BY <1>1, <1>5, RepositoryStep
<1>6. CASE UNCHANGED vars
  BY <1>1, <1>6
     DEF vars, repository, origin, Inv, RunInv, PushInv, ValidInv, StepInv,
         GreenInv, Admitted, ReleaseInv, Published
<1> QED
  BY <1>2, <1>3, <1>4, <1>5, <1>6 DEF Next

(* The workflow, over any history of pushes, moves, failures and re-runs.  *)
THEOREM ReleaseInvariance == Spec => []Inv
<1> QED
  BY InitInv, InvStep, PTL DEF Spec

(* What is published was validated; it is what its tag points at, unless   *)
(* the tag was moved; a green run of a tag has published; a dry run never  *)
(* gets there.                                                             *)
THEOREM ReleaseSafety ==
  Spec => [](PublishedIsVerified /\ EvidenceOfTag /\ GreenMeansPublished
             /\ DryRunNeverPublishes)
<1>1. Inv => /\ PublishedIsVerified /\ EvidenceOfTag /\ GreenMeansPublished
             /\ DryRunNeverPublishes
  <2> SUFFICES ASSUME Inv
               PROVE  /\ PublishedIsVerified /\ EvidenceOfTag
                      /\ GreenMeansPublished /\ DryRunNeverPublishes
    OBVIOUS
  <2>1. PublishedIsVerified /\ EvidenceOfTag
    BY DEF Inv, ReleaseInv, PublishedIsVerified, EvidenceOfTag
  <2>2. GreenMeansPublished
    BY DEF Inv, RunInv, GreenInv, GreenMeansPublished
  <2>3. DryRunNeverPublishes
    BY DEF Inv, RunInv, StepInv, DryRunNeverPublishes
  <2> QED
    BY <2>1, <2>2, <2>3
<1> QED
  BY <1>1, ReleaseInvariance, PTL

(* No later run, and no earlier one that is run again, changes a published *)
(* release.                                                                *)
THEOREM ReleasesStay == Spec => Immutable
<1>1. Inv /\ [Next]_vars =>
        [\A t \in Tags : Published(t) => release'[t] = release[t]]_vars
  <2> SUFFICES ASSUME Inv, Next, NEW t \in Tags, Published(t)
               PROVE  release'[t] = release[t]
    OBVIOUS
  <2>1. release \in [Tags -> [state : {"none", "draft", "published"},
                              of : Commits \cup {None},
                              evidence : Evidence \cup {None}]]
    BY DEF Inv, TypeOK
  <2>2. ASSUME NEW r \in Runs, RunStep(r) PROVE release'[t] = release[t]
    <3>1. CASE Create(r)
      BY <3>1, <2>1 DEF Create, Published
    <3>2. CASE CreateFails(r)
      BY <3>2, <2>1 DEF CreateFails, Published
    <3>3. CASE UNCHANGED release
      BY <3>3
    <3> QED
      BY <2>2, <3>1, <3>2, <3>3
         DEF RunStep, Start, Context, Gate, Upload, Download, View, Bundle,
             Break, RerunAll, RerunFailed
  <2>3. CASE UNCHANGED release
    BY <2>3
  <2> QED
    BY <2>2, <2>3
       DEF Next, PushTag, Dispatch, Trigger, DeleteTag, Merge, Rewrite
<1> QED
  BY <1>1, ReleaseInvariance, PTL DEF Spec, Immutable
-----------------------------------------------------------------------------
(* The promise.                                                            *)

\* What a reader of releases sees of a step.
Unseen == UNCHANGED <<everMain, retagged, release>>

(* gh release create publishes what its run was admitted with: evidence of *)
(* a commit that may be released, under the tag that the run is of.        *)
LEMMA CreatePublishes ==
  ASSUME Inv, NEW r \in Runs, Create(r) PROVE Promise!Next
<1> DEFINE t == ref[r]
           c == sha[r]
<1>1. TypeOK /\ RunInv(r) /\ event[r] = "push" /\ valid[r] /\ at[r] = "create"
  BY DEF Inv, RunInv, StepInv, Create, Publishing
<1>2. /\ t \in Tags /\ c \in Commits
      /\ t = VersionTag[c] /\ c \in WithNotes \cap everMain
      /\ evidence[r] = [of |-> c, passed |-> TRUE]
      /\ t \notin retagged => tagAt[t] = c
  BY <1>1 DEF RunInv, PushInv, ValidInv, Admitted
<1>3. PICK d \in Tagged(t) :
        release' = [release EXCEPT ![t] =
                      [state |-> "published", of |-> d, evidence |-> evidence[r]]]
  BY DEF Create
<1>4. d \in Commits /\ (t \notin retagged => d = c)
  BY <1>1, <1>2, <1>3, CommitsAssumption DEF Tagged, TypeOK, Inv
<1>5. release[t].state # "published" /\ UNCHANGED <<everMain, retagged>>
  BY DEF Create
<1>6. Promise!Publish(t, c, d)
  BY <1>2, <1>3, <1>4, <1>5 DEF Promise!Publish, Promise!Releasable
<1> QED
  BY <1>2, <1>4, <1>6 DEF Promise!Next

(* One that dies half way leaves no more than a draft of such a release.   *)
LEMMA CreateFailsDrafts ==
  ASSUME Inv, NEW r \in Runs, CreateFails(r) PROVE Promise!Next \/ Unseen
<1>1. RunInv(r) /\ event[r] = "push" /\ valid[r]
  BY DEF Inv, RunInv, StepInv, CreateFails, Publishing
<1>2. /\ ref[r] \in Tags /\ ref[r] = VersionTag[sha[r]]
      /\ sha[r] \in WithNotes \cap everMain
  BY <1>1 DEF RunInv, PushInv, ValidInv, Admitted
<1>3. UNCHANGED <<everMain, retagged>>
  BY DEF CreateFails, repository
<1>4. CASE UNCHANGED release
  BY <1>3, <1>4 DEF Unseen
<1>5. CASE /\ release[ref[r]].state = "none"
           /\ release' = [release EXCEPT ![ref[r]].state = "draft"]
  <2>1. Promise!Draft(ref[r])
    BY <1>2, <1>3, <1>5 DEF Promise!Draft, Promise!Releasable
  <2> QED
    BY <1>2, <2>1 DEF Promise!Next
<1> QED
  BY <1>4, <1>5 DEF CreateFails

(* Every other step of a run is no business of the reader's.               *)
LEMMA RunsUnseen ==
  ASSUME NEW r \in Runs, RunStep(r), ~Create(r), ~CreateFails(r) PROVE Unseen
BY DEF RunStep, Start, Context, Gate, Upload, Download, View, Bundle, Break,
       RerunAll, RerunFailed, Unseen, repository

(* Every step of the workflow or of its repository is a step of the        *)
(* promise, or none of its business.                                       *)
LEMMA StepPromised ==
  ASSUME Inv, [Next]_vars PROVE Promise!Next \/ Unseen
<1>1. ASSUME NEW r \in Runs, RunStep(r) PROVE Promise!Next \/ Unseen
  BY <1>1, CreatePublishes, CreateFailsDrafts, RunsUnseen
<1>2. ASSUME NEW r \in Runs, NEW t \in Tags, NEW c \in Commits, PushTag(r, t, c)
      PROVE  Promise!Next \/ Unseen
  <2>1. UNCHANGED <<everMain, release>>
        /\ (retagged' = retagged \/ retagged' = retagged \cup {t})
    BY <1>2 DEF PushTag, Trigger
  <2> QED
    BY <2>1 DEF Unseen, Promise!Next, Promise!Retag
<1>3. ASSUME NEW r \in Runs, NEW x \in Branches \cup Tags, NEW c \in Commits,
             Dispatch(r, x, c)
      PROVE  Unseen
  BY <1>3 DEF Dispatch, Trigger, repository, Unseen
<1>4. ASSUME NEW t \in Tags, DeleteTag(t) PROVE Promise!Next
  BY <1>4 DEF DeleteTag, Promise!Next, Promise!Retag
<1>5. ASSUME NEW c \in Commits, Merge(c) PROVE Promise!Next
  BY <1>5 DEF Merge, Promise!Next, Promise!Merge
<1>6. ASSUME NEW c \in Commits, Rewrite(c) PROVE Unseen
  BY <1>6 DEF Rewrite, Unseen
<1>7. CASE UNCHANGED vars
  BY <1>7 DEF vars, repository, Unseen
<1> QED
  BY <1>1, <1>2, <1>3, <1>4, <1>5, <1>6, <1>7 DEF Next

(* The workflow implements its promise: any number of runs, queued, broken *)
(* off, overlapping or started again, release a tag at most once, and from *)
(* what was verified.                                                      *)
THEOREM PromiseKept == Spec => ReleasesAsPromised
<1>1. Init => Promise!Init
  BY DEF Init, Promise!Init, NoRelease
<1>2. Inv /\ [Next]_vars => [Promise!Next]_(Promise!vars)
  BY StepPromised DEF Unseen, Promise!vars
<1> QED
  BY <1>1, <1>2, ReleaseInvariance, PTL
     DEF Spec, ReleasesAsPromised, Promise!Spec
=============================================================================
