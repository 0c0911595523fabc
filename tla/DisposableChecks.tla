--------------------------- MODULE DisposableChecks ---------------------------
(***************************************************************************)
(* The checks of make release-check that try the release image out on      *)
(* throw-away Docker resources of their own (scripts/smoke,                *)
(* scripts/verify, scripts/build, scripts/security): what they create, in  *)
(* which order, what their finally clauses remove, and make clean, while   *)
(* Docker calls fail before or after their effect, time out with the       *)
(* daemon still at work on them, and checks are interrupted or killed.     *)
(***************************************************************************)
EXTENDS Integers, Sequences

CONSTANT Checks  \* the scripts that are run: names of Plan
-----------------------------------------------------------------------------
(* The steps of a check.                                                   *)

Run(r) == [op |-> "run", on |-> r]        \* docker run -d: create and start
Make(r) == [op |-> "make", on |-> r]      \* docker create, load, network create
Keep(r) == [op |-> "keep", on |-> r]      \* created_*.append
Demand(r) == [op |-> "demand", on |-> r]  \* a call that raises when it fails
Check(r) == [op |-> "check", on |-> r]    \* a call that notes how it went

\* A try with its finally; named are the resources the finally clause knows
\* without their having been kept.
Block(try, finally, named) == [try |-> try, finally |-> finally, named |-> named]
Own(try, finally) ==
  Block(try, finally, {finally[i] : i \in DOMAIN finally})

AuditPlan ==
  << Own(<< Run("audit"), Demand("audit"), Check("audit") >>, << "audit" >>) >>

SecurityPlan ==
  << Own(<< Run("security"), Demand("security"), Check("security") >>,
         << "security" >>) >>

SingleRole == Own(<< Run("smoke"), Demand("smoke") >>, << "smoke" >>)

\* Mutant: the network is removed before the containers that are on it.
MultiRoleNetworkFirst ==
  Own(<< Make("net"), Run("state"), Run("app"), Run("gateway"),
         Demand("state"), Demand("app"), Demand("gateway") >>,
      << "net", "state", "app", "gateway" >>)

MultiRole ==
  Own(<< Make("net"), Run("state"), Run("app"), Run("gateway"),
         Demand("state"), Demand("app"), Demand("gateway") >>,
      << "state", "app", "gateway", "net" >>)

SmokePlan == << SingleRole, MultiRole >>

\* What it creates is removed only once it is kept.
ReproPlan ==
  << Block(<< Make("imageA"), Keep("imageA"), Make("imageB"), Keep("imageB"), Demand("imageB"),
              Run("reproA"), Keep("reproA"), Demand("reproA"),
              Run("reproB"), Keep("reproB"), Demand("reproB"),
              Check("reproB") >>,
           << "reproA", "reproB", "imageA", "imageB" >>, {}) >>

\* The pull before the create can only fail as the create does; the metadata
\* is classified behind the finally clause.
PatchPlan == << Own(<< Make("patch"), Demand("patch"), Check("patch") >>,
                    << "patch" >>) >>

Plan == [audit |-> AuditPlan, security |-> SecurityPlan, smoke |-> SmokePlan,
         repro |-> ReproPlan, patch |-> PatchPlan]

ASSUME ChecksAssumption == Checks \subseteq DOMAIN Plan

\* Mutant: the containers of reproducibility_check are forgotten.
SweepsNoRepro ==
  << {"smoke", "state", "app", "gateway", "security", "audit"}, {"net"},
     {"imageA", "imageB"} >>

\* What make clean lists, line by line.
Sweeps ==
  << {"smoke", "state", "app", "gateway", "security", "audit"}, {"net"},
     {"reproA", "reproB"}, {"imageA", "imageB"} >>

Resources ==
  {"audit", "security", "smoke", "net", "state", "app", "gateway",
   "imageA", "imageB", "reproA", "reproB", "patch"}
-----------------------------------------------------------------------------
VARIABLES
  \* the script
  check, block, pc,  \* its step: Plan[check][block].try[pc]
  at,                \* "try", "finally" or "done"
  kept,              \* what its finally clause would remove
  broom,             \* what its finally clause has left to remove
  failed,            \* whether it raised, or noted a failure
  exit,
  \* the Docker daemon
  exists,
  late, lateRemoval, \* requests whose caller is gone
  \* make clean
  sweep,             \* its line, 0 before and -1 after it failed
  \* history
  unanswered,        \* creations whose answer was never seen
  unremoved,         \* removals that Docker refused, timed out or never asked for
  quiet              \* make clean began when no check or request was under way

script == <<check, block, pc, at, kept, broom, failed, exit>>
daemon == <<exists, late, lateRemoval>>
vars == <<script, daemon, sweep, unanswered, unremoved, quiet>>

Init ==
  /\ check \in Checks
  /\ block = 1 /\ pc = 1 /\ at = "try"
  /\ kept = Plan[check][1].named
  /\ broom = {}
  /\ failed = FALSE /\ exit = "none"
  /\ exists = {} /\ late = {} /\ lateRemoval = {}
  /\ sweep = 0
  /\ unanswered = {} /\ unremoved = {}
  /\ quiet = FALSE
-----------------------------------------------------------------------------
(* Inside try.                                                             *)

Try == Plan[check][block].try
AtStep(op) == at = "try" /\ pc \in DOMAIN Try /\ Try[pc].op = op
It == Try[pc].on

Advance ==
  pc' = pc + 1 /\ UNCHANGED <<check, block, at, kept, broom, failed, exit>>

ToFinally ==
  /\ at' = "finally"
  /\ broom' = kept
  /\ UNCHANGED <<check, block, pc, kept, exit>>

\* Mutant: the resource of the step that failed is not removed.
RaiseSkipsOwn ==
  /\ at' = "finally"
  /\ failed' = TRUE
  /\ broom' = {r \in kept : pc \in DOMAIN Try => r # It}
  /\ UNCHANGED <<check, block, pc, kept, exit>>

Raise == failed' = TRUE /\ ToFinally

Creating == AtStep("run") \/ AtStep("make")

Created ==
  /\ Creating
  /\ exists' = exists \cup {It}
  /\ Advance
  /\ UNCHANGED <<late, lateRemoval, sweep, unanswered, unremoved, quiet>>

\* A docker run that cannot start its container leaves it created.
CreateRefused ==
  /\ Creating
  /\ \/ UNCHANGED exists
     \/ AtStep("run") /\ exists' = exists \cup {It}
  /\ Raise
  /\ UNCHANGED <<late, lateRemoval, sweep, unanswered, unremoved, quiet>>

\* The CLI is killed: by its timeout, or with the script's interrupt.
CreateTimesOut ==
  /\ Creating
  /\ late' = late \cup {It}
  /\ unanswered' = unanswered \cup {It}
  /\ Raise
  /\ UNCHANGED <<exists, lateRemoval, sweep, unremoved, quiet>>

KeepIt ==
  /\ AtStep("keep")
  /\ kept' = kept \cup {It}
  /\ pc' = pc + 1
  /\ UNCHANGED <<check, block, at, broom, failed, exit, daemon, sweep,
                 unanswered, unremoved, quiet>>

\* On a container that make clean has taken away a call cannot succeed.
Succeeds ==
  /\ AtStep("demand") \/ AtStep("check")
  /\ It \in exists
  /\ Advance
  /\ UNCHANGED <<daemon, sweep, unanswered, unremoved, quiet>>

NotesFailure ==
  /\ AtStep("check")
  /\ failed' = TRUE
  /\ pc' = pc + 1
  /\ UNCHANGED <<check, block, at, kept, broom, exit, daemon, sweep,
                 unanswered, unremoved, quiet>>

\* A demand fails, a call times out, Ctrl-C.
Raises ==
  /\ AtStep("demand") \/ AtStep("check") \/ AtStep("keep")
  /\ Raise
  /\ UNCHANGED <<daemon, sweep, unanswered, unremoved, quiet>>

EndOfTry ==
  /\ at = "try" /\ pc = Len(Try) + 1
  /\ UNCHANGED failed
  /\ ToFinally
  /\ UNCHANGED <<daemon, sweep, unanswered, unremoved, quiet>>
-----------------------------------------------------------------------------
(* Inside finally: no return code is looked at.                            *)

Finally == Plan[check][block].finally

\* The one that finally names next.
Removing(r) ==
  /\ at = "finally" /\ r \in broom
  /\ \E i \in DOMAIN Finally :
       r = Finally[i] /\ \A j \in 1..(i - 1) : Finally[j] \notin broom

NextRemoval(r) ==
  broom' = broom \ {r} /\ UNCHANGED <<check, block, pc, at, kept, failed, exit>>

\* Of what is in use Docker refuses the removal, but not always: a container
\* that did not start does not hold its network.
Removed(r) ==
  /\ Removing(r)
  /\ exists' = exists \ {r}
  /\ NextRemoval(r)
  /\ UNCHANGED <<late, lateRemoval, sweep, unanswered, unremoved, quiet>>

Users == [r \in Resources |->
  CASE r = "net" -> {"state", "app", "gateway"}
    [] r = "imageA" -> {"reproA"}
    [] r = "imageB" -> {"reproB"}
    [] OTHER -> {}]

InUse(r) == Users[r] \cap exists # {}

\* That a resource is in use is the script's own doing; any other reason is not.
RemovalRefused(r) ==
  /\ Removing(r)
  /\ r \in exists
  /\ unremoved' = IF InUse(r) THEN unremoved ELSE unremoved \cup {r}
  /\ NextRemoval(r)
  /\ UNCHANGED <<daemon, sweep, unanswered, quiet>>

\* TimeoutExpired leaves the finally clause: what comes after is not removed.
RemovalTimesOut(r) ==
  /\ Removing(r)
  /\ lateRemoval' = lateRemoval \cup {r}
  /\ unremoved' = unremoved \cup broom
  /\ at' = "done" /\ exit' = "failure" /\ failed' = TRUE
  /\ UNCHANGED <<check, block, pc, kept, broom, exists, late, sweep,
                 unanswered, quiet>>

EndOfFinally ==
  /\ at = "finally" /\ broom = {}
  /\ IF ~failed /\ block < Len(Plan[check])
     THEN /\ block' = block + 1 /\ pc' = 1 /\ at' = "try"
          /\ kept' = Plan[check][block + 1].named
          /\ UNCHANGED <<check, broom, failed, exit>>
     ELSE /\ at' = "done"
          /\ exit' = IF failed THEN "failure" ELSE "success"
          /\ UNCHANGED <<check, block, pc, kept, broom, failed>>
  /\ UNCHANGED <<daemon, sweep, unanswered, unremoved, quiet>>

\* SIGTERM, SIGKILL, a lost runner: no finally clause is run. The daemon may
\* still be at work on the call that was under way.
Killed ==
  /\ at # "done"
  /\ at' = "done" /\ exit' = "killed"
  /\ late' = IF Creating THEN late \cup {It} ELSE late
  /\ lateRemoval' = lateRemoval \cup {r \in Resources : Removing(r)}
  /\ UNCHANGED <<check, block, pc, kept, broom, failed, exists, sweep,
                 unanswered, unremoved, quiet>>
-----------------------------------------------------------------------------
(* The daemon with the requests of callers that are gone.                  *)

LateCreate(r) ==
  /\ r \in late
  /\ late' = late \ {r}
  /\ exists' = exists \cup {r}
  /\ UNCHANGED <<script, lateRemoval, sweep, unanswered, unremoved, quiet>>

LateRemove(r) ==
  /\ r \in lateRemoval
  /\ lateRemoval' = lateRemoval \ {r}
  /\ exists' = exists \ {r}
  /\ UNCHANGED <<script, late, sweep, unanswered, unremoved, quiet>>

Forget(r) ==
  /\ r \in late \cup lateRemoval
  /\ late' = late \ {r}
  /\ lateRemoval' = lateRemoval \ {r}
  /\ UNCHANGED <<script, exists, sweep, unanswered, unremoved, quiet>>
-----------------------------------------------------------------------------
(* make clean, which may be run while a check is.                          *)

StartClean ==
  /\ sweep = 0
  /\ sweep' = 1
  /\ quiet' = (at = "done" /\ late = {})
  /\ UNCHANGED <<script, daemon, unanswered, unremoved>>

SweepLine ==
  /\ sweep \in DOMAIN Sweeps
  /\ exists' = exists \ Sweeps[sweep]
  /\ sweep' = sweep + 1
  /\ UNCHANGED <<script, late, lateRemoval, unanswered, unremoved, quiet>>

\* A removal that is refused is the end of it.
SweepFails ==
  /\ sweep \in DOMAIN Sweeps
  /\ Sweeps[sweep] \cap exists # {}
  /\ \E gone \in SUBSET (Sweeps[sweep] \cap exists) : exists' = exists \ gone
  /\ sweep' = -1
  /\ UNCHANGED <<script, late, lateRemoval, unanswered, unremoved, quiet>>

Next ==
  \/ Created \/ CreateRefused \/ CreateTimesOut \/ KeepIt
  \/ Succeeds \/ NotesFailure \/ Raises \/ EndOfTry
  \/ \E r \in Resources : Removed(r) \/ RemovalRefused(r) \/ RemovalTimesOut(r)
  \/ EndOfFinally \/ Killed
  \/ \E r \in Resources : LateCreate(r) \/ LateRemove(r) \/ Forget(r)
  \/ StartClean \/ SweepLine \/ SweepFails

Spec == Init /\ [][Next]_vars
-----------------------------------------------------------------------------
TypeOK ==
  /\ check \in Checks /\ block \in DOMAIN Plan[check]
  /\ at \in {"try", "finally", "done"}
  /\ pc \in 1..(Len(Try) + 1)
  /\ kept \subseteq Resources /\ broom \subseteq kept
  /\ failed \in BOOLEAN /\ exit \in {"none", "success", "failure", "killed"}
  /\ exists \subseteq Resources
  /\ late \subseteq Resources /\ lateRemoval \subseteq Resources
  /\ sweep \in -1..(Len(Sweeps) + 1)
  /\ unanswered \subseteq Resources /\ unremoved \subseteq Resources
  /\ quiet \in BOOLEAN

Leftover == exists \cup late
AndWhatTheyUse(rs) == rs \cup {r \in Resources : Users[r] \cap rs # {}}
Unkept == IF check = "repro" THEN Resources \ kept ELSE {}

(* A check that passes has left nothing, unless Docker refused to remove   *)
(* it, or what uses it: no creation went unseen, every one was kept,       *)
(* nothing was removed too early to succeed, and no removal was cut short. *)
GreenIsClean ==
  exit = "success" => Leftover \subseteq AndWhatTheyUse(unremoved)

(* A check that fails, wherever it does, leaves only what a removal failed *)
(* on, what the daemon was still creating, in reproducibility_check what   *)
(* was not kept yet, and what these still use.                             *)
FailureIsClean ==
  exit = "failure" =>
    Leftover \subseteq AndWhatTheyUse(unremoved \cup unanswered \cup Unkept)

(* A make clean that succeeds, with nothing under way, takes whatever the  *)
(* checks left, killed ones too, but the container of                      *)
(* patch_lifecycle_check, whose name it does not know.                     *)
CleanTakesTheRest ==
  quiet /\ sweep > Len(Sweeps) => exists \subseteq {"patch"}
=============================================================================
