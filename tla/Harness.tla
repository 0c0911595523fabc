------------------------------- MODULE Harness -------------------------------
(***************************************************************************)
(* main of the two scripts that drive a real Compose stack: the            *)
(* reliability check (scripts/reliability/reliability_check.py) and the    *)
(* Compose integration check (scripts/compose/compose_integration.py),     *)
(* with their nested finally clauses, SIGTERM at any point, and the        *)
(* containers they pause, crash, starve, stop and tear down.               *)
(*                                                                         *)
(* Docker and the platform are the environment, and not always a good one: *)
(* a volume that keeps nothing, a daemon that restarts what was stopped.   *)
(* A check is worth something when it does not pass on such a platform.    *)
(***************************************************************************)
EXTENDS Naturals, Sequences

CONSTANTS
  MaxRestarts,  \* EXPECTED_RESTART_MAX_ATTEMPTS: on-failure:3
  MaxCrashes,   \* bound: crashes nobody asked for
  MaxSignals    \* bound: SIGTERMs the script receives

ASSUME MaxRestartsAssumption == MaxRestarts \in Nat \ {0}
ASSUME MaxCrashesAssumption == MaxCrashes \in Nat
ASSUME MaxSignalsAssumption == MaxSignals \in Nat

VARIABLES
  \* the script
  script,    \* which of the two
  pos,       \* the next step of its try block
  mode,      \* in the try block, a nested finally, the teardown, or ended
  exc,       \* the exception under way
  paused,    \* state_is_paused
  expected,  \* the value the next check of the counter expects
  count0,    \* the RestartCount remembered
  bad,       \* some recorded result did not pass
  verdict,   \* how the script ended
  retried,   \* history: the teardown has tried to unpause
  downTried, \* history: the teardown has run compose down -v
  signals,   \* SIGTERMs so far
  \* Docker and the platform
  run,       \* per service: what its container does
  stopped,   \* per service: whether it was stopped on purpose
  restarts,  \* per service: RestartCount
  starved,   \* state's memory limit is the shrunk one
  value,     \* the counter on the volume
  keeps,     \* the volume keeps what is on it
  obeys,     \* the daemon leaves alone what was stopped on purpose
  crashes,   \* crashes nobody asked for so far
  lost,      \* history: a value was lost that a check was still to look at
  revived    \* history: a stopped container ran while the script watched

control == <<script, pos, mode, exc, paused, expected, count0, bad, verdict,
             retried, downTried, signals>>
containers == <<run, stopped, restarts, starved, value>>
platform == <<containers, keeps, obeys, crashes, lost, revived>>
vars == <<control, platform>>

Services == {"state", "app", "gateway"}
-----------------------------------------------------------------------------
(* The scripts: what each step does, and to which service.                 *)

Step(do, on) == [do |-> do, on |-> on]
On(on, dos) == [i \in DOMAIN dos |-> Step(dos[i], on)]

Startup ==
  <<Step("up", "state"), Step("healthy", "state"), Step("healthy", "app"),
    Step("healthy", "gateway")>>
Recovered == On("state", <<"start", "healthy", "ready", "check">>)

PauseScenario ==
  On("state", <<"read", "pause", "probe", "healthy", "ready", "check">>)
TransientCrash ==
  On("state", <<"count", "oom", "restarted", "healthy", "once", "ready",
                "check", "add">>)
PersistentFailure == On("state", <<"count", "shrink", "exhaust">>)
                     \o Recovered \o On("state", <<"add">>)
IntentionalStop == On("state", <<"count", "halt", "settle">>) \o Recovered
AppDown == On("app", <<"stop", "note", "unready", "start", "healthy", "ready">>)
GatewayDown == On("gateway", <<"stop", "note", "start", "healthy", "ready">>)

Degrade == On("state", <<"read", "add", "stop", "alive", "unready", "refused">>)
Recreate == On("state", <<"recreate", "healthy", "check", "add">>)
DownUp == <<Step("down", "state")>> \o Startup \o On("state", <<"check">>)

Scripts ==
  [reliability |->
     Startup \o On("state", <<"note">>) \o PauseScenario \o TransientCrash
     \o PersistentFailure \o IntentionalStop \o AppDown \o GatewayDown,
   compose |->
     Startup \o On("state", <<"expect">>) \o Degrade \o Recovered \o Recreate
     \o DownUp \o On("state", <<"inspect", "note">>)]

Steps == Scripts[script]
InTry == mode = "try" /\ pos \in DOMAIN Steps
Now(do) == InTry /\ Steps[pos].do = do
Target == Steps[pos].on
CheckDue == \E i \in DOMAIN Steps : i >= pos /\ Steps[i].do = "check"

ChainUp == \A s \in Services : run[s] = "running"

Init ==
  /\ script \in {"reliability", "compose"}
  /\ pos = 1
  /\ mode = "try"
  /\ exc = "none"
  /\ paused = FALSE
  /\ expected = 0
  /\ count0 = 0
  /\ bad = FALSE
  /\ verdict = "none"
  /\ retried = FALSE
  /\ downTried = FALSE
  /\ signals = 0
  /\ run = [s \in Services |-> "absent"]
  /\ stopped = [s \in Services |-> FALSE]
  /\ restarts = [s \in Services |-> 0]
  /\ starved = FALSE
  /\ value = 0
  /\ keeps \in BOOLEAN
  /\ obeys \in BOOLEAN
  /\ crashes = 0
  /\ lost = FALSE
  /\ revived = FALSE
-----------------------------------------------------------------------------
(* What Docker and the platform do, asked or not.                          *)

\* The volume under a container of state that is started anew.
Reopen(s) == value' \in {value} \cup (IF s = "state" /\ ~keeps THEN {0} ELSE {})

\* A container that failed is restarted as long as on-failure:n allows.
Fails(s) ==
  /\ run[s] = "running"
  /\ IF restarts[s] < MaxRestarts
     THEN /\ run' = [run EXCEPT ![s] = "restarting"]
          /\ restarts' = [restarts EXCEPT ![s] = @ + 1]
     ELSE run' = [run EXCEPT ![s] = "exited"] /\ UNCHANGED restarts

Bring(S) ==
  /\ run' = [s \in Services |-> IF s \in S THEN "running" ELSE run[s]]
  /\ stopped' = [s \in Services |-> IF s \in S THEN FALSE ELSE stopped[s]]

\* A manual start may or may not reset the RestartCount.
Started(s) ==
  /\ run[s] = "exited"
  /\ Bring({s})
  /\ \E n \in {restarts[s], 0} : restarts' = [restarts EXCEPT ![s] = n]
  /\ Reopen(s)
  /\ UNCHANGED starved

\* What a step asks of Docker, when it works.
Effect ==
  \/ /\ Now("up")
     /\ Bring(Services)
     /\ Reopen("state")
     /\ restarts' = [s \in Services |-> 0]
     /\ UNCHANGED starved
  \/ /\ Now("down")
     /\ run' = [s \in Services |-> "absent"]
     /\ UNCHANGED <<stopped, restarts, starved, value>>
  \/ /\ Now("pause")
     /\ run["state"] = "running"
     /\ run' = [run EXCEPT !["state"] = "paused"]
     /\ UNCHANGED <<stopped, restarts, starved, value>>
  \/ /\ Now("stop") \/ Now("halt")
     /\ run' = [run EXCEPT ![Target] = "exited"]
     /\ stopped' = [stopped EXCEPT ![Target] = TRUE]
     /\ UNCHANGED <<restarts, starved, value>>
  \/ Now("start") /\ Started(Target)
  \/ /\ Now("start")
     /\ run[Target] # "exited"
     /\ UNCHANGED containers
  \/ /\ Now("recreate")
     /\ Bring({"state"})
     /\ restarts' = [restarts EXCEPT !["state"] = 0]
     /\ Reopen("state")
     /\ UNCHANGED starved
  \/ /\ Now("oom")
     /\ Fails("state")
     /\ UNCHANGED <<stopped, starved, value>>
  \/ /\ Now("shrink")
     /\ starved' = TRUE
     /\ UNCHANGED <<run, stopped, restarts, value>>
  \/ /\ Now("add")
     /\ ChainUp
     /\ value' = value + 1
     /\ UNCHANGED <<run, stopped, restarts, starved>>

\* A step without effect on the containers.
Look == UNCHANGED containers

Commands ==
  {"up", "down", "pause", "stop", "halt", "start", "recreate", "shrink", "add"}

Lose == lost' = (lost \/ (value' < value /\ CheckDue))

\* A crash nobody asked for, and those of a starved container.
Crash(s) ==
  /\ mode # "end"
  /\ Fails(s)
  /\ IF s = "state" /\ starved THEN UNCHANGED crashes
     ELSE crashes < MaxCrashes /\ crashes' = crashes + 1
  /\ UNCHANGED <<control, stopped, starved, value, keeps, obeys, lost, revived>>

Restart(s) ==
  /\ mode # "end"
  /\ run[s] = "restarting"
  /\ run' = [run EXCEPT ![s] = "running"]
  /\ Reopen(s)
  /\ Lose
  /\ UNCHANGED <<control, stopped, restarts, starved, keeps, obeys, crashes,
                 revived>>

\* A daemon that applies the restart policy to what was stopped on purpose.
Revive(s) ==
  /\ ~obeys
  /\ mode # "end"
  /\ run[s] = "exited" /\ stopped[s]
  /\ Bring({s})
  /\ restarts' = [restarts EXCEPT ![s] = @ + 1]
  /\ Reopen(s)
  /\ Lose
  /\ revived' = (revived \/ Now("settle"))
  /\ UNCHANGED <<control, starved, keeps, obeys, crashes>>
-----------------------------------------------------------------------------
(* The script's steps.                                                     *)

\* Mutant: the value of the answer is not compared.
AnyValue == ChainUp

\* GET /state answers 200 with the value expected.
ValueKept == ChainUp /\ value = expected

\* Mutant: the RestartCount is not compared after the window.
NotRunning == run["state"] \notin {"running", "restarting"}

\* Neither a sample of Running nor the RestartCount shows a restart.
StayedStopped ==
  run["state"] \notin {"running", "restarting"} /\ restarts["state"] = count0

\* What a step has to see to pass.  A paused container keeps the health it had;
\* poll_gateway_readyz takes a refused connection for not-ready.
Sees ==
  \/ Now("healthy") /\ run[Target] \in {"running", "paused"}
  \/ (Now("ready") \/ Now("read")) /\ ChainUp
  \/ Now("unready") /\ ~ChainUp
  \/ Now("refused") /\ ~ChainUp /\ run["gateway"] = "running"
  \/ Now("check") /\ ValueKept
  \/ Now("restarted") /\ restarts["state"] > count0
  \/ Now("once") /\ restarts["state"] = count0 + 1
  \/ /\ Now("exhaust")
     /\ run["state"] = "exited"
     /\ restarts["state"] = MaxRestarts
  \/ Now("settle") /\ StayedStopped
  \/ Now("add") /\ value' = expected + 1
  \/ Now("alive") /\ run["app"] = "running" /\ run["gateway"] = "running"
  \/ \E do \in (Commands \ {"add"})
                 \cup {"count", "oom", "probe", "note", "expect", "inspect"} :
       Now(do)

\* The inner finally clauses: unpause after probe, restore after exhaust.
After == IF Now("probe") THEN "unpause"
         ELSE IF Now("exhaust") THEN "restore" ELSE "try"

\* Results that are recorded and do not end the script.
Records ==
  bad' \in {bad} \cup
           (IF \E do \in {"probe", "note", "halt", "inspect"} : Now(do)
            THEN {TRUE} ELSE {})

Proceed ==
  /\ InTry
  /\ \/ Effect
     \/ Look /\ \A do \in Commands : ~Now(do)
  /\ Sees
  /\ Lose
  /\ Records
  /\ pos' = pos + 1
  /\ mode' = After
  /\ paused' = (paused \/ Now("pause"))
  /\ expected' = IF Now("read") THEN value
                 ELSE IF Now("add") THEN value' ELSE expected
  /\ count0' = IF Now("count") THEN restarts["state"] ELSE count0
  /\ UNCHANGED <<script, exc, verdict, retried, downTried, signals, keeps, obeys,
                 crashes, revived>>

\* Mutant: an exception no except clause names ends the script at once.
RaisesOut(e) ==
  /\ exc' = e
  /\ mode' = IF e = "other" THEN "end"
             ELSE IF After = "try" THEN "teardown" ELSE After
  /\ verdict' = IF e = "other" THEN "traceback" ELSE verdict

\* An exception leaves the try block through the finally clauses around it.
Raises(e) ==
  /\ exc' = e
  /\ mode' = IF After = "try" THEN "teardown" ELSE After
  /\ UNCHANGED verdict

Cut(e) ==
  /\ InTry
  /\ Effect \/ Look
  /\ Lose
  /\ Raises(e)
  /\ UNCHANGED <<script, pos, paused, expected, count0, bad, retried, downTried,
                 keeps, obeys, crashes, revived>>

\* Mutant: the wait for a healthy container has no deadline.
WaitForHealthy ==
  /\ ~Now("healthy")
  /\ \E e \in {"failed", "other"} : Cut(e)
  /\ UNCHANGED signals

\* A failed command, a poll past its deadline, a value that does not match
\* ("failed"); a command that times out, a broken connection ("other").
GiveUp ==
  /\ \E e \in {"failed", "other"} : Cut(e)
  /\ UNCHANGED signals

Finish ==
  /\ mode = "try" /\ pos \notin DOMAIN Steps
  /\ mode' = "teardown"
  /\ UNCHANGED <<script, pos, exc, paused, expected, count0, bad, verdict,
                 retried, downTried, signals, platform>>

\* docker unpause: it works, fails, or raises; only success is told apart.
Unpauses ==
  /\ run' = IF run["state"] = "paused" THEN [run EXCEPT !["state"] = "running"]
            ELSE run
  /\ UNCHANGED <<stopped, restarts, starved, value>>

Resume == mode' = IF exc' = "none" THEN "try" ELSE "teardown"

\* Mutant: the flag is cleared whatever came of it.
UnpauseUnverified ==
  /\ mode = "unpause"
  /\ Unpauses \/ Look
  /\ paused' = FALSE
  /\ exc' \in {exc, "other"}
  /\ Resume
  /\ UNCHANGED <<script, pos, expected, count0, bad, verdict, retried, downTried,
                 signals, keeps, obeys, crashes, lost, revived>>

\* The finally clause of the pause scenario.
Unpause ==
  /\ mode = "unpause"
  /\ \/ Unpauses /\ paused' = FALSE /\ UNCHANGED exc
     \/ Look /\ UNCHANGED <<paused, exc>>
     \/ (Unpauses \/ Look) /\ exc' = "other" /\ UNCHANGED paused
  /\ Resume
  /\ UNCHANGED <<script, pos, expected, count0, bad, verdict, retried, downTried,
                 signals, keeps, obeys, crashes, lost, revived>>

\* with_memory_shrink_restored's own restore (ResourceUpdate has its steps).
Restore ==
  /\ mode = "restore"
  /\ \/ starved' = FALSE /\ UNCHANGED exc
     \/ starved' \in BOOLEAN /\ exc' \in {"failed", "other"}
  /\ Resume
  /\ UNCHANGED <<script, pos, paused, expected, count0, bad, verdict, retried,
                 downTried, signals, run, stopped, restarts, value, keeps, obeys,
                 crashes, lost, revived>>
-----------------------------------------------------------------------------
(* The outermost finally.                                                  *)

\* The teardown's own exception replaces what was under way.
CutShort ==
  /\ mode' = "end"
  /\ verdict' = "cut"
  /\ exc' = "other"

Teardown ==
  /\ mode = "teardown"
  /\ retried' = paused
  /\ \/ mode' = "down" /\ UNCHANGED <<exc, verdict>>
     \/ paused /\ CutShort
  /\ IF paused THEN Unpauses \/ Look ELSE Look
  /\ UNCHANGED <<script, pos, paused, expected, count0, bad, downTried, signals,
                 keeps, obeys, crashes, lost, revived>>

Verdict ==
  IF exc = "none" THEN IF bad THEN "fail" ELSE "pass"
  ELSE IF exc = "failed" THEN "fail"
  ELSE IF exc = "terminated" THEN "terminated" ELSE "traceback"

\* compose down -v: a failure is only a warning, a timeout is not caught.
Down ==
  /\ mode = "down"
  /\ downTried' = TRUE
  /\ \/ mode' = "end" /\ verdict' = Verdict /\ UNCHANGED exc
     \/ CutShort
  /\ \/ run' = [s \in Services |-> "absent"] /\ value' = 0
     \/ UNCHANGED <<run, value>>
  /\ UNCHANGED <<script, pos, paused, expected, count0, bad, retried, signals,
                 stopped, restarts, starved, keeps, obeys, crashes, lost, revived>>

Signal == signals < MaxSignals /\ signals' = signals + 1

\* SIGTERM in the try block: _TerminatedError is raised into the step.
TerminateTry == Signal /\ Cut("terminated")

\* ... into a nested finally, whose work may have been done.
TerminateFinally ==
  /\ Signal
  /\ mode \in {"unpause", "restore"}
  /\ exc' = "terminated"
  /\ mode' = "teardown"
  /\ IF mode = "unpause" THEN Unpauses \/ Look
     ELSE starved' \in BOOLEAN /\ UNCHANGED <<run, stopped, restarts, value>>
  /\ UNCHANGED <<script, pos, paused, expected, count0, bad, verdict, retried,
                 downTried, keeps, obeys, crashes, lost, revived>>

\* ... into an except clause that prints its results.
TerminateHandler ==
  /\ Signal
  /\ mode = "teardown" /\ exc # "none"
  /\ exc' = "other"
  /\ UNCHANGED <<script, pos, mode, paused, expected, count0, bad, verdict,
                 retried, downTried, platform>>

\* ... into the teardown: no except clause is left.
TerminateTeardown ==
  /\ Signal
  /\ mode \in {"teardown", "down"}
  /\ CutShort
  /\ retried' = (retried \/ (mode = "teardown" /\ paused))
  /\ downTried' = (mode = "down")
  /\ UNCHANGED <<script, pos, paused, expected, count0, bad, platform>>

\* Mutant: a probe that was interrupted leaves no failed result.
SwallowQuietly ==
  /\ Signal
  /\ Now("inspect")
  /\ UNCHANGED <<script, pos, mode, exc, paused, expected, count0, bad, verdict,
                 retried, downTried, platform>>

\* ... and into check_kernel_readonly_write_fails, whose except Exception takes
\* the _TerminatedError for a probe that failed.
Swallow ==
  /\ Signal
  /\ Now("inspect")
  /\ bad' = TRUE
  /\ UNCHANGED <<script, pos, mode, exc, paused, expected, count0, verdict,
                 retried, downTried, platform>>

Progress == Proceed \/ GiveUp \/ Finish \/ Unpause \/ Restore \/ Teardown \/ Down

Next ==
  \/ Progress
  \/ TerminateTry \/ TerminateFinally \/ TerminateHandler \/ TerminateTeardown
  \/ Swallow
  \/ \E s \in Services : Crash(s) \/ Restart(s) \/ Revive(s)

Spec == Init /\ [][Next]_vars

\* Every docker command has a timeout and every poll a deadline.
FairSpec == Spec /\ WF_vars(Progress)
-----------------------------------------------------------------------------
TypeOK ==
  /\ script \in {"reliability", "compose"}
  /\ pos \in 1..(Len(Steps) + 1)
  /\ mode \in {"try", "unpause", "restore", "teardown", "down", "end"}
  /\ exc \in {"none", "failed", "terminated", "other"}
  /\ paused \in BOOLEAN
  /\ expected \in Nat
  /\ count0 \in Nat
  /\ bad \in BOOLEAN
  /\ verdict \in {"none", "pass", "fail", "terminated", "traceback", "cut"}
  /\ retried \in BOOLEAN
  /\ downTried \in BOOLEAN
  /\ signals \in 0..MaxSignals
  /\ run \in [Services -> {"absent", "running", "restarting", "paused", "exited"}]
  /\ stopped \in [Services -> BOOLEAN]
  /\ restarts \in [Services -> Nat]
  /\ starved \in BOOLEAN
  /\ value \in Nat
  /\ keeps \in BOOLEAN
  /\ obeys \in BOOLEAN
  /\ crashes \in 0..MaxCrashes
  /\ lost \in BOOLEAN
  /\ revived \in BOOLEAN

(* Neither script passes on a platform that lost a counter it was still to *)
(* look at, in any restart of state, asked for or not.                     *)
PassMeansKept == verdict = "pass" => ~lost

(* The reliability check does not pass when the daemon restarted the       *)
(* stopped container while it watched, be it only between two samples.     *)
PassMeansStayedStopped == verdict = "pass" => ~revived

(* However the script ends, by an exception no clause names too, it has run*)
(* compose down -v, unless its teardown was itself cut short.              *)
TornDown == verdict \notin {"none", "cut"} => downTried

(* The stack is not taken down over a container that the script knows it   *)
(* paused, without another attempt to unpause it.                          *)
UnpauseRetried ==
  mode = "down" /\ run["state"] = "paused"
    /\ (\E i \in 1..(pos - 1) : Steps[i].do = "pause") => retried

(* A script that received SIGTERM before its end never reports a pass.     *)
SignalNeverPasses == verdict = "pass" => signals = 0

(* The script ends, whatever Docker and the platform do.                   *)
EveryRunEnds == <>(mode = "end")

(* compose_integration.py, at its except clause: "SIGTERM is now a         *)
(* controlled, diagnosed termination": it ends the script's try block.     *)
SigtermEndsRun == signals > 0 => mode # "try"
=============================================================================
