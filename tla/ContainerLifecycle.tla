-------------------------- MODULE ContainerLifecycle --------------------------
(***************************************************************************)
(* The three containers from `docker compose up' on: gated start, the      *)
(* start-up of each process (serve_forever of the three server.py), its    *)
(* own copy of the mounted platform.json, health probes, crashes and the   *)
(* restart policy, SIGTERM, grace period and SIGKILL, and the limit on     *)
(* threads that idle connections can use up.                               *)
(*                                                                         *)
(* Docker is the environment: it does what the deployed Compose file asks. *)
(* Time is in the guards: a stop escalates only where the process cannot   *)
(* have ended within its grace period.                                     *)
(***************************************************************************)
EXTENDS ComposeFile

CONSTANTS
  Files,        \* the Compose files somebody may try to deploy
  Configs,      \* the contents config/platform.json may have
  Default,      \* what a process runs with when nothing is mounted
  Crowded,      \* the services that clients may fill with idle connections
  MaxFaults,    \* bound: crashes and edits together
  MaxCommands   \* bound: docker stop and docker start by hand

ASSUME LifecycleAssumption ==
  /\ MaxFaults \in Nat /\ MaxCommands \in Nat
  /\ Crowded \subseteq Services
  /\ \A c \in Configs \cup {Default} :
       c.inner \in Nat /\ c.outer \in Nat /\ c.margin \in Nat

VARIABLES
  file,      \* the Compose file
  up,        \* docker compose up: "off", "going", "done" or "failed"
  phase,     \* where each service's process is
  copy,      \* the timeouts that app's and gateway's process have loaded
  mounted,   \* config/platform.json
  health,    \* what Docker says of each container
  restarts,  \* RestartCount
  held,      \* stopped by hand: the restart policy no longer applies
  stop,      \* the SIGTERM of a docker stop under way
  full,      \* at pids_limit: no thread can be started
  early,     \* (history) the SIGTERM came before the handlers were installed
  faults,
  commands

vars == <<file, up, phase, copy, mounted, health, restarts, held, stop, full,
          early, faults, commands>>

\* The services with a timeout of their own.
Callers == {"app", "gateway"}

Down    == {"clean", "failed", "killed"}
Starting == {"loading", "arming"}
Running == Starting \cup {"serving", "closing"}
Phases  == {"absent"} \cup Running \cup Down

TypeOK ==
  /\ file \in Files /\ mounted \in Configs
  /\ up \in {"off", "going", "done", "failed"}
  /\ phase \in [Services -> Phases]
  /\ copy \in [Callers -> Configs \cup {Default}]
  /\ health \in [Services -> {"starting", "healthy", "unhealthy"}]
  /\ restarts \in [Services -> Nat]
  /\ held \in [Services -> BOOLEAN]
  /\ stop \in [Services -> {"none", "pending", "handled", "lost"}]
  /\ full \in [Services -> BOOLEAN] /\ early \in [Services -> BOOLEAN]
  /\ faults \in 0..MaxFaults /\ commands \in 0..MaxCommands

Init ==
  /\ file \in Files /\ mounted \in Configs
  /\ up = "off"
  /\ phase = [s \in Services |-> "absent"]
  /\ copy = [s \in Callers |-> Default]
  /\ health = [s \in Services |-> "starting"]
  /\ restarts = [s \in Services |-> 0]
  /\ held = [s \in Services |-> FALSE]
  /\ stop = [s \in Services |-> "none"]
  /\ full = [s \in Services |-> FALSE]
  /\ early = [s \in Services |-> FALSE]
  /\ faults = 0 /\ commands = 0

(***************************************************************************)
(* docker compose up                                                       *)
(***************************************************************************)
\* compose-check comes first; a file it refuses is not deployed.
Deploy ==
  /\ up = "off" /\ Accepts(file)
  /\ up' = "going"
  /\ UNCHANGED <<file, phase, copy, mounted, health, restarts, held, stop,
                 full, early, faults, commands>>

\* A process begins, in a container whose health is not known yet.
Launch(s) ==
  /\ phase' = [phase EXCEPT ![s] = "loading"]
  /\ health' = [health EXCEPT ![s] = "starting"]

\* depends_on: the named condition of every dependency.
MayStart(s) ==
  \A n \in file.service[s].needs :
    IF n.until = "service_healthy" THEN health[n.on] = "healthy"
                                   ELSE phase[n.on] # "absent"

UpStarts(s) ==
  /\ up = "going" /\ phase[s] = "absent" /\ MayStart(s)
  /\ Launch(s)
  /\ up' = IF \A t \in Services \ {s} : phase[t] # "absent" THEN "done" ELSE up
  /\ UNCHANGED <<file, copy, mounted, restarts, held, stop, full, early,
                 faults, commands>>

\* A dependency that has exited or is unhealthy ends `up': the services above
\* it are not started.
UpFails ==
  /\ up = "going"
  /\ \E s \in Services :
       /\ phase[s] = "absent"
       /\ \E n \in file.service[s].needs :
            phase[n.on] \in Down \/ health[n.on] = "unhealthy"
  /\ up' = "failed"
  /\ UNCHANGED <<file, phase, copy, mounted, health, restarts, held, stop,
                 full, early, faults, commands>>

(***************************************************************************)
(* The process: serve_forever.                                             *)
(***************************************************************************)
\* Mutant: gateway looks at its own field only.
ValidAlone(s, c) ==
  /\ c.ok
  /\ s = "state"   => c.name
  /\ s = "app"     => c.inner > 0
  /\ s = "gateway" => c.outer > 0

\* load_platform_config of each service: what it checks is its own field, and
\* gateway the hierarchy of all three (c.ok: an object of schema 1).
Valid(s, c) ==
  /\ c.ok
  /\ s = "state"   => c.name
  /\ s = "app"     => c.inner > 0
  /\ s = "gateway" => /\ c.inner > 0 /\ c.margin > 0
                      /\ c.outer > c.inner + c.margin

Seen(s) == IF file.service[s].config THEN mounted ELSE Default

\* What an ended process leaves: its threads and its health are gone with it.
Ends(s, how) ==
  /\ phase' = [phase EXCEPT ![s] = how]
  /\ stop' = [stop EXCEPT ![s] = "none"]
  /\ full' = [full EXCEPT ![s] = FALSE]
  /\ health' = [health EXCEPT ![s] = "starting"]

\* load_config and build_server: the environment and the mounted file are read
\* once; a ValueError ends the process with exit code 1.
Load(s) ==
  /\ phase[s] = "loading"
  /\ IF EnvironmentOk(file, s) /\ Valid(s, Seen(s))
     THEN /\ phase' = [phase EXCEPT ![s] = "arming"]
          /\ copy' = [t \in Callers |-> IF t = s THEN Seen(s) ELSE copy[t]]
          /\ UNCHANGED <<health, stop, full>>
     ELSE Ends(s, "failed") /\ UNCHANGED copy
  /\ UNCHANGED <<file, up, mounted, restarts, held, early, faults, commands>>

\* The signal handlers are installed; the loop begins.
Arm(s) ==
  /\ phase[s] = "arming"
  /\ phase' = [phase EXCEPT ![s] = "serving"]
  /\ UNCHANGED <<file, up, copy, mounted, health, restarts, held, stop, full,
                 early, faults, commands>>

\* Mutant: the handler calls server.shutdown() itself, which waits for the loop
\* that it interrupts.
HandleSigtermInLoop(s) ==
  /\ phase[s] = "serving" /\ stop[s] = "pending"
  /\ stop' = [stop EXCEPT ![s] = "lost"]
  /\ UNCHANGED <<file, up, phase, copy, mounted, health, restarts, held, full,
                 early, faults, commands>>

\* The signal handler starts the thread that calls server.shutdown().  At the
\* thread limit Thread.start raises in the main thread: out of the loop, or
\* into the `except Exception' of socketserver, which takes it.
HandleSigterm(s) ==
  /\ phase[s] = "serving" /\ stop[s] = "pending"
  /\ \/ /\ ~full[s]
        /\ phase' = [phase EXCEPT ![s] = "closing"]
        /\ stop' = [stop EXCEPT ![s] = "handled"]
        /\ UNCHANGED <<health, full>>
     \/ full[s] /\ Ends(s, "failed")
     \/ /\ full[s]
        /\ stop' = [stop EXCEPT ![s] = "lost"]
        /\ UNCHANGED <<phase, health, full>>
  /\ UNCHANGED <<file, up, copy, mounted, restarts, held, early, faults,
                 commands>>

\* The loop has seen shutdown() within its poll interval: server_close, exit 0.
Close(s) ==
  /\ phase[s] = "closing"
  /\ Ends(s, "clean")
  /\ UNCHANGED <<file, up, copy, mounted, restarts, held, early, faults,
                 commands>>

(***************************************************************************)
(* Docker, its clients and the operator.                                   *)
(***************************************************************************)
\* A health probe with a verdict: an answer to GET /healthz with the role of
\* this service, or the last of `retries' probes without one.  The probe is a
\* process of its own: it loads the configuration as it is now.
Probe(s) ==
  /\ phase[s] \in Running
  /\ health' = [health EXCEPT ![s] =
       IF /\ phase[s] = "serving" /\ ~full[s]
          /\ file.service[s].probe = s /\ Valid(s, Seen(s))
       THEN "healthy" ELSE "unhealthy"]
  /\ UNCHANGED <<file, up, phase, copy, mounted, restarts, held, stop, full,
                 early, faults, commands>>

\* An OOM kill or any other failure of a process.
Crash(s) ==
  /\ phase[s] \in Running /\ faults < MaxFaults
  /\ faults' = faults + 1
  /\ Ends(s, "failed")
  /\ UNCHANGED <<file, up, copy, mounted, restarts, held, early, commands>>

\* `always' and `unless-stopped' restart whatever ended, as docs/reliability.md
\* says of them (of a container stopped by hand it takes a restart of the daemon as
\* well); on-failure what failed, up to its limit (0: no limit).
PolicyRestarts(s) ==
  LET r == file.service[s].restart
  IN  \/ r.policy \in {"always", "unless-stopped"}
      \/ /\ r.policy = "on-failure"
         /\ phase[s] \in {"failed", "killed"} /\ ~held[s]
         /\ restarts[s] < r.attempts \/ r.attempts = 0

DockerRestarts(s) ==
  /\ phase[s] \in Down /\ PolicyRestarts(s)
  /\ restarts' = [restarts EXCEPT ![s] = @ + 1]
  /\ Launch(s)
  /\ UNCHANGED <<file, up, copy, mounted, held, stop, full, early, faults,
                 commands>>

\* docker stop: PID 1 without a handler does not see the signal.
Stop(s) ==
  /\ phase[s] \in Running /\ ~held[s] /\ commands < MaxCommands
  /\ commands' = commands + 1
  /\ held' = [held EXCEPT ![s] = TRUE]
  /\ stop' = [stop EXCEPT ![s] = IF phase[s] = "serving" THEN "pending" ELSE "lost"]
  /\ early' = [early EXCEPT ![s] = phase[s] \in Starting]
  /\ UNCHANGED <<file, up, phase, copy, mounted, health, restarts, full, faults>>

\* SIGKILL at the end of the grace period, which a process that has seen the
\* signal does not live to see if the period is longer than its poll interval.
Escalate(s) ==
  /\ phase[s] \in Running
  /\ stop[s] = "lost" \/ (stop[s] # "none" /\ file.service[s].grace <= Poll)
  /\ Ends(s, "killed")
  /\ UNCHANGED <<file, up, copy, mounted, restarts, held, early, faults,
                 commands>>

\* docker start: at once, and with a new budget of restarts.
StartByHand(s) ==
  /\ phase[s] \in Down /\ commands < MaxCommands
  /\ commands' = commands + 1
  /\ held' = [held EXCEPT ![s] = FALSE]
  /\ early' = [early EXCEPT ![s] = FALSE]
  /\ restarts' = [restarts EXCEPT ![s] = 0]
  /\ Launch(s)
  /\ UNCHANGED <<file, up, copy, mounted, stop, full, faults>>

\* Nobody tells the running processes.
Edit ==
  /\ faults < MaxFaults /\ faults' = faults + 1
  /\ mounted' \in Configs \ {mounted}
  /\ UNCHANGED <<file, up, phase, copy, health, restarts, held, stop, full,
                 early, commands>>

\* Idle connections take the last thread, or give it back.
Fill(s) ==
  /\ s \in Crowded /\ phase[s] = "serving"
  /\ full' = [full EXCEPT ![s] = ~@]
  /\ UNCHANGED <<file, up, phase, copy, mounted, health, restarts, held, stop,
                 early, faults, commands>>

Process(s) == Load(s) \/ Arm(s) \/ HandleSigterm(s) \/ Close(s)
Docker(s)  == UpStarts(s) \/ Probe(s) \/ DockerRestarts(s) \/ Escalate(s)

Next ==
  \/ Deploy \/ UpFails \/ Edit
  \/ \E s \in Services : \/ Process(s) \/ Docker(s)
                         \/ Crash(s) \/ Stop(s) \/ StartByHand(s) \/ Fill(s)

Spec == Init /\ [][Next]_vars

\* The process runs on; Docker starts, probes, restarts and kills what it has
\* to, and `up' acts on a health that it finds again and again.  Nothing is
\* assumed of the operator, of crashes or of the clients.
Fairness ==
  /\ WF_vars(UpFails)
  /\ \A s \in Services : /\ WF_vars(Process(s))
                         /\ SF_vars(UpStarts(s)) /\ WF_vars(Probe(s))
                         /\ WF_vars(DockerRestarts(s)) /\ WF_vars(Escalate(s))
FairSpec == Spec /\ Fairness

(***************************************************************************)
(* Properties                                                              *)
(***************************************************************************)
\* The chain answers GET /readyz of gateway with 200.
Ready == /\ Published(file)
         /\ \A s \in Services : phase[s] = "serving" /\ ~full[s] /\ Reaches(file, s)

\* What the check cannot see: it compares ports that both sides declare, and
\* never GATEWAY_PORT with the published target.
PortsSeen ==
  /\ \A s \in {"app", "gateway"} :
       Undeclared \notin {file.service[s].port, file.service[Dependency[s]].own}
  /\ Port(file.service["gateway"].own) = DefaultPort

\* A container that was stopped by hand runs again only when it is started by
\* hand, whatever exit code its stop left, for every file that passes the check
\* (compose.yaml:35-38).
StopIsFinal ==
  [][\A s \in Services :
       held[s] /\ phase[s] \in Down /\ phase'[s] \notin Down => ~held'[s]]_vars

\* A docker stop of a service whose handlers are installed and whose threads are
\* not used up is not answered by SIGKILL (server.py: the handler must leave the
\* shutdown to another thread).
GracefulStop ==
  \A s \in Services \ Crowded : phase[s] = "killed" => early[s]

\* The timeout hierarchy holds between the configs that app and gateway really
\* run with, unless the file was edited between their starts: each checks what
\* it loads, and gateway what app would load.
BrokenMeansStale ==
  LET a == copy["app"]
      g == copy["gateway"]
  IN  /\ phase["app"] \in Running \ {"loading"}
      /\ phase["gateway"] \in Running \ {"loading"}
      /\ g.outer <= a.inner + g.margin
      => a # mounted \/ g # mounted

\* Health is liveness only, yet the gated start makes it readiness: as long as
\* nothing crashed, was edited or stopped, a healthy gateway has the whole chain
\* behind it (depends_on and /healthz against /readyz).
HealthyIsReady ==
  /\ faults = 0 /\ commands = 0
  /\ \A s \in Services : ~full[s]
  /\ PortsSeen
  /\ health["gateway"] = "healthy"
  => Ready

\* What can keep the chain down for good: nothing but a refused file, a failed
\* `up', a stop by hand, a service that used up its restarts, clients that hold
\* every thread, or ports the check does not see.
Excused ==
  \/ up \in {"off", "failed"}
  \/ \E s \in Services :
       \/ held[s] /\ phase[s] \in Down
       \/ phase[s] = "failed" /\ restarts[s] = Attempts
       \/ full[s]
  \/ ~PortsSeen

\* After any crashes and edits in any order, although nothing gates a restart on
\* its dependency, the chain ends up ready for good or with an excuse.
Settles == <>[](Ready \/ Excused)
-----------------------------------------------------------------------------
(* The inductive invariant.                                                *)

\* Only an accepted file is deployed.
DeployedInv ==
  /\ up = "off" => \A s \in Services : phase[s] = "absent"
  /\ up # "off" => Accepts(file)

\* A signal under way belongs to a stop by hand of a process that runs, and a
\* lost one came too early or met a service without threads.
StopInv ==
  \A s \in Services :
    /\ phase[s] \notin Running => stop[s] = "none"
    /\ stop[s] # "none" => held[s]
    /\ phase[s] = "closing" => stop[s] # "none"
    /\ full[s] => s \in Crowded
    /\ s \notin Crowded /\ (stop[s] = "lost" \/ phase[s] = "killed") => early[s]

\* What a process runs with has passed its own check.
CopyInv ==
  \A s \in Callers : phase[s] \in Running \ {"loading"} => Valid(s, copy[s])

\* As long as nothing was broken, stopped or edited, a start is a start on top
\* of what serves.
QuietInv ==
  faults = 0 /\ commands = 0 =>
    /\ \A s \in Services : /\ stop[s] = "none"
                           /\ health[s] = "healthy" => phase[s] = "serving"
    /\ phase["app"] # "absent" => phase["state"] = "serving"
    /\ phase["gateway"] # "absent" => phase["app"] = "serving"

IInv == DeployedInv /\ StopInv /\ CopyInv /\ QuietInv
=============================================================================
