---------------------- MODULE ContainerLifecycleProofs ----------------------
(***************************************************************************)
(* What holds of the containers of every Compose file that check_compose   *)
(* accepts, whatever the files, configs and bounds are: no file, config or *)
(* sequence of faults is enumerated here.                                  *)
(***************************************************************************)
EXTENDS ContainerLifecycle, TLAPS

USE DEF Running, Starting, Down

\* Before `docker compose up` every variable has its type.
THEOREM TypeInit == Init => TypeOK
  BY LifecycleAssumption DEF Init, TypeOK, Services, Callers, Phases

\* A container that is started, by docker or by hand, is in a known phase.
LEMMA LaunchTyped ==
  ASSUME TypeOK, NEW s \in Services, Launch(s)
  PROVE  /\ phase' \in [Services -> Phases]
         /\ health' \in [Services -> {"starting", "healthy", "unhealthy"}]
  BY DEF TypeOK, Launch, Phases

\* So is one that ends, whether it exits or is killed.
LEMMA EndsTyped ==
  ASSUME TypeOK, NEW s \in Services, NEW how \in Down, Ends(s, how)
  PROVE  /\ phase' \in [Services -> Phases]
         /\ stop' \in [Services -> {"none", "pending", "handled", "lost"}]
         /\ full' \in [Services -> BOOLEAN]
         /\ health' \in [Services -> {"starting", "healthy", "unhealthy"}]
  BY DEF TypeOK, Ends, Phases

\* Every step of a process, of docker or of the operator keeps the types.
LEMMA TypeStep == TypeOK /\ [Next]_vars => TypeOK'
<1> SUFFICES ASSUME TypeOK, [Next]_vars PROVE TypeOK'
  OBVIOUS
<1>1. CASE Deploy
  BY <1>1 DEF Deploy, TypeOK
<1>2. CASE UpFails
  BY <1>2 DEF UpFails, TypeOK
<1>3. CASE Edit
  BY <1>3, LifecycleAssumption DEF Edit, TypeOK
<1>4. ASSUME NEW s \in Services, Load(s) PROVE TypeOK'
  <2>1. Seen(s) \in Configs \cup {Default}
    BY DEF Seen, TypeOK
  <2>2. copy' \in [Callers -> Configs \cup {Default}]
    BY <1>4, <2>1 DEF Load, TypeOK
  <2>3. CASE Ends(s, "failed")
    BY <1>4, <2>2, <2>3, EndsTyped DEF Load, TypeOK
  <2>4. CASE ~Ends(s, "failed")
    BY <1>4, <2>2, <2>4 DEF Load, TypeOK, Phases
  <2> QED
    BY <2>3, <2>4
<1>5. ASSUME NEW s \in Services, Arm(s) PROVE TypeOK'
  BY <1>5 DEF Arm, TypeOK, Phases
<1>6. ASSUME NEW s \in Services, HandleSigterm(s) PROVE TypeOK'
  <2>1. CASE Ends(s, "failed")
    BY <1>6, <2>1, EndsTyped DEF HandleSigterm, TypeOK
  <2>2. CASE ~Ends(s, "failed")
    BY <1>6, <2>2 DEF HandleSigterm, TypeOK, Phases
  <2> QED
    BY <2>1, <2>2
<1>7. ASSUME NEW s \in Services, Close(s) PROVE TypeOK'
  BY <1>7, EndsTyped DEF Close, TypeOK
<1>8. ASSUME NEW s \in Services, UpStarts(s) PROVE TypeOK'
  BY <1>8, LaunchTyped DEF UpStarts, TypeOK
<1>9. ASSUME NEW s \in Services, Probe(s) PROVE TypeOK'
  BY <1>9 DEF Probe, TypeOK
<1>10. ASSUME NEW s \in Services, DockerRestarts(s) PROVE TypeOK'
  BY <1>10, LaunchTyped DEF DockerRestarts, TypeOK
<1>11. ASSUME NEW s \in Services, Escalate(s) PROVE TypeOK'
  BY <1>11, EndsTyped DEF Escalate, TypeOK
<1>12. ASSUME NEW s \in Services, Crash(s) PROVE TypeOK'
  BY <1>12, EndsTyped, LifecycleAssumption DEF Crash, TypeOK
<1>13. ASSUME NEW s \in Services, Stop(s) PROVE TypeOK'
  BY <1>13, LifecycleAssumption DEF Stop, TypeOK
<1>14. ASSUME NEW s \in Services, StartByHand(s) PROVE TypeOK'
  BY <1>14, LaunchTyped, LifecycleAssumption DEF StartByHand, TypeOK
<1>15. ASSUME NEW s \in Services, Fill(s) PROVE TypeOK'
  BY <1>15 DEF Fill, TypeOK
<1>16. CASE UNCHANGED vars
  BY <1>16 DEF vars, TypeOK
<1> QED
  BY <1>1, <1>2, <1>3, <1>4, <1>5, <1>6, <1>7, <1>8, <1>9, <1>10, <1>11,
     <1>12, <1>13, <1>14, <1>15, <1>16 DEF Next, Process, Docker

\* The state is well typed, for every file, config and bound.
THEOREM TypeCorrect == Spec => []TypeOK
  BY TypeInit, TypeStep, PTL DEF Spec
-----------------------------------------------------------------------------
\* Before `docker compose up` the invariant holds: nothing runs yet.
THEOREM InvInit == Init => IInv
  BY DEF Init, IInv, DeployedInv, StopInv, CopyInv, QuietInv, Services, Callers

(* Of the parts of the invariant, one lemma each: what a step does to it.  *)
LEMMA DeployedStep == TypeOK /\ DeployedInv /\ [Next]_vars => DeployedInv'
<1> SUFFICES ASSUME TypeOK, DeployedInv, [Next]_vars PROVE DeployedInv'
  OBVIOUS
<1>1. CASE Deploy
  BY <1>1 DEF Deploy, DeployedInv
<1>2. CASE UpFails
  BY <1>2 DEF UpFails, DeployedInv
<1>3. CASE Edit
  BY <1>3 DEF Edit, DeployedInv
<1>4. ASSUME NEW s \in Services, phase[s] # "absent", up' = up, file' = file
      PROVE  DeployedInv'
  BY <1>4 DEF DeployedInv
<1>5. ASSUME NEW s \in Services, UpStarts(s) PROVE DeployedInv'
  BY <1>5 DEF UpStarts, DeployedInv
<1>6. ASSUME NEW s \in Services, Process(s) PROVE DeployedInv'
  BY <1>4, <1>6 DEF Process, Load, Arm, HandleSigterm, Close
<1>7. ASSUME NEW s \in Services, Probe(s) \/ DockerRestarts(s) \/ Escalate(s)
      PROVE  DeployedInv'
  BY <1>4, <1>7 DEF Probe, DockerRestarts, Escalate
<1>8. ASSUME NEW s \in Services, Crash(s) \/ Stop(s) \/ StartByHand(s) \/ Fill(s)
      PROVE  DeployedInv'
  BY <1>4, <1>8 DEF Crash, Stop, StartByHand, Fill
<1>9. CASE UNCHANGED vars
  BY <1>9 DEF vars, DeployedInv
<1> QED
  BY <1>1, <1>2, <1>3, <1>5, <1>6, <1>7, <1>8, <1>9 DEF Next, Docker

\* The grace period of an accepted file is longer than the poll interval.
LEMMA GraceIsEnough ==
  ASSUME DeployedInv, NEW s \in Services, phase[s] # "absent"
  PROVE  ~(file.service[s].grace <= Poll)
<1>1. Accepts(file)
  BY DEF DeployedInv
<1>2. file.service[s].grace = Grace
  BY <1>1 DEF Accepts, GraceOk, ServiceSetOk
<1> QED
  BY <1>2, ComposeAssumption

\* A stop is of a running container, and lost only for a reason on record.
LEMMA StopStep ==
  TypeOK /\ DeployedInv /\ StopInv /\ [Next]_vars => StopInv'
<1> SUFFICES ASSUME TypeOK, DeployedInv, StopInv, [Next]_vars PROVE StopInv'
  OBVIOUS
<1>1. CASE Deploy \/ UpFails \/ Edit \/ UNCHANGED vars
  BY <1>1 DEF Deploy, UpFails, Edit, vars, StopInv
<1> DEFINE StopInvOf(s) ==
      /\ phase[s] \notin Running => stop[s] = "none"
      /\ stop[s] # "none" => held[s]
      /\ phase[s] = "closing" => stop[s] # "none"
      /\ full[s] => s \in Crowded
      /\ s \notin Crowded /\ (stop[s] = "lost" \/ phase[s] = "killed") => early[s]
<1>2. \A t \in Services : StopInvOf(t)
  BY DEF StopInv
<1>3. SUFFICES ASSUME NEW s \in Services,
                      \/ Process(s) \/ Docker(s)
                      \/ Crash(s) \/ Stop(s) \/ StartByHand(s) \/ Fill(s),
                      NEW t \in Services
               PROVE  StopInvOf(t)'
  BY <1>1, <1>3 DEF Next, StopInv
<1> USE <1>2 DEF TypeOK
<1>4. CASE Load(s)
  BY <1>4 DEF Load, Ends
<1>5. CASE Arm(s)
  BY <1>5 DEF Arm
<1>6. CASE HandleSigterm(s)
  BY <1>6 DEF HandleSigterm, Ends
<1>7. CASE Close(s)
  BY <1>7 DEF Close, Ends
<1>8. CASE UpStarts(s)
  BY <1>8 DEF UpStarts, Launch
<1>9. CASE Probe(s)
  BY <1>9 DEF Probe
<1>10. CASE DockerRestarts(s)
  BY <1>10 DEF DockerRestarts, Launch
<1>11. CASE Crash(s)
  BY <1>11 DEF Crash, Ends
<1>12. CASE Stop(s)
  BY <1>12 DEF Stop
<1>13. CASE StartByHand(s)
  BY <1>13 DEF StartByHand, Launch
<1>14. CASE Fill(s)
  BY <1>14 DEF Fill
<1>15. CASE Escalate(s)
  <2>1. stop[s] = "lost"
    BY <1>15, GraceIsEnough DEF Escalate
  <2> QED
    BY <1>15, <2>1 DEF Escalate, Ends
<1> QED
  BY <1>3, <1>4, <1>5, <1>6, <1>7, <1>8, <1>9, <1>10, <1>11, <1>12, <1>13,
     <1>14, <1>15 DEF Process, Docker

\* What is mounted reaches a process through its own check only.
LEMMA CopyStep == TypeOK /\ CopyInv /\ [Next]_vars => CopyInv'
<1> SUFFICES ASSUME TypeOK, CopyInv, [Next]_vars PROVE CopyInv'
  OBVIOUS
<1>1. CASE Deploy \/ UpFails \/ Edit \/ UNCHANGED vars
  BY <1>1 DEF Deploy, UpFails, Edit, vars, CopyInv
<1>2. SUFFICES ASSUME NEW s \in Services,
                      \/ Process(s) \/ Docker(s)
                      \/ Crash(s) \/ Stop(s) \/ StartByHand(s) \/ Fill(s),
                      NEW t \in Callers, phase'[t] \in Running \ {"loading"}
               PROVE  Valid(t, copy'[t])
  BY <1>1, <1>2 DEF Next, CopyInv
<1>3. t \in Services
  BY DEF Callers, Services
<1>4. CASE Load(s)
  <2>1. CASE t = s
    BY <1>2, <1>3, <1>4, <2>1 DEF Load, Ends, TypeOK
  <2>2. CASE t # s
    BY <1>2, <1>3, <1>4, <2>2 DEF Load, Ends, TypeOK, CopyInv
  <2> QED
    BY <2>1, <2>2
<1>5. CASE Arm(s) \/ HandleSigterm(s) \/ Close(s)
  BY <1>2, <1>3, <1>5 DEF Arm, HandleSigterm, Close, Ends, TypeOK, CopyInv
<1>6. CASE Docker(s)
  BY <1>2, <1>3, <1>6
     DEF Docker, UpStarts, Probe, DockerRestarts, Escalate, Ends, Launch, TypeOK, CopyInv
<1>7. CASE Crash(s) \/ Stop(s) \/ StartByHand(s) \/ Fill(s)
  BY <1>2, <1>3, <1>7
     DEF Crash, Stop, StartByHand, Fill, Ends, Launch, TypeOK, CopyInv
<1> QED
  BY <1>2, <1>4, <1>5, <1>6, <1>7 DEF Process

\* An accepted file starts a service on a healthy dependency only.
LEMMA StartIsGated ==
  ASSUME DeployedInv, NEW s \in {"app", "gateway"}, UpStarts(s)
  PROVE  health[Dependency[s]] = "healthy"
<1>1. DependenciesOk(file)
  BY DEF DeployedInv, UpStarts, Accepts
<1>2. PICK n \in file.service[s].needs :
             n.on = Dependency[s] /\ n.until = "service_healthy"
  BY <1>1 DEF DependenciesOk
<1> QED
  BY <1>2 DEF UpStarts, MayStart

\* While nothing was broken, stopped or edited, whoever runs has its upstream.
LEMMA QuietStep ==
  TypeOK /\ DeployedInv /\ StopInv /\ QuietInv /\ [Next]_vars => QuietInv'
<1> SUFFICES ASSUME TypeOK, DeployedInv, StopInv, QuietInv, [Next]_vars,
                    faults' = 0, commands' = 0
             PROVE  QuietInv'
  BY DEF QuietInv
<1> DEFINE Calm ==
      /\ \A s \in Services : /\ stop[s] = "none"
                             /\ health[s] = "healthy" => phase[s] = "serving"
      /\ phase["app"] # "absent" => phase["state"] = "serving"
      /\ phase["gateway"] # "absent" => phase["app"] = "serving"
<1>1. SUFFICES Calm'
  BY DEF QuietInv
<1>2. CASE UNCHANGED vars
  BY <1>2 DEF vars, QuietInv
<1>3. CASE Deploy \/ UpFails
  BY <1>3 DEF Deploy, UpFails, QuietInv
<1>4. ~Edit
  BY DEF Edit, TypeOK
<1>5. ASSUME NEW s \in Services
      PROVE  ~Crash(s) /\ ~Stop(s) /\ ~StartByHand(s)
  BY DEF Crash, Stop, StartByHand, TypeOK
<1>6. ASSUME NEW s \in Services,
             Process(s) \/ Docker(s) \/ Fill(s)
      PROVE  Calm'
  <2>1. faults = 0 /\ commands = 0
    BY <1>6 DEF Process, Docker, Load, Arm, HandleSigterm, Close, UpStarts,
                Probe, DockerRestarts, Escalate, Fill
  <2>2. Calm
    BY <2>1 DEF QuietInv
  <2>3. s \in {"state", "app", "gateway"}
    BY DEF Services
  <2> USE DEF TypeOK, Services
  <2>4. CASE Load(s)
    BY <2>2, <2>3, <2>4 DEF Load, Ends
  <2>5. CASE Arm(s)
    BY <2>2, <2>3, <2>5 DEF Arm
  <2>6. ~HandleSigterm(s) /\ ~Close(s) /\ ~Escalate(s)
    <3>1. stop[s] = "none"
      BY <2>2
    <3> HIDE DEF TypeOK
    <3>2. ~HandleSigterm(s)
      BY <3>1 DEF HandleSigterm
    <3>3. ~Escalate(s)
      BY <3>1, Zenon DEF Escalate
    <3>4. ~Close(s)
      BY <3>1 DEF Close, StopInv
    <3> QED
      BY <3>2, <3>3, <3>4
  <2>7. CASE UpStarts(s)
    <3>1. s = "app" => health["state"] = "healthy"
      BY <2>7, StartIsGated DEF Dependency
    <3>2. s = "gateway" => health["app"] = "healthy"
      BY <2>7, StartIsGated DEF Dependency
    <3>3. /\ phase[s] = "absent" /\ stop' = stop
          /\ phase' = [phase EXCEPT ![s] = "loading"]
          /\ health' = [health EXCEPT ![s] = "starting"]
      BY <2>7 DEF UpStarts, Launch
    <3>4. phase["app"] # "absent" => phase["state"] # "absent"
      BY <2>2
    <3>5. phase["gateway"] # "absent" => phase["app"] # "absent"
      BY <2>2
    <3>6. CASE s = "state"
      BY <2>2, <3>3, <3>4, <3>5, <3>6
    <3>7. CASE s = "app"
      BY <2>2, <3>1, <3>3, <3>5, <3>7
    <3>8. CASE s = "gateway"
      BY <2>2, <3>2, <3>3, <3>8
    <3> QED
      BY <2>3, <3>6, <3>7, <3>8
  <2>8. CASE Probe(s)
    BY <2>2, <2>3, <2>8 DEF Probe
  <2>9. CASE DockerRestarts(s)
    BY <2>2, <2>3, <2>9 DEF DockerRestarts, Launch
  <2>10. CASE Fill(s)
    BY <2>2, <2>3, <2>10 DEF Fill
  <2> QED
    BY <1>6, <2>4, <2>5, <2>6, <2>7, <2>8, <2>9, <2>10 DEF Process, Docker
<1> QED
  BY <1>2, <1>3, <1>4, <1>5, <1>6 DEF Next

\* The inductive invariant holds always.
THEOREM Invariance == Spec => [](TypeOK /\ IInv)
<1>1. Init => TypeOK /\ IInv
  BY TypeInit, InvInit
<1>2. TypeOK /\ IInv /\ [Next]_vars => (TypeOK /\ IInv)'
  BY TypeStep, DeployedStep, StopStep, CopyStep, QuietStep DEF IInv
<1> QED
  BY <1>1, <1>2, PTL DEF Spec
-----------------------------------------------------------------------------
\* A container whose service is not crowded is killed by a stop only if the
\* SIGTERM came before its handlers were installed: the grace period that the
\* check demands is longer than the poll interval of the loop.
THEOREM Graceful == Spec => []GracefulStop
<1>1. IInv => GracefulStop
  BY DEF IInv, StopInv, GracefulStop
<1> QED
  BY <1>1, Invariance, PTL

\* With two valid copies of one and the same file the hierarchy holds: if it is
\* broken between the running app and gateway, one of them runs with an old file.
THEOREM Stale == Spec => []BrokenMeansStale
<1>1. ASSUME TypeOK, CopyInv,
             phase["gateway"] \in Running \ {"loading"},
             copy["app"] = mounted, copy["gateway"] = mounted
      PROVE  ~(copy["gateway"].outer <= copy["app"].inner + copy["gateway"].margin)
  <2>1. Valid("gateway", mounted)
    BY <1>1 DEF CopyInv, Callers
  <2>2. mounted.outer > mounted.inner + mounted.margin
    BY <2>1 DEF Valid
  <2>3. mounted.inner \in Nat /\ mounted.outer \in Nat /\ mounted.margin \in Nat
    BY <1>1, LifecycleAssumption DEF TypeOK
  <2>4. \A i, o, m \in Nat : o > i + m => ~(o <= i + m)
    OBVIOUS
  <2> QED
    BY <1>1, <2>2, <2>3, <2>4
<1>2. TypeOK /\ IInv => BrokenMeansStale
  BY <1>1 DEF IInv, BrokenMeansStale
<1> QED
  BY <1>2, Invariance, PTL

\* A healthy gateway of an accepted file has the whole chain behind it as long
\* as nothing crashed, was edited or was stopped.
THEOREM Gated == Spec => []HealthyIsReady
<1>1. ASSUME TypeOK, IInv, faults = 0, commands = 0,
             \A s \in Services : ~full[s],
             PortsSeen, health["gateway"] = "healthy"
      PROVE  Ready
  <2>1. /\ phase["gateway"] = "serving"
        /\ phase["app"] = "serving"
        /\ phase["state"] = "serving"
    BY <1>1 DEF IInv, QuietInv, Services
  <2>2. Accepts(file)
    BY <1>1, <2>1 DEF IInv, DeployedInv, Services
  <2>3. Published(file)
    BY <1>1, <2>2 DEF Accepts, PublishedOk, Published, PortsSeen
  <2>4. Reaches(file, "state")
    BY DEF Reaches, Dependency
  <2>5. ASSUME NEW s \in {"app", "gateway"} PROVE Reaches(file, s)
    BY <1>1, <2>2 DEF Accepts, UpstreamOk, Reaches, PortsSeen
  <2> QED
    BY <1>1, <2>1, <2>3, <2>4, <2>5 DEF Ready, Services
<1>2. TypeOK /\ IInv => HealthyIsReady
  BY <1>1 DEF HealthyIsReady
<1> QED
  BY <1>2, Invariance, PTL

\* No step but a start by hand brings back what was stopped by hand: an accepted
\* file restarts failures only.
THEOREM StoppedForGood == Spec => StopIsFinal
<1> DEFINE Final == \A s \in Services :
      held[s] /\ phase[s] \in Down /\ phase'[s] \notin Down => ~held'[s]
<1>1. ASSUME TypeOK, DeployedInv, [Next]_vars,
             NEW t \in Services, held[t], phase[t] \in Down, phase'[t] \notin Down
      PROVE  ~held'[t]
  <2> USE <1>1 DEF TypeOK
  <2>1. ~(Deploy \/ UpFails \/ Edit \/ UNCHANGED vars)
    BY DEF Deploy, UpFails, Edit, vars
  <2>2. PICK s \in Services : \/ Process(s) \/ Docker(s)
                              \/ Crash(s) \/ Stop(s) \/ StartByHand(s) \/ Fill(s)
    BY <2>1 DEF Next
  <2>3. ~Process(s)
    BY DEF Process, Load, Arm, HandleSigterm, Close, Ends
  <2>4. ~UpStarts(s) /\ ~Probe(s) /\ ~Escalate(s)
    BY DEF UpStarts, Probe, Escalate, Launch, Ends
  <2>5. ~DockerRestarts(s)
    <3>1. SUFFICES ASSUME DockerRestarts(s) PROVE FALSE
      OBVIOUS
    <3>2. s = t
      BY <3>1 DEF DockerRestarts, Launch
    <3>3. RestartOk(file)
      BY DEF DeployedInv, Accepts
    <3>4. file.service[s].restart.policy = "on-failure"
      <4>1. Accepts(file)
        BY DEF DeployedInv
      <4> QED
        BY <3>3, <4>1 DEF RestartOk, Accepts, ServiceSetOk
    <3> QED
      BY <3>1, <3>2, <3>4 DEF DockerRestarts, PolicyRestarts
  <2>6. ~Crash(s) /\ ~Stop(s) /\ ~Fill(s)
    BY DEF Crash, Stop, Fill, Ends
  <2> QED
    BY <2>2, <2>3, <2>4, <2>5, <2>6 DEF Docker, StartByHand, Launch
<1>2. TypeOK /\ IInv /\ [Next]_vars => [Final]_vars
  BY <1>1 DEF IInv
<1> QED
  BY <1>2, Invariance, PTL DEF Spec, StopIsFinal
=============================================================================
