----------------------------- MODULE ComposeFile -----------------------------
(***************************************************************************)
(* A Compose file of the platform as `docker compose config` renders it,   *)
(* the structural check that decides whether it may be deployed            *)
(* (scripts/compose/check_compose.py), and what Docker and the services'   *)
(* own configuration (the three config.py) make of it at run time.         *)
(*                                                                         *)
(* A file is a record: the set of its service names, one record per        *)
(* service, and the top-level networks, internal networks, volumes and     *)
(* configs.  A number carries what its parser makes of the field, 0 for a  *)
(* field that is missing.  What a service binds is `own' (its own port    *)
(* variable); whom and where it calls is `host' and `port' (the UPSTREAM or *)
(* STATE variables).                                                       *)
(***************************************************************************)
EXTENDS Naturals, FiniteSets

CONSTANTS
  Attempts,   \* EXPECTED_RESTART_MAX_ATTEMPTS
  Grace,      \* EXPECTED_STOP_GRACE_PERIOD_SECONDS
  Poll        \* what serve_forever needs to notice shutdown(), in seconds

ASSUME ComposeAssumption ==
  /\ Attempts \in Nat /\ Grace \in Nat /\ Poll \in Nat
  /\ Poll < Grace

Services == {"state", "app", "gateway"}

Undeclared == 0
DefaultPort == 8080

\* Whom a service calls: nobody below state.
Dependency == [state |-> "none", app |-> "state", gateway |-> "app"]

(***************************************************************************)
(* compose.yaml as it is.                                                  *)
(***************************************************************************)
ShippedService(s) ==
  [ image    |-> "release",
    ports    |-> IF s = "gateway"
                 THEN {[ip |-> "loopback", target |-> DefaultPort]} ELSE {},
    hardened |-> TRUE,
    probe    |-> s,
    needs    |-> IF s = "state" THEN {}
                 ELSE {[on |-> Dependency[s], until |-> "service_healthy"]},
    networks |-> CASE s = "state"   -> {"backend"}
                   [] s = "app"     -> {"edge", "backend"}
                   [] s = "gateway" -> {"edge"},
    volumes  |-> IF s = "state"
                 THEN {[source |-> "state_data", target |-> "/data"]} ELSE {},
    config   |-> TRUE,
    own      |-> DefaultPort,
    host     |-> Dependency[s],
    port     |-> IF s = "state" THEN Undeclared ELSE DefaultPort,
    limits   |-> "approved",
    restart  |-> [policy |-> "on-failure", attempts |-> Attempts],
    grace    |-> Grace ]

Shipped ==
  [ services |-> Services,
    service  |-> [s \in Services |-> ShippedService(s)],
    networks |-> {"edge", "backend"},
    internal |-> {"backend"},
    volumes  |-> {"state_data"},
    configs  |-> {"platform"},
    fallback |-> TRUE ]       \* ${VERSION:-...} equals VERSION everywhere

(***************************************************************************)
(* check_compose.py: each check as what makes it report nothing.           *)
(***************************************************************************)
ServiceSetOk(f) == f.services = Services

ImagesOk(f) == f.fallback /\ \A s \in f.services : f.service[s].image = "release"

PublishedOk(f) ==
  LET published == f.service["gateway"].ports
  IN  /\ \A s \in f.services \ {"gateway"} : f.service[s].ports = {}
      /\ published # {}
      /\ \A p \in published : p.ip = "loopback" /\ p.target = DefaultPort

HardeningOk(f) == \A s \in f.services : f.service[s].hardened

HealthchecksOk(f) == \A s \in Services : f.service[s].probe = s

\* Mutant: a dependency of any condition counts as health-gated.
DependenciesAnyCondition(f) ==
  /\ f.service["state"].needs = {}
  /\ \A s \in {"app", "gateway"} : \E n \in f.service[s].needs : n.on = Dependency[s]

\* Other dependencies of app and gateway pass unseen.
DependenciesOk(f) ==
  /\ f.service["state"].needs = {}
  /\ \A s \in {"app", "gateway"} :
       \E n \in f.service[s].needs :
         n.on = Dependency[s] /\ n.until = "service_healthy"

NetworksOk(f) ==
  /\ f.networks = {"edge", "backend"}
  /\ "backend" \in f.internal
  /\ "edge" \notin f.internal
  /\ f.service["gateway"].networks = {"edge"}
  /\ f.service["app"].networks = {"edge", "backend"}
  /\ f.service["state"].networks = {"backend"}
  /\ f.service["gateway"].networks \cap f.service["state"].networks = {}

\* check_state_volume: mounts of named volumes, the only ones it looks at and the
\* only ones a file has here.
VolumeOk(f) ==
  /\ f.volumes = {"state_data"}
  /\ f.service["state"].volumes = {[source |-> "state_data", target |-> "/data"]}
  /\ \A s \in {"app", "gateway"} : f.service[s].volumes = {}

ConfigOk(f) ==
  f.configs = {"platform"} /\ \A s \in Services : f.service[s].config

\* Mutant: names and networks only.
UpstreamHostOnly(f) ==
  \A s \in {"app", "gateway"} :
    /\ f.service[s].host = Dependency[s]
    /\ f.service[s].networks \cap f.service[Dependency[s]].networks # {}

\* The ports are compared only when both are declared.
UpstreamOk(f) ==
  \A s \in {"app", "gateway"} :
    LET caller == f.service[s]
        callee == f.service[Dependency[s]]
    IN  /\ caller.host = Dependency[s]
        /\ caller.port = callee.own \/ Undeclared \in {caller.port, callee.own}
        /\ caller.networks \cap callee.networks # {}

LimitsOk(f) == \A s \in f.services : f.service[s].limits = "approved"

\* Mutant: the prefix of the policy's name is not looked at.
RestartAnyPolicy(f) ==
  \A s \in f.services : f.service[s].restart.attempts = Attempts

RestartOk(f) ==
  \A s \in f.services :
    f.service[s].restart = [policy |-> "on-failure", attempts |-> Attempts]

GraceOk(f) == \A s \in f.services : f.service[s].grace = Grace

\* main: deployed are the files without a finding.
Accepts(f) ==
  /\ ServiceSetOk(f)
  /\ ImagesOk(f) /\ PublishedOk(f) /\ HardeningOk(f) /\ HealthchecksOk(f)
  /\ DependenciesOk(f) /\ NetworksOk(f) /\ VolumeOk(f) /\ ConfigOk(f)
  /\ UpstreamOk(f) /\ LimitsOk(f) /\ RestartOk(f) /\ GraceOk(f)

(***************************************************************************)
(* What a file means at run time.                                          *)
(***************************************************************************)
\* load_config of the three services: a declared port must be a TCP port, an
\* undeclared one is the default.
PortOk(raw) == raw = Undeclared \/ raw \in 1..65535
Port(raw) == IF raw = Undeclared THEN DefaultPort ELSE raw
EnvironmentOk(f, s) == PortOk(f.service[s].own) /\ PortOk(f.service[s].port)

\* A call reaches whom it is for: the name resolves on a network both are on,
\* and the port is the one that is bound.
Reaches(f, s) ==
  LET d == Dependency[s]
  IN  \/ d = "none"
      \/ /\ f.service[s].host = d
         /\ f.service[s].networks \cap f.service[d].networks # {}
         /\ Port(f.service[s].port) = Port(f.service[d].own)

\* The host reaches gateway.
Published(f) ==
  \E p \in f.service["gateway"].ports : p.target = Port(f.service["gateway"].own)
=============================================================================
