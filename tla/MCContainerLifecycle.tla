------------------------ MODULE MCContainerLifecycle ------------------------
(* ContainerLifecycle on a small instance: see MCContainerLifecycle.cfg.   *)
EXTENDS ContainerLifecycle

\* compose.yaml with one thing changed in service s.
With(s, field, value) ==
  [Shipped EXCEPT !.service[s] = [@ EXCEPT ![field] = value]]

MCFiles ==
  { Shipped,
    \* accepted: a second dependency, and ports that do not meet on both sides
    \* of gateway; a port that is none
    [With("app", "own", Undeclared) EXCEPT
       !.service["gateway"].port = 9000, !.service["gateway"].own = 9000,
       !.service["gateway"].needs = @ \cup {[on |-> "state", until |-> "service_started"]}],
    [With("app", "own", 70000) EXCEPT !.service["gateway"].port = 70000],
    \* refused
    With("app", "needs", {}),
    With("gateway", "needs", {[on |-> "app", until |-> "service_started"]}),
    With("gateway", "port", 9000),
    With("gateway", "host", "state"),
    With("gateway", "networks", {"edge", "backend"}),
    With("app", "networks", {"edge"}),
    With("state", "restart", [policy |-> "unless-stopped", attempts |-> Attempts]),
    With("state", "restart", [policy |-> "on-failure", attempts |-> 0]),
    With("app", "grace", 0),
    With("app", "probe", "state"),
    With("gateway", "config", FALSE),
    With("state", "volumes", {}),
    [Shipped EXCEPT !.services = {"state", "app"}] }

Config(inner, outer) ==
  [ok |-> TRUE, inner |-> inner, outer |-> outer, margin |-> 1, name |-> TRUE]

MCDefault == Config(2, 5)

\* Two files with a hierarchy that do not go together, and one without.
MCConfigs == {Config(2, 5), Config(5, 9), Config(4, 5)}
=============================================================================
