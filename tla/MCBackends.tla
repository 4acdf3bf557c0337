----------------------------- MODULE MCBackends -----------------------------
(***************************************************************************)
(* Monolith and Backends for TLC.  A behaviour is the start-up of the      *)
(* process in some environment, or one of a service of a process that has  *)
(* started.  Two pages, three requests, two flights of which one is from a *)
(* closed airport, two Vault nodes, two calls in two milliseconds, three   *)
(* readers and two jobs.                                                   *)
(***************************************************************************)
EXTENDS Backends, Monolith

CONSTANTS p1, p2, v1, v2, v3, JFK, SXF, n1, n2, s1, s2, r1, r2, r3, j1, j2

MCViewer == {p1, p2}
MCVisitor == {v1, v2, v3}
MCAirport == {JFK, SXF}
MCListed == {JFK}
MCClosed == {SXF}
MCFlight == {<<JFK, SXF>>, <<JFK, JFK>>}
MCReading == {1, 2}
MCNode == {n1, n2}
MCSnapshotCall == {s1, s2}
MCMillisecond == {1, 2}
MCReader == {r1, r2, r3}
MCJob == {j1, j2}

VARIABLE starting  \* the behaviour is a start-up

\* A process that found all it hopes for, and serves.
Started ==
  /\ env = [otel |-> TRUE, crdb |-> TRUE, alloc |-> TRUE, consul |-> TRUE,
            broker |-> TRUE, polling |-> TRUE, nomad |-> TRUE, clients |-> TRUE,
            bigq |-> TRUE, ports |-> TRUE, httpPort |-> "set", grpcPort |-> "set"]
  /\ phase = "serving"
  /\ hook = Len(servicesHooks) + 1
  /\ mqtt = "ready"
  /\ state = [s \in Service |-> "up"]
  /\ cause = "none"

MCInit ==
  /\ BackendInit
  /\ \/ starting = TRUE /\ service = "config" /\ Init
     \/ starting = FALSE /\ Started

MCNext ==
  /\ UNCHANGED starting
  /\ \/ starting /\ Next /\ UNCHANGED backendVars
     \/ ~starting /\ BackendNext /\ UNCHANGED vars

MCSpec ==
  /\ MCInit /\ [][MCNext]_<<backendVars, vars, starting>>
  /\ WF_vars(starting /\ StartStep)
  /\ service = "portfolio" => PortfolioFairness
=============================================================================
