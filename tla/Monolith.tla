------------------------------ MODULE Monolith ------------------------------
(***************************************************************************)
(* The start-up of the monolith (services/main.go, lib/bedrock): telemetry *)
(* and migrations, the registration hooks of the services one after the    *)
(* other, gRPC, metrics.  The mqtt hook waits for the broker; events       *)
(* arrive, and the polling of the temperature starts, before it returns.   *)
(* Nothing stops the gRPC server, so the process ends by dying: the        *)
(* deferred shutdownServices never runs.                                   *)
(***************************************************************************)
EXTENDS Naturals, Sequences

\* main registers the services in this order.
servicesHooks == <<"autoscaler", "flights", "mqtt", "nomad-api", "portfolio-stats",
                   "vault", "prometheus",
                   "web-portfolio", "webhook", "web-flights", "web-home">>

Service == {servicesHooks[i] : i \in 1..Len(servicesHooks)}

\* What the process finds: TRUE or "set" is what each part hopes for.
Environment ==
  [otel : BOOLEAN,       \* an exporter can be made
   crdb : BOOLEAN,       \* CRDB_CONN_URL is set and migrations apply
   alloc : BOOLEAN,      \* NOMAD_ALLOC_ID is set
   consul : BOOLEAN,     \* mqttBrokerAddr can be read from Consul
   broker : BOOLEAN,     \* the mqtt broker is reachable
   polling : BOOLEAN,    \* mqtt/aquariumTemp/polling_s is positive, or not a number
   nomad : BOOLEAN,      \* NOMAD_TOKEN is set and the agent is healthy
   clients : BOOLEAN,    \* clients of Vault and Prometheus can be made
   bigq : BOOLEAN,       \* a BigQuery client can be made
   ports : BOOLEAN,      \* the gRPC and metrics ports are free
   httpPort : {"set", "unset", "bad"},
   grpcPort : {"set", "unset", "bad"}]

VARIABLES
  env,      \* the environment, which does not change
  phase,    \* where RunRegistered is
  hook,     \* the hook it runs
  mqtt,     \* how far newMqtt is
  state,    \* of each service: "off", "up" or "missing"
  cause     \* why the process died

vars == <<env, phase, hook, mqtt, state, cause>>

Phase == {"otel", "migrate", "hooks", "listen", "serving", "dead"}

TypeOK ==
  /\ env \in Environment
  /\ phase \in Phase
  /\ hook \in 1..(Len(servicesHooks) + 1)
  /\ mqtt \in {"none", "connecting", "subscribed", "ready"}
  /\ state \in [Service -> {"off", "up", "missing"}]
  /\ cause \in {"none", "start", "hook", "nilConfig", "nilCM", "ticker", "metrics"}

Init ==
  /\ env \in Environment
  /\ phase = "otel"
  /\ hook = 1
  /\ mqtt = "none"
  /\ state = [s \in Service |-> "off"]
  /\ cause = "none"

\* log.Fatal, or a panic: every service dies.
Die(why) ==
  /\ phase' = "dead"
  /\ cause' = why
  /\ UNCHANGED <<env, hook, mqtt, state>>

Goto(p) ==
  /\ phase' = p
  /\ UNCHANGED <<env, hook, mqtt, state, cause>>

-----------------------------------------------------------------------------
(* initBedrock.                                                            *)

setupOTelSDK ==
  /\ phase = "otel"
  /\ IF env.otel THEN Goto("migrate") ELSE Die("start")

migrateDB ==
  /\ phase = "migrate"
  /\ IF env.crdb THEN Goto("hooks") ELSE Die("start")

-----------------------------------------------------------------------------
(* The registration hooks.                                                 *)

Running(s) == phase = "hooks" /\ hook <= Len(servicesHooks) /\ servicesHooks[hook] = s

\* A hook returned: with an error the service is left out, and the next one runs.
HookReturns(s, ok) ==
  /\ state' = [state EXCEPT ![s] = IF ok THEN "up" ELSE "missing"]
  /\ hook' = hook + 1
  /\ UNCHANGED <<env, phase, cause>>

\* GetBaseConfig: without NOMAD_ALLOC_ID it returns neither a config nor an
\* error, and whoever uses the config panics.
GetBaseConfigFails == env.httpPort = "bad" \/ env.grpcPort = "bad"
GetBaseConfigNil == ~GetBaseConfigFails /\ ~env.alloc

Hook(s, ok) == Running(s) /\ HookReturns(s, ok) /\ UNCHANGED mqtt

\* What the hooks make.  OpenDB only needs CRDB_CONN_URL, without which the
\* migration would have failed.
OpenDB == env.crdb
NewVaultClient == env.clients
NewBigqClient == env.bigq

InitAutoscaler == Hook("autoscaler", OpenDB)
InitFlights == Hook("flights", OpenDB)
InitPortfolioStats == Hook("portfolio-stats", OpenDB)
InitNomadApi == Hook("nomad-api", env.nomad)

\* Mutant: a failed client ends the process.
InitVaultFatal ==
  /\ Running("vault")
  /\ IF NewVaultClient THEN HookReturns("vault", TRUE) /\ UNCHANGED mqtt
                       ELSE Die("hook")

InitVault == Hook("vault", NewVaultClient)
InitPrometheus == Hook("prometheus", env.clients)

\* Web services listen from here on, each in a goroutine: a port in use is logged
\* and nothing else.
InitWebPortfolio == Hook("web-portfolio", TRUE)
InitWebFlights == Hook("web-flights", TRUE)

\* Mutant: the hook serves HTTP itself, and not in a goroutine.
InitWebHomeServes ==
  /\ Running("web-home")
  /\ state' = [state EXCEPT !["web-home"] = "up"]
  /\ UNCHANGED <<env, phase, hook, mqtt, cause>>

InitWebHome == Hook("web-home", TRUE)

\* log.Fatal, not an error.
InitWebhook ==
  /\ Running("webhook")
  /\ IF NewBigqClient THEN HookReturns("webhook", TRUE) /\ UNCHANGED mqtt
                      ELSE Die("hook")

InitHooks ==
  \/ InitAutoscaler \/ InitFlights \/ InitPortfolioStats
  \/ InitNomadApi \/ InitVault \/ InitPrometheus
  \/ InitWebPortfolio \/ InitWebhook \/ InitWebFlights \/ InitWebHome

\* InitService of s-rpc-mqtt reads the address of the broker: the default given
\* to String comes with the error, which is returned.  Only then is the config
\* that may be nil looked into, for the client's id.
InitMqtt ==
  /\ Running("mqtt")
  /\ mqtt = "none"
  /\ IF GetBaseConfigFails \/ ~env.consul
       THEN HookReturns("mqtt", FALSE) /\ UNCHANGED mqtt
     ELSE IF GetBaseConfigNil THEN Die("nilConfig")
       ELSE /\ mqtt' = "connecting"
            /\ UNCHANGED <<env, phase, hook, state, cause>>

\* OnConnectionUp subscribes; AwaitConnection still has to return.
ConnectionUp ==
  /\ mqtt = "connecting"
  /\ env.broker
  /\ mqtt' = "subscribed"
  /\ UNCHANGED <<env, phase, hook, state, cause>>

\* newLeaderState runs since the start of newMqtt: a press may be dispatched
\* before scaffold.cm is assigned, and the call to the light panics.
EarlyPress ==
  /\ phase # "dead"
  /\ mqtt = "subscribed"
  /\ Die("nilCM")

\* Every connection, the first one and those after a loss, starts
\* aquariumTempPollingForever in a goroutine: NewTicker panics on a period of
\* zero or less, which Int takes from Consul as it is.
TickerPanics ==
  /\ phase # "dead"
  /\ mqtt \in {"subscribed", "ready"}
  /\ ~env.polling
  /\ Die("ticker")

MqttReady ==
  /\ mqtt = "subscribed"
  /\ phase = "hooks"
  /\ mqtt' = "ready"
  /\ HookReturns("mqtt", TRUE)

-----------------------------------------------------------------------------
(* Serving.                                                                *)

HooksDone ==
  /\ phase = "hooks"
  /\ hook > Len(servicesHooks)
  /\ Goto("listen")

\* RegisterGrpc, GetBaseConfig again, net.Listen.
Listen ==
  /\ phase = "listen"
  /\ IF GetBaseConfigFails \/ ~env.ports THEN Die("start")
     ELSE IF GetBaseConfigNil THEN Die("nilConfig") ELSE Goto("serving")

\* setupAndServeMetrics insists on HTTP_PORT, although GetBaseConfig has a
\* default for it.
MetricsFail ==
  /\ phase = "serving"
  /\ env.httpPort = "unset"
  /\ Die("metrics")

StartStep ==
  \/ setupOTelSDK \/ migrateDB
  \/ InitHooks
  \/ InitMqtt \/ MqttReady \/ ConnectionUp
  \/ HooksDone \/ Listen

Next ==
  StartStep \/ EarlyPress \/ TickerPanics \/ MetricsFail

\* Start-up is one goroutine, and it runs; nobody has to press a button.
Spec ==
  /\ Init /\ [][Next]_vars
  /\ WF_vars(StartStep)

-----------------------------------------------------------------------------
(* Properties.                                                             *)

\* What a service needs is all that can keep it from starting, and no hook but
\* the webhook's takes the process with it: the other services are served.  Two
\* defects of s-rpc-mqtt are excepted, and kill every service with it: a press
\* between the subscriptions and the assignment of cm, and a polling period of
\* zero or less in Consul.  A config that is nil kills the process from the mqtt
\* hook only when Consul answers it.
FailuresStayLocal ==
  /\ phase = "dead" =>
       \/ ~env.otel \/ ~env.crdb \/ ~env.alloc \/ ~env.bigq \/ ~env.ports
       \/ env.httpPort # "set" \/ env.grpcPort = "bad"
       \/ cause = "nilCM" /\ env.consul /\ env.broker
       \/ cause = "ticker" /\ env.consul /\ env.broker /\ ~env.polling
  /\ phase = "dead" /\ state["mqtt"] = "off" /\ cause = "nilConfig" =>
       env.consul
  /\ phase = "serving" =>
       \A s \in Service : state[s] # "up" =>
         \/ s = "nomad-api" /\ ~env.nomad
         \/ s \in {"vault", "prometheus"} /\ ~env.clients
         \/ s = "mqtt" /\ ~env.consul

\* Start-up ends: gRPC is served, or the process dies and is restarted.  Only a
\* broker that cannot be reached keeps every service waiting for mqtt's.
StartUpEnds == env.broker ~> phase \in {"serving", "dead"}
=============================================================================
