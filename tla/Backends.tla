------------------------------ MODULE Backends ------------------------------
(***************************************************************************)
(* The services of the monolith that keep state of their own and share     *)
(* none: interleaving their steps asks nothing new, so a behaviour is one  *)
(* of any one of them, and the others wait.                                *)
(***************************************************************************)
EXTENDS Temperature, Portfolio, Flights, VaultSnapshot, ConfigClient, Autoscaler

VARIABLE service  \* the one that runs

backendVars == <<tempVars, portfolioVars, flightVars, vaultVars, configVars,
                 autoscalerVars, service>>

BackendInit ==
  /\ service \in {"temperature", "portfolio", "flights", "vault", "config", "autoscaler"}
  /\ TempInit /\ PortfolioInit /\ FlightsInit /\ ConfigInit
  /\ IF service = "vault"
       THEN VaultInit
       ELSE VaultInit /\ activeNode = CHOOSE n \in Node : TRUE
  /\ IF service = "autoscaler"
       THEN AutoscalerInit
       ELSE AutoscalerInit /\ running = Job

BackendNext ==
  /\ UNCHANGED service
  /\ \/ /\ service = "temperature"
        /\ TempNext
        /\ UNCHANGED <<portfolioVars, flightVars, vaultVars, configVars, autoscalerVars>>
     \/ /\ service = "portfolio"
        /\ PortfolioNext
        /\ UNCHANGED <<tempVars, flightVars, vaultVars, configVars, autoscalerVars>>
     \/ /\ service = "flights"
        /\ FlightsNext
        /\ UNCHANGED <<tempVars, portfolioVars, vaultVars, configVars, autoscalerVars>>
     \/ /\ service = "vault"
        /\ VaultNext
        /\ UNCHANGED <<tempVars, portfolioVars, flightVars, configVars, autoscalerVars>>
     \/ /\ service = "config"
        /\ ConfigNext
        /\ UNCHANGED <<tempVars, portfolioVars, flightVars, vaultVars, autoscalerVars>>
     \/ /\ service = "autoscaler"
        /\ AutoscalerNext
        /\ UNCHANGED <<tempVars, portfolioVars, flightVars, vaultVars, configVars>>

BackendSpec ==
  BackendInit /\ [][BackendNext]_backendVars /\ (service = "portfolio" => PortfolioFairness)
=============================================================================
