---------------------------- MODULE ConfigClient ----------------------------
(***************************************************************************)
(* lib/config: a value of Consul's KV store, or a default, read through a  *)
(* client that the first reader makes.  consulClient is tested without     *)
(* clientMutex before it is tested with it.                                *)
(***************************************************************************)
EXTENDS Naturals

CONSTANTS
  Reader,     \* goroutines that read a value
  NoReader    \* nobody holds clientMutex

ASSUME ConfigAssumption == NoReader \notin Reader

VARIABLES
  consulClient,  \* the number of the client in use, 0 for nil
  clients,       \* clients made
  clientMutex,   \* who holds it
  nomadEnv,      \* DCOTTA_COM_NODE_CONSUL_ADDR is set
  reader,        \* how far each reader is
  client,        \* the client it was given, 0 for none
  intValue       \* what Int returned: "kv", or "default" with an error

configVars == <<consulClient, clients, clientMutex, nomadEnv, reader, client, intValue>>

ConfigInit ==
  /\ consulClient = 0
  /\ clients = 0
  /\ clientMutex = NoReader
  /\ nomadEnv \in BOOLEAN
  /\ reader = [r \in Reader |-> "start"]
  /\ client = [r \in Reader |-> 0]
  /\ intValue = [r \in Reader |-> "none"]

Given(r, c) ==
  /\ client' = [client EXCEPT ![r] = c]
  /\ reader' = [reader EXCEPT ![r] = IF c = 0 THEN "default" ELSE "get"]

\* The first test of consulClient races with its assignment: a reader may see
\* nil although it is set.
TestUnlocked(r) ==
  /\ reader[r] = "start"
  /\ \E seen \in {0, consulClient} :
       IF seen # 0
         THEN Given(r, seen)
         ELSE reader' = [reader EXCEPT ![r] = "lock"] /\ UNCHANGED client
  /\ UNCHANGED <<consulClient, clients, clientMutex, nomadEnv, intValue>>

LockClient(r) ==
  /\ reader[r] = "lock"
  /\ clientMutex = NoReader
  /\ clientMutex' = r
  /\ reader' = [reader EXCEPT ![r] = "locked"]
  /\ UNCHANGED <<consulClient, clients, nomadEnv, client, intValue>>

MakeClient(r) ==
  /\ clients' = clients + 1
  /\ consulClient' = clients + 1
  /\ Given(r, clients + 1)

\* Mutant: consulClient is not tested again.
getOrStartUntested(r) ==
  /\ reader[r] = "locked"
  /\ IF nomadEnv THEN MakeClient(r)
                 ELSE Given(r, 0) /\ UNCHANGED <<consulClient, clients>>
  /\ clientMutex' = NoReader
  /\ UNCHANGED <<nomadEnv, intValue>>

\* The second test, the client, the deferred Unlock.
getOrStart(r) ==
  /\ reader[r] = "locked"
  /\ IF consulClient = 0 /\ nomadEnv
       THEN MakeClient(r)
       ELSE Given(r, consulClient) /\ UNCHANGED <<consulClient, clients>>
  /\ clientMutex' = NoReader
  /\ UNCHANGED <<nomadEnv, intValue>>

Returns(r, v) ==
  /\ intValue' = [intValue EXCEPT ![r] = v]
  /\ reader' = [reader EXCEPT ![r] = "done"]
  /\ UNCHANGED <<consulClient, clients, clientMutex, nomadEnv, client>>

\* Consul has a number under the key.
Int(r) == reader[r] = "get" /\ Returns(r, "kv")

\* No client, no answer, no such key, or no number: the default, with an error.
IntDefault(r) == reader[r] \in {"get", "default"} /\ Returns(r, "default")

ConfigNext ==
  \E r \in Reader :
    TestUnlocked(r) \/ LockClient(r) \/ getOrStart(r) \/ Int(r) \/ IntDefault(r)

ConfigSpec == ConfigInit /\ [][ConfigNext]_configVars

-----------------------------------------------------------------------------
\* However the readers race, one client is made, everyone is given that one, and
\* a value is Consul's only where there is a client to read it with.
OneConsulClient ==
  /\ clients <= 1
  /\ \A r \in Reader : client[r] # 0 => client[r] = consulClient
  /\ \A r \in Reader : intValue[r] = "kv" => client[r] # 0
=============================================================================
