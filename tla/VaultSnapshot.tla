--------------------------- MODULE VaultSnapshot ---------------------------
(***************************************************************************)
(* s-rpc-vault takes a snapshot of Vault and uploads it, for the cron job  *)
(* and whoever else calls.  The calls share a client, which each points at *)
(* the leader it found.  The credentials of the upload are read from Vault *)
(* through a client of their own.                                          *)
(***************************************************************************)
EXTENDS Naturals

CONSTANTS
  Node,         \* the nodes of the Vault cluster
  Proxy,        \* the address the clients start with: any node that is up
  SnapshotCall, \* calls of Snapshot
  Millisecond,  \* what time.Now().UnixMilli() can be
  NoKey,        \* no object is named yet
  MaxFailovers  \* bound: nodes that stop

ASSUME VaultAssumption ==
  Proxy \notin Node /\ NoKey \notin Millisecond /\ MaxFailovers \in Nat

VARIABLES
  upNodes,     \* the nodes that answer
  activeNode,  \* the leader: a node, or Proxy while there is none
  failovers,   \* nodes that stopped
  address,     \* where the shared client sends its requests
  snapshot,    \* how far each call is
  leader,      \* the leader it found
  key,         \* the name of its object
  buffer,      \* what it read: "empty", "partial" or "whole"
  bucket       \* the uploaded objects, by name: what was in the buffer

vaultVars == <<upNodes, activeNode, failovers, address, snapshot, leader, key, buffer, bucket>>

VaultInit ==
  /\ upNodes = Node
  /\ activeNode \in Node
  /\ failovers = 0
  /\ address = Proxy
  /\ snapshot = [c \in SnapshotCall |-> "idle"]
  /\ leader = [c \in SnapshotCall |-> Proxy]
  /\ buffer = [c \in SnapshotCall |-> "empty"]
  /\ key = [c \in SnapshotCall |-> NoKey]
  /\ bucket = [k \in Millisecond |-> "empty"]

Answers(a) == IF a = Proxy THEN upNodes # {} ELSE a \in upNodes

Advance(c, step) == snapshot' = [snapshot EXCEPT ![c] = step]

-----------------------------------------------------------------------------
(* Vault.                                                                  *)

NodeStops(n) ==
  /\ n \in upNodes
  /\ failovers < MaxFailovers
  /\ failovers' = failovers + 1
  /\ upNodes' = upNodes \ {n}
  /\ activeNode' = IF activeNode = n THEN Proxy ELSE activeNode
  /\ UNCHANGED <<address, snapshot, leader, key, buffer, bucket>>

NodeStarts(n) ==
  /\ n \notin upNodes
  /\ upNodes' = upNodes \cup {n}
  /\ UNCHANGED <<activeNode, failovers, address, snapshot, leader, key, buffer, bucket>>

Elect(n) ==
  /\ activeNode = Proxy
  /\ n \in upNodes
  /\ activeNode' = n
  /\ UNCHANGED <<upNodes, failovers, address, snapshot, leader, key, buffer, bucket>>

-----------------------------------------------------------------------------
(* Snapshot.                                                               *)

\* The status comes from where an earlier call left the client.
HAStatus(c) ==
  /\ snapshot[c] = "idle"
  /\ IF Answers(address) /\ activeNode # Proxy
       THEN leader' = [leader EXCEPT ![c] = activeNode] /\ Advance(c, "found")
       ELSE UNCHANGED leader /\ Advance(c, "error")
  /\ UNCHANGED <<upNodes, activeNode, failovers, address, key, buffer, bucket>>

\* The object is named after the day and the millisecond: two calls of one
\* millisecond name the same one.
SetAddress(c) ==
  /\ snapshot[c] = "found"
  /\ address' = leader[c]
  /\ \E k \in Millisecond : key' = [key EXCEPT ![c] = k]
  /\ Advance(c, "read")
  /\ UNCHANGED <<upNodes, activeNode, failovers, leader, buffer, bucket>>

\* The snapshot is read from wherever the client points by now: a node that does
\* not lead redirects to the leader.
RaftSnapshot(c) ==
  /\ snapshot[c] = "read"
  /\ Answers(address) /\ activeNode # Proxy
  /\ buffer' = [buffer EXCEPT ![c] = "whole"]
  /\ Advance(c, "put")
  /\ UNCHANGED <<upNodes, activeNode, failovers, address, leader, key, bucket>>

\* Mutant: the error of RaftSnapshotWithContext is lost.
RaftSnapshotFailsUnseen(c) ==
  /\ snapshot[c] = "read"
  /\ buffer' = [buffer EXCEPT ![c] = "partial"]
  /\ Advance(c, "put")
  /\ UNCHANGED <<upNodes, activeNode, failovers, address, leader, key, bucket>>

\* Nobody answers, the minute is over, or the archive breaks off: the client
\* looks for the file an archive ends with.
RaftSnapshotFails(c) ==
  /\ snapshot[c] = "read"
  /\ buffer' = [buffer EXCEPT ![c] = "partial"]
  /\ Advance(c, "error")
  /\ UNCHANGED <<upNodes, activeNode, failovers, address, leader, key, bucket>>

\* The keys of the bucket are a secret of Vault, read through a client of their
\* own that is never pointed elsewhere.
credentialsProvider == Answers(Proxy)

\* The object store takes the object.
PutObject(c) ==
  /\ snapshot[c] = "put"
  /\ credentialsProvider
  /\ bucket' = [bucket EXCEPT ![key[c]] = buffer[c]]
  /\ Advance(c, "completed")
  /\ UNCHANGED <<upNodes, activeNode, failovers, address, leader, key, buffer>>

\* No credentials, or the upload fails; the object may be there all the same.
PutObjectFails(c) ==
  /\ snapshot[c] = "put"
  /\ \E stored \in {bucket[key[c]], buffer[c]} :
       bucket' = [bucket EXCEPT ![key[c]] = stored]
  /\ Advance(c, "error")
  /\ UNCHANGED <<upNodes, activeNode, failovers, address, leader, key, buffer>>

\* The cron job exits with 1 and is run again the next day.
NextRun(c) ==
  /\ snapshot[c] = "error"
  /\ Advance(c, "idle")
  /\ key' = [key EXCEPT ![c] = NoKey]
  /\ buffer' = [buffer EXCEPT ![c] = "empty"]
  /\ UNCHANGED <<upNodes, activeNode, failovers, address, leader, bucket>>

VaultNext ==
  \/ \E n \in Node : NodeStops(n) \/ NodeStarts(n) \/ Elect(n)
  \/ \E c \in SnapshotCall :
       \/ HAStatus(c) \/ SetAddress(c) \/ RaftSnapshot(c) \/ RaftSnapshotFails(c)
       \/ PutObject(c) \/ PutObjectFails(c) \/ NextRun(c)

VaultSpec == VaultInit /\ [][VaultNext]_vaultVars

-----------------------------------------------------------------------------
\* A job that exits with 0 has stored a whole snapshot under its key, and no
\* object is half a snapshot, whichever node stops while other calls move the
\* shared client, and although a call of the same millisecond writes to the same
\* key.  It says nothing of calls that fail because the client still points at a
\* node that is gone.
CompletedMeansStored ==
  /\ \A c \in SnapshotCall : snapshot[c] = "completed" => bucket[key[c]] = "whole"
  /\ \A k \in Millisecond : bucket[k] # "partial"
=============================================================================
