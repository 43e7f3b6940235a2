--------------------------- MODULE TemplateCluster ---------------------------
(***************************************************************************)
(* The hot-reloaded template cluster of a vdisk (nbd/ardb/storage,         *)
(* cluster.go, type TemplateCluster, with its storageClusterWatcher).      *)
(*                                                                         *)
(* Three kinds of actors share it:                                         *)
(*  - the config source, which changes the vdisk's template cluster        *)
(*    reference and the configs of storage clusters, and feeds them to     *)
(*    the watcher channels;                                                *)
(*  - the reloader goroutine of spawnConfigReloader, which selects on the  *)
(*    reference channel and on the current cluster watcher's channel and   *)
(*    writes servers/serverCount under the write lock;                     *)
(*  - callers of DoFor, which read servers/serverCount under the read      *)
(*    lock across ComputeServerIndex and the dial.                         *)
(* The RWMutex is a Go sync.RWMutex: a waiting writer blocks new readers.  *)
(***************************************************************************)
EXTENDS Integers, Sequences, FiniteSets, ServerIndex

CONSTANTS
    ClusterIDs,     \* storage cluster IDs, as model values
    NoCluster,      \* the empty cluster ID ""
    Callers,        \* goroutines calling DoFor
    ObjectIndices,  \* object indices given to DoFor
    Configs,        \* server-state sequences a cluster config may hold
    MaxRefUpdates,  \* bound on template reference changes by the source
    MaxCfgUpdates   \* bound on cluster config changes by the source

Online == "online"
Offline == "offline"
RIP == "rip"
ServerStates == {Online, Offline, RIP}

ASSUME NoCluster \notin ClusterIDs
ASSUME Configs \subseteq Seq(ServerStates) \ {<<>>}

ErrClusterNotDefined == "ErrClusterNotDefined"

\* A StorageServerConfig: its address belongs to one cluster.
ServerConfig == [cluster: ClusterIDs, state: ServerStates]
ServersOf(c, states) == [i \in DOMAIN states |-> [cluster |-> c, state |-> states[i]]]

\* The life of the channel returned by WatchStorageClusterConfig: live
\* while its context is, cancelled once the watcher is closed (values
\* already sent or being sent may still be received), closed when the
\* watch goroutine has returned.  "nil" is the zero channel.
ChanStates == {"nil", "live", "cancelled", "closed"}

VARIABLES
    srcRef,      \* the source's TemplateStorageClusterID of the vdisk
    srcCfg,      \* the source's config of every cluster
    refCh,       \* vdiskNBDRefCh: references sent, not yet received
    refUpdates,  \* reference changes so far
    cfgUpdates,  \* config changes so far
    watchID,     \* storageClusterWatcher.clusterID
    chan,        \* storageClusterWatcher.channel: [id, buf, state]
    refOK,       \* the last SetClusterID returned no error
    rpc,         \* reloader: "select", "update" or "clear" (waiting for Lock), "exited"
    pendingCfg,  \* the config the reloader received and is about to write
    servers,     \* tsc.servers (serverCount is its length)
    readers,     \* callers holding the read lock
    closed,      \* Close was called
    pc,          \* caller: "idle", "rlock", "route", "dial"
    obj,         \* caller: the object index of its DoFor
    idx          \* caller: the server index ComputeServerIndex returned

envVars == <<srcRef, srcCfg, refCh, refUpdates, cfgUpdates>>
watchVars == <<watchID, chan, refOK>>
callerVars == <<pc, obj, idx>>
vars == <<envVars, watchVars, rpc, pendingCfg, servers, readers, closed, callerVars>>

serverCount == Len(servers)

\* serverIsOnline
serverIsOnline(index) ==
    IF servers[index + 1].state = Online THEN Operational ELSE NotOperational

\* The cluster's servers as the source holds them, or none.
SourceServers(c) == IF c = NoCluster THEN <<>> ELSE ServersOf(c, srcCfg[c])

\* A reader may take the read lock: no writer holds or waits for the lock.
WriterWaiting == rpc \in {"update", "clear"}

(***************************************************************************)
(* The config source                                                       *)
(***************************************************************************)

SetTemplateRef(id) ==
    /\ refUpdates < MaxRefUpdates
    /\ id # srcRef
    /\ srcRef' = id
    /\ refCh' = Append(refCh, id)
    /\ refUpdates' = refUpdates + 1
    /\ UNCHANGED <<srcCfg, cfgUpdates, watchVars, rpc, pendingCfg, servers, readers, closed, callerVars>>

SetClusterConfig(c, states) ==
    /\ cfgUpdates < MaxCfgUpdates
    /\ states # srcCfg[c]
    /\ srcCfg' = [srcCfg EXCEPT ![c] = states]
    /\ cfgUpdates' = cfgUpdates + 1
    /\ chan' = IF chan.id = c /\ chan.state = "live"
               THEN [chan EXCEPT !.buf = Append(@, ServersOf(c, states))]
               ELSE chan
    /\ UNCHANGED <<srcRef, refCh, refUpdates, watchID, refOK, rpc, pendingCfg, servers, readers, closed, callerVars>>

\* The watch goroutine of a cancelled watcher returns and closes its channel.
CloseWatchChannel ==
    /\ chan.state = "cancelled"
    /\ chan' = [chan EXCEPT !.state = "closed"]
    /\ UNCHANGED <<envVars, watchID, refOK, rpc, pendingCfg, servers, readers, closed, callerVars>>

(***************************************************************************)
(* storageClusterWatcher.SetClusterID, as the reloader calls it            *)
(***************************************************************************)

\* Fault model: SetClusterID that does not record the new cluster ID.
SetClusterIDKeepingOldID(id) ==
    CASE id = watchID ->
            /\ UNCHANGED <<watchID, chan>> /\ refOK' = TRUE /\ rpc' = "select"
      [] id = NoCluster ->
            /\ watchID' = NoCluster
            /\ chan' = [chan EXCEPT !.state = IF @ = "live" THEN "cancelled" ELSE @]
            /\ refOK' = TRUE /\ rpc' = "clear"
      [] OTHER ->
            /\ chan' = [id |-> id, buf |-> <<ServersOf(id, srcCfg[id])>>, state |-> "live"]
            /\ UNCHANGED watchID /\ refOK' = TRUE /\ rpc' = "select"

\* Fault model: a new watch whose channel does not start with the
\* cluster's current config.
SetClusterIDWithoutFirstConfig(id) ==
    CASE id = watchID ->
            /\ UNCHANGED <<watchID, chan>> /\ refOK' = TRUE /\ rpc' = "select"
      [] id = NoCluster ->
            /\ watchID' = NoCluster
            /\ chan' = [chan EXCEPT !.state = IF @ = "live" THEN "cancelled" ELSE @]
            /\ refOK' = TRUE /\ rpc' = "clear"
      [] OTHER ->
            /\ watchID' = id
            /\ chan' = [id |-> id, buf |-> <<>>, state |-> "live"]
            /\ refOK' = TRUE /\ rpc' = "select"

\* Fault model: a new watch that cancels the old watcher but leaves the
\* old channel in scw.channel.
SetClusterIDKeepingOldChannel(id) ==
    CASE id = watchID ->
            /\ UNCHANGED <<watchID, chan>> /\ refOK' = TRUE /\ rpc' = "select"
      [] id = NoCluster ->
            /\ watchID' = NoCluster
            /\ chan' = [chan EXCEPT !.state = IF @ = "live" THEN "cancelled" ELSE @]
            /\ refOK' = TRUE /\ rpc' = "clear"
      [] OTHER ->
            /\ watchID' = id
            /\ chan' = [chan EXCEPT !.state = IF @ = "live" THEN "cancelled" ELSE @]
            /\ refOK' = TRUE /\ rpc' = "select"

\* Same ID: nothing to do.  Empty ID: cancel and forget the watcher (the
\* channel is kept).  Otherwise a new watch either fails (the vdisk's key
\* is marked invalid, the old watcher stays) or replaces the old watcher;
\* a new watch channel delivers the cluster's current config first.
\* clusterWasDefined && !clusterExists leads the reloader to clear servers.
SetClusterID(id) ==
    CASE id = watchID ->
            /\ UNCHANGED <<watchID, chan>>
            /\ refOK' = TRUE
            /\ rpc' = "select"
      [] id = NoCluster ->
            /\ watchID' = NoCluster
            /\ chan' = [chan EXCEPT !.state = IF @ = "live" THEN "cancelled" ELSE @]
            /\ refOK' = TRUE
            /\ rpc' = "clear"
      [] OTHER ->
            \/ /\ UNCHANGED <<watchID, chan>>
               /\ refOK' = FALSE
               /\ rpc' = "select"
            \/ /\ watchID' = id
               /\ chan' = [id |-> id, buf |-> <<ServersOf(id, srcCfg[id])>>, state |-> "live"]
               /\ refOK' = TRUE
               /\ rpc' = "select"

(***************************************************************************)
(* The reloader goroutine                                                  *)
(***************************************************************************)

ReceiveRef ==
    /\ rpc = "select"
    /\ refCh # <<>>
    /\ refCh' = Tail(refCh)
    /\ SetClusterID(Head(refCh))
    /\ UNCHANGED <<srcRef, srcCfg, refUpdates, cfgUpdates, pendingCfg, servers, readers, closed, callerVars>>

\* A receive from the watcher's channel: a value sent on it, or the zero
\* StorageClusterConfig once the channel is closed.
ReceiveConfig ==
    /\ rpc = "select"
    /\ \/ /\ chan.buf # <<>>
          /\ pendingCfg' = Head(chan.buf)
          /\ chan' = [chan EXCEPT !.buf = Tail(@)]
       \/ /\ chan.buf = <<>> /\ chan.state = "closed"
          /\ pendingCfg' = <<>>
          /\ UNCHANGED chan
    /\ rpc' = "update"
    /\ UNCHANGED <<envVars, watchID, refOK, servers, readers, closed, callerVars>>

\* Fault model: updateStorageConfig writing without taking the lock.
updateStorageConfigWithoutLock ==
    /\ rpc = "update"
    /\ servers' = pendingCfg
    /\ rpc' = "select"
    /\ UNCHANGED <<envVars, watchVars, pendingCfg, readers, closed, callerVars>>

\* updateStorageConfig: servers and serverCount under the write lock.
updateStorageConfig ==
    /\ rpc = "update"
    /\ readers = {}
    /\ servers' = pendingCfg
    /\ rpc' = "select"
    /\ UNCHANGED <<envVars, watchVars, pendingCfg, readers, closed, callerVars>>

\* Fault model: the servers cleared without taking the lock.
ClearServersWithoutLock ==
    /\ rpc = "clear"
    /\ servers' = <<>>
    /\ rpc' = "select"
    /\ UNCHANGED <<envVars, watchVars, pendingCfg, readers, closed, callerVars>>

\* The cluster is no longer referenced: servers, serverCount = nil, 0.
ClearServers ==
    /\ rpc = "clear"
    /\ readers = {}
    /\ servers' = <<>>
    /\ rpc' = "select"
    /\ UNCHANGED <<envVars, watchVars, pendingCfg, readers, closed, callerVars>>

\* <-ctx.Done(): the reloader returns.  Go's select picks among the ready
\* cases at random, so after Close it may still receive first.
ReloaderExit ==
    /\ rpc = "select" /\ closed
    /\ rpc' = "exited"
    /\ UNCHANGED <<envVars, watchVars, pendingCfg, servers, readers, closed, callerVars>>

(***************************************************************************)
(* The cluster's operations                                                *)
(***************************************************************************)

\* Close: cancel the reloader's context (and so the watch) and close the pool.
Close ==
    /\ ~closed
    /\ closed' = TRUE
    /\ chan' = [chan EXCEPT !.state = IF @ = "live" THEN "cancelled" ELSE @]
    /\ UNCHANGED <<envVars, watchID, refOK, rpc, pendingCfg, servers, readers, callerVars>>

CallDoFor(c, x) ==
    /\ pc[c] = "idle"
    /\ pc' = [pc EXCEPT ![c] = "rlock"]
    /\ obj' = [obj EXCEPT ![c] = x]
    /\ UNCHANGED <<envVars, watchVars, rpc, pendingCfg, servers, readers, closed, idx>>

\* Fault model: the early return leaves the read lock held.
RLockLeavingReadLock(c) ==
    /\ pc[c] = "rlock"
    /\ ~WriterWaiting
    /\ readers' = readers \cup {c}
    /\ IF serverCount = 0
       THEN /\ pc' = [pc EXCEPT ![c] = "idle"]
            /\ obj' = [obj EXCEPT ![c] = 0]
       ELSE /\ pc' = [pc EXCEPT ![c] = "route"]
            /\ UNCHANGED obj
    /\ UNCHANGED <<envVars, watchVars, rpc, pendingCfg, servers, closed, idx>>

\* RLock, then the early return with ErrClusterNotDefined when serverCount = 0.
RLock(c) ==
    /\ pc[c] = "rlock"
    /\ ~WriterWaiting
    /\ IF serverCount = 0
       THEN /\ pc' = [pc EXCEPT ![c] = "idle"]
            /\ obj' = [obj EXCEPT ![c] = 0]
            /\ UNCHANGED readers
       ELSE /\ pc' = [pc EXCEPT ![c] = "route"]
            /\ readers' = readers \cup {c}
            /\ UNCHANGED obj
    /\ UNCHANGED <<envVars, watchVars, rpc, pendingCfg, servers, closed, idx>>

\* ComputeServerIndex under the read lock; without an online server the
\* search never returns and the caller spins holding the read lock.
Route(c) ==
    LET r == ComputeServerIndex(serverCount, obj[c], [i \in 0..(serverCount - 1) |-> serverIsOnline(i)])
    IN  /\ pc[c] = "route"
        /\ IF r.err = SearchDiverges
           THEN UNCHANGED <<pc, idx>>
           ELSE /\ pc' = [pc EXCEPT ![c] = "dial"]
                /\ idx' = [idx EXCEPT ![c] = r.index]
        /\ UNCHANGED <<envVars, watchVars, rpc, pendingCfg, servers, readers, closed, obj>>

\* Fault model: DoFor returning without its deferred RUnlock.
DialWithoutRUnlock(c) ==
    /\ pc[c] = "dial"
    /\ pc' = [pc EXCEPT ![c] = "idle"]
    /\ obj' = [obj EXCEPT ![c] = 0]
    /\ idx' = [idx EXCEPT ![c] = NoIndex]
    /\ UNCHANGED <<envVars, watchVars, rpc, pendingCfg, servers, readers, closed>>

\* cfg := tsc.servers[serverIndex]; dial it and apply the action (either
\* may fail and is broadcast); the deferred RUnlock.
Dial(c) ==
    /\ pc[c] = "dial"
    /\ pc' = [pc EXCEPT ![c] = "idle"]
    /\ readers' = readers \ {c}
    /\ obj' = [obj EXCEPT ![c] = 0]
    /\ idx' = [idx EXCEPT ![c] = NoIndex]
    /\ UNCHANGED <<envVars, watchVars, rpc, pendingCfg, servers, closed>>

(***************************************************************************)
(* Specification                                                           *)
(***************************************************************************)

\* NewTemplateCluster returned: the first reference was received and, when
\* it names a cluster, that cluster's first config was written.
Init ==
    /\ srcRef \in ClusterIDs \cup {NoCluster}
    /\ srcCfg \in [ClusterIDs -> Configs]
    /\ refCh = <<>>
    /\ refUpdates = 0
    /\ cfgUpdates = 0
    /\ watchID = srcRef
    /\ chan = [id |-> srcRef, buf |-> <<>>,
               state |-> IF srcRef = NoCluster THEN "nil" ELSE "live"]
    /\ refOK = TRUE
    /\ rpc = "select"
    /\ pendingCfg = <<>>
    /\ servers = SourceServers(srcRef)
    /\ readers = {}
    /\ closed = FALSE
    /\ pc = [c \in Callers |-> "idle"]
    /\ obj = [c \in Callers |-> 0]
    /\ idx = [c \in Callers |-> NoIndex]

Environment ==
    \/ \E id \in ClusterIDs \cup {NoCluster} : SetTemplateRef(id)
    \/ \E c \in ClusterIDs, states \in Configs : SetClusterConfig(c, states)
    \/ CloseWatchChannel
    \/ Close

Reloader ==
    \/ ReceiveRef
    \/ ReceiveConfig
    \/ updateStorageConfig
    \/ ClearServers
    \/ ReloaderExit

Caller(c) ==
    \/ \E x \in ObjectIndices : CallDoFor(c, x)
    \/ RLock(c)
    \/ Route(c)
    \/ Dial(c)

Next == Environment \/ Reloader \/ \E c \in Callers : Caller(c)

\* Goroutines are scheduled fairly: the reloader and every caller that can
\* take a step eventually take it.  A reader blocked by a waiting writer is
\* let in by the writer's Unlock before the next Lock (sync.RWMutex hands
\* the lock to the waiting readers), so RLock is strongly fair.  The source
\* and the callers' decisions to call are not fair.
Fairness ==
    /\ WF_vars(Reloader)
    /\ \A c \in Callers : SF_vars(RLock(c)) /\ WF_vars(Route(c) \/ Dial(c))

Spec == Init /\ [][Next]_vars /\ Fairness

(***************************************************************************)
(* Properties                                                              *)
(***************************************************************************)

TypeOK ==
    /\ srcRef \in ClusterIDs \cup {NoCluster}
    /\ srcCfg \in [ClusterIDs -> Configs]
    /\ refCh \in Seq(ClusterIDs \cup {NoCluster})
    /\ watchID \in ClusterIDs \cup {NoCluster}
    /\ chan.state \in ChanStates /\ chan.buf \in Seq(Seq(ServerConfig))
    /\ refOK \in BOOLEAN
    /\ rpc \in {"select", "update", "clear", "exited"}
    /\ servers \in Seq(ServerConfig) /\ pendingCfg \in Seq(ServerConfig)
    /\ readers = {c \in Callers : pc[c] \in {"route", "dial"}}
    /\ pc \in [Callers -> {"idle", "rlock", "route", "dial"}]
    /\ idx \in [Callers -> {NoIndex} \cup Nat]

\* The read lock keeps the servers a caller routed over until it dials:
\* the index ComputeServerIndex returned still names an online server of
\* tsc.servers when the caller reads tsc.servers[serverIndex], whatever
\* reloads the reloader has received meanwhile.
DialsOnlineServer ==
    \A c \in Callers :
        pc[c] = "dial" =>
            /\ idx[c] \in 0..(serverCount - 1)
            /\ servers[idx[c] + 1].state = Online

\* The cluster is open and nothing is waiting to be received or written
\* by the reloader.
Settled ==
    /\ ~closed
    /\ refCh = <<>>
    /\ chan.buf = <<>>
    /\ rpc = "select"

\* Once the reloader has taken in every reference it was sent, its watcher
\* follows the source's reference, unless the last watch it tried failed.
WatcherFollowsReference ==
    (Settled /\ refOK) => watchID = srcRef

\* Once settled with a cluster watched, the cluster's servers are those
\* the source holds for the watched cluster.
ServersFollowWatchedCluster ==
    (Settled /\ watchID # NoCluster) => servers = SourceServers(watchID)

\* Once settled with no cluster referenced, the cluster has no servers
\* (DoFor fails with ErrClusterNotDefined) and uses no other cluster's.
DetachedHasNoServers ==
    (Settled /\ watchID = NoCluster) => servers = <<>>

\* The cluster seen by its callers: a DoFor has resolved its server once it
\* has routed under the read lock and until it has dialed.
AtomicPc == [c \in Callers |-> CASE pc[c] = "idle" -> "idle"
                                  [] pc[c] = "dial" -> "resolved"
                                  [] OTHER -> "busy"]

Atomic == INSTANCE AtomicCluster WITH pc <- AtomicPc, target <- idx

\* TemplateCluster implements AtomicCluster: every DoFor dials the online
\* server ComputeServerIndex picks from the servers as they were when it
\* routed, and no reload of the reloader (updateStorageConfig, or the
\* clearing of servers when the reference is removed) replaces them
\* between the routing and the dial (cluster.go DoFor under RLock, the
\* reloader under Lock).
AtomicClusterRefined == Atomic!Spec

\* Every DoFor returns.
DoForReturns ==
    \A c \in Callers : pc[c] # "idle" ~> pc[c] = "idle"
=============================================================================
