------------------------- MODULE TemplateClusterV0 -------------------------
(***************************************************************************)
(* The earlier template cluster (src/nbd/ardb/storage/cluster.go).  Its    *)
(* reloader keeps the watched cluster in two locals: templateClusterID,    *)
(* compared with every new reference, and templateClusterCh, the channel   *)
(* it receives configs from.  A removed reference sets the channel to nil  *)
(* and leaves the servers alone; updateStorageConfig validates a config    *)
(* before writing it under the write lock.  Do and DoFor hold the read     *)
(* lock across the server search and the dial, and DoFor has no guard for  *)
(* an empty cluster.                                                       *)
(***************************************************************************)
EXTENDS Integers, Sequences, FiniteSets, ServerIndex

CONSTANTS
    ClusterIDs,     \* storage cluster IDs, as model values
    NoCluster,      \* the empty cluster ID ""
    Callers,        \* goroutines calling Do or DoFor
    ObjectIndices,  \* object indices given to DoFor
    Configs,        \* server-state sequences a cluster config may hold
    MaxRefUpdates,  \* bound on template reference changes by the source
    MaxCfgUpdates   \* bound on cluster config changes by the source

Online == "online"
Offline == "offline"
RIP == "rip"
ServerStates == {Online, Offline, RIP}

ASSUME NoCluster \notin ClusterIDs
ASSUME Configs \subseteq Seq(ServerStates) \ {<<>>}

ServerConfig == [cluster: ClusterIDs, state: ServerStates]
ServersOf(c, states) == [i \in DOMAIN states |-> [cluster |-> c, state |-> states[i]]]

VARIABLES
    srcRef,      \* the source's TemplateStorageClusterID of the vdisk
    srcCfg,      \* the source's config of every cluster
    refCh,       \* vdiskNBDRefCh: references sent, not yet received
    refUpdates,  \* reference changes so far
    cfgUpdates,  \* config changes so far
    tid,         \* the reloader's templateClusterID
    chan,        \* templateClusterCh: [id, buf, state], state "nil" or "live" or "cancelled"
    refOK,       \* the last new watch did not fail
    rpc,         \* reloader: "select", "update" (waiting for Lock), "exited"
    pendingCfg,  \* the config the reloader received and is about to write
    servers,     \* tsc.servers (serverCount is its length)
    readers,     \* callers holding the read lock
    closed,      \* Close was called
    pc,          \* caller: "idle", "rlock", "route", "dial", "panicked"
    op,          \* caller: "Do" or "DoFor"
    obj,         \* caller: the object index of its DoFor
    idx          \* caller: the server index it will dial

envVars == <<srcRef, srcCfg, refCh, refUpdates, cfgUpdates>>
reloaderVars == <<tid, chan, refOK, rpc, pendingCfg>>
callerVars == <<pc, op, obj, idx>>
vars == <<envVars, reloaderVars, servers, readers, closed, callerVars>>

serverCount == Len(servers)

\* serverIsOnline, as the function of its answers over the server indices.
Onlines == [i \in 0..(serverCount - 1) |->
               IF servers[i + 1].state = Online THEN Operational ELSE NotOperational]

SourceServers(c) == IF c = NoCluster THEN <<>> ELSE ServersOf(c, srcCfg[c])

\* The cluster whose configs the reloader receives.
Watched == IF chan.state = "live" THEN chan.id ELSE NoCluster

WriterWaiting == rpc = "update"

(***************************************************************************)
(* The config source                                                       *)
(***************************************************************************)

SetTemplateRef(id) ==
    /\ refUpdates < MaxRefUpdates
    /\ id # srcRef
    /\ srcRef' = id
    /\ refCh' = Append(refCh, id)
    /\ refUpdates' = refUpdates + 1
    /\ UNCHANGED <<srcCfg, cfgUpdates, reloaderVars, servers, readers, closed, callerVars>>

SetClusterConfig(c, states) ==
    /\ cfgUpdates < MaxCfgUpdates
    /\ states # srcCfg[c]
    /\ srcCfg' = [srcCfg EXCEPT ![c] = states]
    /\ cfgUpdates' = cfgUpdates + 1
    /\ chan' = IF chan.id = c /\ chan.state = "live"
               THEN [chan EXCEPT !.buf = Append(@, ServersOf(c, states))]
               ELSE chan
    /\ UNCHANGED <<srcRef, refCh, refUpdates, tid, refOK, rpc, pendingCfg, servers, readers, closed, callerVars>>

(***************************************************************************)
(* The reloader goroutine                                                  *)
(***************************************************************************)

\* A reference equal to templateClusterID is skipped.  An empty one sets
\* templateClusterID to "" and the channel to nil and cancels the watch.
\* Any other one starts a new watch; on success its channel replaces the
\* old one and the old watch is cancelled, but templateClusterID keeps
\* its value.
ReceiveRef ==
    LET id == Head(refCh)
    IN  /\ rpc = "select"
        /\ refCh # <<>>
        /\ refCh' = Tail(refCh)
        /\ CASE id = tid ->
                  /\ UNCHANGED <<tid, chan>>
                  /\ refOK' = TRUE
             [] id = NoCluster ->
                  /\ tid' = NoCluster
                  /\ chan' = [id |-> NoCluster, buf |-> <<>>, state |-> "nil"]
                  /\ refOK' = TRUE
             [] OTHER ->
                  \/ /\ UNCHANGED <<tid, chan>>
                     /\ refOK' = FALSE
                  \/ /\ chan' = [id |-> id, buf |-> <<ServersOf(id, srcCfg[id])>>, state |-> "live"]
                     /\ refOK' = TRUE
                     /\ UNCHANGED tid
        /\ UNCHANGED <<srcRef, srcCfg, refUpdates, cfgUpdates, rpc, pendingCfg, servers, readers, closed, callerVars>>

ReceiveConfig ==
    /\ rpc = "select"
    /\ chan.buf # <<>>
    /\ pendingCfg' = Head(chan.buf)
    /\ chan' = [chan EXCEPT !.buf = Tail(@)]
    /\ rpc' = "update"
    /\ UNCHANGED <<envVars, tid, refOK, servers, readers, closed, callerVars>>

\* updateStorageConfig: the configs of the model are non-empty and pass
\* cfg.Validate(); they are written under the write lock.
updateStorageConfig ==
    /\ rpc = "update"
    /\ readers = {}
    /\ servers' = pendingCfg
    /\ rpc' = "select"
    /\ UNCHANGED <<envVars, tid, chan, refOK, pendingCfg, readers, closed, callerVars>>

ReloaderExit ==
    /\ rpc = "select" /\ closed
    /\ rpc' = "exited"
    /\ UNCHANGED <<envVars, tid, chan, refOK, pendingCfg, servers, readers, closed, callerVars>>

(***************************************************************************)
(* The cluster's operations                                                *)
(***************************************************************************)

Close ==
    /\ ~closed
    /\ closed' = TRUE
    /\ chan' = [chan EXCEPT !.state = IF @ = "live" THEN "cancelled" ELSE @]
    /\ UNCHANGED <<envVars, tid, refOK, rpc, pendingCfg, servers, readers, callerVars>>

Call(c, o, x) ==
    /\ pc[c] = "idle"
    /\ pc' = [pc EXCEPT ![c] = "rlock"]
    /\ op' = [op EXCEPT ![c] = o]
    /\ obj' = [obj EXCEPT ![c] = x]
    /\ UNCHANGED <<envVars, reloaderVars, servers, readers, closed, idx>>

RLock(c) ==
    /\ pc[c] = "rlock"
    /\ ~WriterWaiting
    /\ pc' = [pc EXCEPT ![c] = "route"]
    /\ readers' = readers \cup {c}
    /\ UNCHANGED <<envVars, reloaderVars, servers, closed, op, obj, idx>>

\* Do: FindFirstServerIndex, returning its error.  DoFor: ComputeServerIndex,
\* whose objectIndex % serverCount panics on an empty cluster and whose
\* search spins when no server is online.
Route(c) ==
    LET r == IF op[c] = "Do" THEN FindFirstServerIndex(serverCount, Onlines)
             ELSE ComputeServerIndex(serverCount, obj[c], Onlines)
    IN  /\ pc[c] = "route"
        /\ CASE r.err = NoError ->
                  /\ pc' = [pc EXCEPT ![c] = "dial"]
                  /\ idx' = [idx EXCEPT ![c] = r.index]
                  /\ UNCHANGED readers
             [] r.err = PanicDivideByZero ->
                  /\ pc' = [pc EXCEPT ![c] = "panicked"]
                  /\ UNCHANGED <<readers, idx>>
             [] r.err = SearchDiverges ->
                  UNCHANGED <<pc, readers, idx>>
             [] OTHER ->
                  /\ pc' = [pc EXCEPT ![c] = "idle"]
                  /\ readers' = readers \ {c}
                  /\ UNCHANGED idx
        /\ UNCHANGED <<envVars, reloaderVars, servers, closed, op, obj>>

Dial(c) ==
    /\ pc[c] = "dial"
    /\ pc' = [pc EXCEPT ![c] = "idle"]
    /\ readers' = readers \ {c}
    /\ idx' = [idx EXCEPT ![c] = NoIndex]
    /\ UNCHANGED <<envVars, reloaderVars, servers, closed, op, obj>>

(***************************************************************************)
(* Specification                                                           *)
(***************************************************************************)

\* NewTemplateCluster returned: the first reference was received and, when
\* it names a cluster, that cluster's first config was written.
Init ==
    /\ srcRef \in ClusterIDs \cup {NoCluster}
    /\ srcCfg \in [ClusterIDs -> Configs]
    /\ refCh = <<>>
    /\ refUpdates = 0
    /\ cfgUpdates = 0
    /\ tid = srcRef
    /\ chan = [id |-> srcRef, buf |-> <<>>,
               state |-> IF srcRef = NoCluster THEN "nil" ELSE "live"]
    /\ refOK = TRUE
    /\ rpc = "select"
    /\ pendingCfg = <<>>
    /\ servers = SourceServers(srcRef)
    /\ readers = {}
    /\ closed = FALSE
    /\ pc = [c \in Callers |-> "idle"]
    /\ op = [c \in Callers |-> "Do"]
    /\ obj = [c \in Callers |-> 0]
    /\ idx = [c \in Callers |-> NoIndex]

Next ==
    \/ \E id \in ClusterIDs \cup {NoCluster} : SetTemplateRef(id)
    \/ \E c \in ClusterIDs, states \in Configs : SetClusterConfig(c, states)
    \/ Close
    \/ ReceiveRef
    \/ ReceiveConfig
    \/ updateStorageConfig
    \/ ReloaderExit
    \/ \E c \in Callers :
         \/ \E o \in {"Do", "DoFor"}, x \in ObjectIndices : Call(c, o, x)
         \/ RLock(c)
         \/ Route(c)
         \/ Dial(c)

Spec == Init /\ [][Next]_vars

(***************************************************************************)
(* Properties                                                              *)
(***************************************************************************)

Settled ==
    /\ ~closed
    /\ refCh = <<>>
    /\ chan.buf = <<>>
    /\ rpc = "select"

\* Once the reloader has taken in every reference it was sent, it receives
\* the configs of the referenced cluster, unless the last watch it tried
\* failed (spec 4.4: the supervisor swaps the active cluster ID).
WatcherFollowsReference ==
    (Settled /\ refOK) => Watched = srcRef
=============================================================================
