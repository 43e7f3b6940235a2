--------------------------- MODULE PrimaryCluster ---------------------------
(***************************************************************************)
(* The hot-reloaded primary cluster of a vdisk (part_001, PrimaryCluster,  *)
(* 654-838).  Its reloader goroutine has the shape of TemplateCluster's:   *)
(* the same storageClusterWatcher, the same select over the reference      *)
(* channel, the watcher's channel and ctx.Done, and a config write under   *)
(* the write lock (updatePrimaryStorageConfig, which is updateStorageConfig *)
(* line for line).  Those steps, the config source and Close are taken     *)
(* from TemplateCluster through the instance T.  What differs is modelled  *)
(* here:                                                                   *)
(*  - the vdisk's primary reference always names a cluster (NewPrimary-    *)
(*    Cluster panics when it does not exist), so SetClusterID never takes  *)
(*    its "" branch and the reloader never clears the servers;             *)
(*  - Do routes with FindFirstServerIndex, DoFor with ComputeServerIndex,  *)
(*    both under the read lock and neither with a serverCount = 0 guard.   *)
(* A DoFor over no servers computes objectIndex % 0: the runtime panics    *)
(* and the process ends, which stops every actor.                          *)
(***************************************************************************)
EXTENDS Integers, Sequences, FiniteSets, ServerIndex

CONSTANTS ClusterIDs, NoCluster, Callers, ObjectIndices, Configs,
          MaxRefUpdates, MaxCfgUpdates

VARIABLES srcRef, srcCfg, refCh, refUpdates, cfgUpdates, watchID, chan, refOK,
          rpc, pendingCfg, servers, readers, closed, pc, obj, idx,
          op   \* caller: the operation it is in, "do" or "dofor"

T == INSTANCE TemplateCluster

envVars == <<srcRef, srcCfg, refCh, refUpdates, cfgUpdates>>
watchVars == <<watchID, chan, refOK>>
vars == <<envVars, watchVars, rpc, pendingCfg, servers, readers, closed, pc, obj, idx, op>>

serverCount == Len(servers)
Pred == [i \in 0..(serverCount - 1) |-> T!serverIsOnline(i)]

\* The process panicked: no goroutine takes another step.
Crashed == \E c \in Callers : pc[c] = "panicked"
Alive == ~Crashed

(***************************************************************************)
(* The config source and the reloader, as in TemplateCluster               *)
(***************************************************************************)

\* The vdisk's StorageClusterID changes to another cluster.
SetPrimaryRef(id) == id \in ClusterIDs /\ T!SetTemplateRef(id) /\ UNCHANGED op

SetClusterConfig(c, states) == T!SetClusterConfig(c, states) /\ UNCHANGED op
CloseWatchChannel == T!CloseWatchChannel /\ UNCHANGED op
Close == T!Close /\ UNCHANGED op

\* A reference is received and given to SetClusterID; its error is logged.
ReceiveRef == T!ReceiveRef /\ UNCHANGED op
ReceiveConfig == T!ReceiveConfig /\ UNCHANGED op
\* Fault model: the config written without the write lock.
updatePrimaryStorageConfigWithoutLock == T!updateStorageConfigWithoutLock /\ UNCHANGED op

updatePrimaryStorageConfig == T!updateStorageConfig /\ UNCHANGED op
ReloaderExit == T!ReloaderExit /\ UNCHANGED op

(***************************************************************************)
(* Do and DoFor                                                            *)
(***************************************************************************)

CallDo(c) ==
    /\ pc[c] = "idle"
    /\ pc' = [pc EXCEPT ![c] = "rlock"]
    /\ op' = [op EXCEPT ![c] = "do"]
    /\ UNCHANGED <<envVars, watchVars, rpc, pendingCfg, servers, readers, closed, obj, idx>>

CallDoFor(c, x) ==
    /\ pc[c] = "idle"
    /\ pc' = [pc EXCEPT ![c] = "rlock"]
    /\ op' = [op EXCEPT ![c] = "dofor"]
    /\ obj' = [obj EXCEPT ![c] = x]
    /\ UNCHANGED <<envVars, watchVars, rpc, pendingCfg, servers, readers, closed, idx>>

\* Fault model: the search runs without holding the read lock.
RLockNotHeld(c) ==
    /\ pc[c] = "rlock"
    /\ pc' = [pc EXCEPT ![c] = "route"]
    /\ UNCHANGED <<envVars, watchVars, rpc, pendingCfg, servers, readers, closed, obj, idx, op>>

\* pc.mux.RLock(), with nothing checked after it.
RLock(c) ==
    /\ pc[c] = "rlock"
    /\ ~T!WriterWaiting
    /\ pc' = [pc EXCEPT ![c] = "route"]
    /\ readers' = readers \cup {c}
    /\ UNCHANGED <<envVars, watchVars, rpc, pendingCfg, servers, closed, obj, idx, op>>

\* Fault model: the error returned without the deferred RUnlock.
ReturnErrorKeepingReadLock(c) ==
    /\ pc' = [pc EXCEPT ![c] = "idle"]
    /\ obj' = [obj EXCEPT ![c] = 0]
    /\ UNCHANGED <<readers, idx>>

\* The caller returns err, and the deferred RUnlock runs.
ReturnError(c) ==
    /\ pc' = [pc EXCEPT ![c] = "idle"]
    /\ readers' = readers \ {c}
    /\ obj' = [obj EXCEPT ![c] = 0]
    /\ UNCHANGED idx

\* The server search of Do or DoFor, under the read lock: a found index
\* is dialed; Do's ErrNoServersAvailable is returned; DoFor's search over
\* no online server spins, and over no servers at all panics (the
\* deferred RUnlock runs while the panic unwinds).
Route(c) ==
    LET r == IF op[c] = "do" THEN FindFirstServerIndex(serverCount, Pred)
             ELSE ComputeServerIndex(serverCount, obj[c], Pred)
    IN  /\ pc[c] = "route"
        /\ CASE r.err = NoError ->
                  /\ pc' = [pc EXCEPT ![c] = "dial"]
                  /\ idx' = [idx EXCEPT ![c] = r.index]
                  /\ UNCHANGED <<readers, obj>>
             [] r.err = ErrNoServersAvailable -> ReturnError(c)
             [] r.err = PanicDivideByZero ->
                  /\ pc' = [pc EXCEPT ![c] = "panicked"]
                  /\ readers' = readers \ {c}
                  /\ UNCHANGED <<obj, idx>>
             [] OTHER -> UNCHANGED <<pc, readers, obj, idx>>
        /\ UNCHANGED <<envVars, watchVars, rpc, pendingCfg, servers, closed, op>>

\* Fault model: doAt returning without the deferred RUnlock.
DialWithoutRUnlock(c) == T!DialWithoutRUnlock(c) /\ UNCHANGED op

\* doAt: dial pc.servers[serverIndex] and apply the action (either may fail
\* and is broadcast); the deferred RUnlock.
Dial(c) == T!Dial(c) /\ UNCHANGED op

(***************************************************************************)
(* Specification                                                           *)
(***************************************************************************)

\* NewPrimaryCluster returned: the first reference named an existing
\* cluster, whose first config was written.
Init ==
    /\ T!Init
    /\ srcRef \in ClusterIDs
    /\ op = [c \in Callers |-> "do"]

Environment ==
    /\ Alive
    /\ \/ \E id \in ClusterIDs : SetPrimaryRef(id)
       \/ \E c \in ClusterIDs, states \in Configs : SetClusterConfig(c, states)
       \/ CloseWatchChannel
       \/ Close

Reloader ==
    /\ Alive
    /\ \/ ReceiveRef
       \/ ReceiveConfig
       \/ updatePrimaryStorageConfig
       \/ ReloaderExit

Caller(c) ==
    /\ Alive
    /\ \/ CallDo(c)
       \/ \E x \in ObjectIndices : CallDoFor(c, x)
       \/ RLock(c)
       \/ Route(c)
       \/ Dial(c)

Next == Environment \/ Reloader \/ \E c \in Callers : Caller(c)

\* The fairness of TemplateCluster: the goroutines are scheduled fairly and
\* RLock is strongly fair (sync.RWMutex lets the waiting readers in before
\* the next writer).
Fairness ==
    /\ WF_vars(Reloader)
    /\ \A c \in Callers : SF_vars(Alive /\ RLock(c)) /\ WF_vars(Alive /\ (Route(c) \/ Dial(c)))

Spec == Init /\ [][Next]_vars /\ Fairness

(***************************************************************************)
(* Properties                                                              *)
(***************************************************************************)

TypeOK ==
    /\ srcRef \in ClusterIDs /\ watchID \in ClusterIDs
    /\ servers \in Seq(T!ServerConfig)
    /\ rpc \in {"select", "update", "exited"}
    /\ pc \in [Callers -> {"idle", "rlock", "route", "dial", "panicked"}]
    /\ op \in [Callers -> {"do", "dofor"}]
    /\ readers = {c \in Callers : pc[c] \in {"route", "dial"}}
    /\ idx \in [Callers -> {NoIndex} \cup Nat]

\* DoFor has no serverCount = 0 guard (DoFor, 700-710), so the process
\* panics whenever a DoFor routes over no servers.  The servers are empty
\* only after Close: every reference names a cluster, every new watch
\* starts with the cluster's config, a cancelled channel is replaced before
\* it closes, and only Close leaves the reloader with a closed channel
\* whose zero config updatePrimaryStorageConfig writes unchecked.
PanicOnlyAfterClose == Crashed => closed

\* The index Do or DoFor routed to names an online server of the servers
\* when doAt reads pc.servers[serverIndex] (Do and DoFor under RLock, the
\* reloader's write under Lock).
DialsOnlineServer == T!DialsOnlineServer

\* PrimaryCluster's DoFor implements AtomicCluster, as TemplateCluster's
\* does; a Do is not a DoFor and is invisible to it.
AtomicPc == [c \in Callers |-> CASE op[c] = "do" \/ pc[c] = "idle" -> "idle"
                                  [] pc[c] = "dial" -> "resolved"
                                  [] OTHER -> "busy"]
AtomicTarget == [c \in Callers |-> IF op[c] = "do" THEN NoIndex ELSE idx[c]]
AtomicObj == [c \in Callers |-> IF op[c] = "do" THEN 0 ELSE obj[c]]

Atomic == INSTANCE AtomicCluster WITH pc <- AtomicPc, target <- AtomicTarget, obj <- AtomicObj

AtomicClusterRefined == Atomic!Spec

\* Every Do and DoFor returns, unless the process has panicked, although
\* the reloader keeps taking the write lock for every config it receives.
DoReturns ==
    \A c \in Callers : pc[c] # "idle" ~> (pc[c] = "idle" \/ Crashed)
====
