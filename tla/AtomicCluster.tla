---------------------------- MODULE AtomicCluster ----------------------------
(***************************************************************************)
(* What a hot-reloaded cluster promises its callers: DoFor resolves its    *)
(* object to a server of the servers as they are at that moment, or fails  *)
(* with ErrClusterNotDefined when there are none, and then dials the       *)
(* resolved server, which is online; a reload replaces the servers only    *)
(* while no DoFor stands between resolving and dialing.  How the reload    *)
(* learns of new configs is left open: any servers may come in.            *)
(***************************************************************************)
EXTENDS Integers, Sequences, ServerIndex

CONSTANTS
    Callers,        \* goroutines calling DoFor
    ObjectIndices   \* object indices given to DoFor

VARIABLES
    servers,   \* the cluster's servers: a sequence of [cluster, state]
    pc,        \* caller: "idle", "busy" or "resolved"
    obj,       \* caller: the object index of its DoFor
    target     \* caller: the index of the server it resolved to

vars == <<servers, pc, obj, target>>

OnlineIndices == {i \in 0..(Len(servers) - 1) : servers[i + 1].state = "online"}

Resolved(x) ==
    ComputeServerIndex(Len(servers), x,
        [i \in 0..(Len(servers) - 1) |-> IF i \in OnlineIndices THEN Operational ELSE NotOperational])

Call(c, x) ==
    /\ pc[c] = "idle"
    /\ pc' = [pc EXCEPT ![c] = "busy"]
    /\ obj' = [obj EXCEPT ![c] = x]
    /\ UNCHANGED <<servers, target>>

NotDefined(c) ==
    /\ pc[c] = "busy"
    /\ servers = <<>>
    /\ pc' = [pc EXCEPT ![c] = "idle"]
    /\ obj' = [obj EXCEPT ![c] = 0]
    /\ UNCHANGED <<servers, target>>

Resolve(c) ==
    /\ pc[c] = "busy"
    /\ servers # <<>>
    /\ Resolved(obj[c]).err = NoError
    /\ pc' = [pc EXCEPT ![c] = "resolved"]
    /\ target' = [target EXCEPT ![c] = Resolved(obj[c]).index]
    /\ UNCHANGED <<servers, obj>>

Dial(c) ==
    /\ pc[c] = "resolved"
    /\ target[c] \in OnlineIndices
    /\ pc' = [pc EXCEPT ![c] = "idle"]
    /\ obj' = [obj EXCEPT ![c] = 0]
    /\ target' = [target EXCEPT ![c] = NoIndex]
    /\ UNCHANGED servers

Reload ==
    /\ \A c \in Callers : pc[c] # "resolved"
    /\ servers' # servers
    /\ UNCHANGED <<pc, obj, target>>

Init ==
    /\ pc = [c \in Callers |-> "idle"]
    /\ obj = [c \in Callers |-> 0]
    /\ target = [c \in Callers |-> NoIndex]

Next ==
    \/ Reload
    \/ \E c \in Callers :
         \/ \E x \in ObjectIndices : Call(c, x)
         \/ NotDefined(c)
         \/ Resolve(c)
         \/ Dial(c)

Spec == Init /\ [][Next]_vars
====
