------------------------------- MODULE Cluster -------------------------------
(***************************************************************************)
(* The static ARDB storage cluster (nbd/ardb cluster.go, type Cluster):    *)
(* NewCluster, Do, DoFor and DoForAll.  DoForAll routes every pair like    *)
(* DoFor, groups the pairs per server in an IndexActionMap, and runs one   *)
(* pipelined batch per server concurrently; the replies of the batches     *)
(* arrive in any order and are put back at the positions of their pairs.  *)
(* One caller: the cluster has no mutable state shared between callers.    *)
(***************************************************************************)
EXTENDS Integers, Sequences, SequencesExt, TLC, ServerIndex

CONSTANTS
    Configs,        \* the StorageClusterConfigs offered to NewCluster, as sequences of server states
    ObjectIndices,  \* object indices given to DoFor and DoForAll
    Actions,        \* storage actions, as model values
    PairLengths     \* lengths of the pair slices given to DoForAll

\* config.StorageServerState values (Respread behaves as Offline here).
Online == "online"
Offline == "offline"
RIP == "rip"
ServerStates == {Online, Offline, RIP}

ASSUME Configs \subseteq Seq(ServerStates) \ {<<>>}

ErrServerStateNotSupported == "ErrServerStateNotSupported"
ErrTransport == "transport error"
PanicIndexOutOfRange == "panic: index out of range"

VARIABLES
    servers,    \* cfg.Servers of the cluster NewCluster last tried to build
    built,      \* NewCluster returned a cluster
    fanout,     \* the DoForAll whose per-server batches are in flight, or NoFanout
    lastCall    \* the outcome of the last call that returned

vars == <<servers, built, fanout, lastCall>>

Pair == [index: ObjectIndices, action: Actions]
Reply(s, a) == [server |-> s, action |-> a]
NoReply == Reply(NoIndex, NoError)
NoFanout == [pairs |-> <<>>, groups |-> <<>>, pending |-> {}, replies |-> <<>>]
Outcome(op, pairs, replies, err) ==
    [op |-> op, pairs |-> pairs, replies |-> replies, err |-> err]

\* No call has returned since the caller last looked.
NoCall == Outcome("none", <<>>, <<>>, NoError)

serverCount == Len(servers)

(***************************************************************************)
(* Construction and the predicate                                          *)
(***************************************************************************)

\* Fault model: NewCluster without its check that some server is available.
NewClusterErrorWithoutAvailability(cfg) ==
    IF \E i \in DOMAIN cfg : cfg[i] \notin {Online, RIP}
    THEN ErrServerStateNotSupported ELSE NoError

\* NewCluster: every server is Online or RIP, and at least one is Online.
NewClusterError(cfg) ==
    LET availableServerCount ==
            Len(cfg) - Cardinality({i \in DOMAIN cfg : cfg[i] = RIP})
    IN  IF \E i \in DOMAIN cfg : cfg[i] \notin {Online, RIP}
        THEN ErrServerStateNotSupported
        ELSE IF availableServerCount = 0 THEN ErrNoServersAvailable
        ELSE NoError

\* (*Cluster).serverOperational: only Online servers are operational; it
\* relies on NewCluster for every other server being RIP.
serverOperational(index) ==
    IF servers[index + 1] = Online THEN Operational ELSE NotOperational

\* The predicate as the function of its answers.
Operationals == [i \in 0..(serverCount - 1) |-> serverOperational(i)]

Route(objectIndex) == ComputeServerIndex(serverCount, objectIndex, Operationals)

(***************************************************************************)
(* IndexActionMap and the grouping of DoForAll                             *)
(***************************************************************************)

\* (*IndexActionMap).Add appends the position and the action of a pair.
Add(m, position, action) ==
    [Indices |-> Append(m.Indices, position), Actions |-> Append(m.Actions, action)]

\* Fault model: the IndexActionMap records the object index of a pair
\* (pair.Index) instead of its position in the slice.
GroupPairsByObjectIndex(pairs, routes) ==
    LET RECURSIVE AddFrom(_, _)
        AddFrom(groups, i) ==
            IF i > Len(pairs) THEN groups
            ELSE LET s == routes[i]
                     m == IF s \in DOMAIN groups THEN groups[s]
                          ELSE [Indices |-> <<>>, Actions |-> <<>>]
                 IN  AddFrom((s :> Add(m, pairs[i].index + 1, pairs[i].action)) @@ groups, i + 1)
    IN  AddFrom([t \in {} |-> NoReply], 1)

\* Fault model: server.Add inside the `if !ok` block, so that only the
\* first pair routed to each server is recorded.
GroupPairsAddingFirstOnly(pairs, routes) ==
    LET RECURSIVE AddFrom(_, _)
        AddFrom(groups, i) ==
            IF i > Len(pairs) THEN groups
            ELSE LET s == routes[i]
                 IN  IF s \in DOMAIN groups THEN AddFrom(groups, i + 1)
                     ELSE AddFrom((s :> Add([Indices |-> <<>>, Actions |-> <<>>], i, pairs[i].action))
                                     @@ groups, i + 1)
    IN  AddFrom([t \in {} |-> NoReply], 1)

\* The IndexActionMap of every server, filled in pair order.
GroupPairs(pairs, routes) ==
    LET RECURSIVE AddFrom(_, _)
        AddFrom(groups, i) ==
            IF i > Len(pairs) THEN groups
            ELSE LET s == routes[i]
                     m == IF s \in DOMAIN groups THEN groups[s]
                          ELSE [Indices |-> <<>>, Actions |-> <<>>]
                 IN  AddFrom((s :> Add(m, i, pairs[i].action)) @@ groups, i + 1)
    IN  AddFrom([t \in {} |-> NoReply], 1)

\* The replies of a batch, put back at the positions its IndexActionMap recorded.
Collect(replies, s, m) ==
    [i \in DOMAIN replies |->
        IF \E j \in DOMAIN m.Indices : m.Indices[j] = i
        THEN Reply(s, m.Actions[CHOOSE j \in DOMAIN m.Indices : m.Indices[j] = i])
        ELSE replies[i]]

(***************************************************************************)
(* Operations                                                              *)
(***************************************************************************)

NewCluster(cfg) ==
    /\ ~built /\ lastCall = NoCall
    /\ servers' = cfg
    /\ built' = (NewClusterError(cfg) = NoError)
    /\ lastCall' = Outcome("NewCluster", <<>>, <<>>, NewClusterError(cfg))
    /\ UNCHANGED fanout

\* doAt dials the server and applies the action; either may fail.
DoAtOutcome(op, pairs, s, replies) ==
    \E ok \in BOOLEAN :
        lastCall' = IF ok THEN Outcome(op, pairs, replies, NoError)
                          ELSE Outcome(op, pairs, <<>>, ErrTransport)

\* Do: the first operational server.
Do(a) ==
    LET first == FindFirstServerIndex(serverCount, Operationals)
        pairs == <<[index |-> NoIndex, action |-> a]>>
    IN  /\ built /\ fanout = NoFanout /\ lastCall = NoCall
        /\ IF first.err # NoError
           THEN lastCall' = Outcome("Do", pairs, <<>>, first.err)
           ELSE DoAtOutcome("Do", pairs, first.index, <<Reply(first.index, a)>>)
        /\ UNCHANGED <<servers, built, fanout>>

\* DoFor: the server ComputeServerIndex maps the object index to.
DoFor(x, a) ==
    LET route == Route(x)
        pairs == <<[index |-> x, action |-> a]>>
    IN  /\ built /\ fanout = NoFanout /\ lastCall = NoCall
        /\ IF route.err # NoError
           THEN lastCall' = Outcome("DoFor", pairs, <<>>, route.err)
           ELSE DoAtOutcome("DoFor", pairs, route.index, <<Reply(route.index, a)>>)
        /\ UNCHANGED <<servers, built, fanout>>

\* DoForAll: the shortcuts for zero and one pair (the latter reads
\* pairs[1] of a one-element slice), the routing and grouping of all pairs,
\* the single-server shortcut, and otherwise the start of the fan-out.
DoForAll(pairs) ==
    LET n == Len(pairs)
        routes == [i \in 1..n |-> Route(pairs[i].index)]
        failed == {i \in 1..n : routes[i].err # NoError}
        groups == GroupPairs(pairs, [i \in 1..n |-> routes[i].index])
    IN  /\ built /\ fanout = NoFanout /\ lastCall = NoCall
        /\ CASE n = 0 ->
                  /\ lastCall' = Outcome("DoForAll", pairs, <<>>, NoError)
                  /\ UNCHANGED fanout
             [] n = 1 ->
                  /\ lastCall' = Outcome("DoForAll", pairs, <<>>, PanicIndexOutOfRange)
                  /\ UNCHANGED fanout
             [] failed # {} ->
                  /\ lastCall' = Outcome("DoForAll", pairs, <<>>, routes[Min(failed)].err)
                  /\ UNCHANGED fanout
             [] Cardinality(DOMAIN groups) = 1 ->
                  /\ LET s == CHOOSE t \in DOMAIN groups : TRUE
                     IN  DoAtOutcome("DoForAll", pairs, s,
                             [j \in DOMAIN groups[s].Actions |-> Reply(s, groups[s].Actions[j])])
                  /\ UNCHANGED fanout
             [] OTHER ->
                  /\ fanout' = [pairs |-> pairs, groups |-> groups,
                                pending |-> DOMAIN groups,
                                replies |-> [i \in 1..n |-> NoReply]]
                  /\ UNCHANGED lastCall
        /\ UNCHANGED <<servers, built>>

\* The batch of server s returns to the collecting DoForAll: its replies
\* are stored at their positions, or its error is returned at once and
\* the other batches are cancelled.
BatchReturns(s) ==
    /\ s \in fanout.pending
    /\ \E ok \in BOOLEAN :
         IF ~ok
         THEN /\ lastCall' = Outcome("DoForAll", fanout.pairs, <<>>, ErrTransport)
              /\ fanout' = NoFanout
         ELSE LET replies == Collect(fanout.replies, s, fanout.groups[s])
              IN  IF fanout.pending = {s}
                  THEN /\ lastCall' = Outcome("DoForAll", fanout.pairs, replies, NoError)
                       /\ fanout' = NoFanout
                  ELSE /\ fanout' = [fanout EXCEPT !.pending = @ \ {s}, !.replies = replies]
                       /\ UNCHANGED lastCall
    /\ UNCHANGED <<servers, built>>

\* The caller takes the outcome of its call before it makes the next one.
TakeOutcome ==
    /\ lastCall # NoCall
    /\ lastCall' = NoCall
    /\ UNCHANGED <<servers, built, fanout>>

Init ==
    /\ servers = <<>>
    /\ built = FALSE
    /\ fanout = NoFanout
    /\ lastCall = NoCall

Next ==
    \/ \E cfg \in Configs : NewCluster(cfg)
    \/ \E a \in Actions : Do(a)
    \/ \E x \in ObjectIndices, a \in Actions : DoFor(x, a)
    \/ \E n \in PairLengths : \E pairs \in [1..n -> Pair] : DoForAll(pairs)
    \/ \E s \in fanout.pending : BatchReturns(s)
    \/ TakeOutcome

Spec == Init /\ [][Next]_vars

(***************************************************************************)
(* Properties                                                              *)
(***************************************************************************)

\* The IndexActionMaps of a fan-out hold every pair position exactly once,
\* each next to that pair's action (the grouping loop of DoForAll, 241-256,
\* calls server.Add once per pair): the collector puts a reply at every
\* position and nowhere else.
GroupsPartitionPairs ==
    LET gs == fanout.groups
    IN  /\ \A s \in DOMAIN gs : Len(gs[s].Indices) = Len(gs[s].Actions)
        /\ \A i \in DOMAIN fanout.pairs :
             \E s \in DOMAIN gs : \E j \in DOMAIN gs[s].Indices :
                /\ gs[s].Indices[j] = i
                /\ gs[s].Actions[j] = fanout.pairs[i].action
                /\ \A t \in DOMAIN gs : \A k \in DOMAIN gs[t].Indices :
                      gs[t].Indices[k] = i => <<t, k>> = <<s, j>>

\* The variables' types, and the grouping of a fan-out in progress.
TypeOK ==
    /\ servers \in Seq(ServerStates)
    /\ built \in BOOLEAN
    /\ fanout.pending \subseteq DOMAIN fanout.groups
    /\ \A s \in DOMAIN fanout.groups :
         /\ fanout.groups[s].Indices \in Seq(DOMAIN fanout.pairs)
         /\ fanout.groups[s].Actions \in Seq(Actions)
    /\ GroupsPartitionPairs
    /\ \A i \in DOMAIN lastCall.replies : lastCall.replies[i].action \in Actions
    /\ lastCall.err \in STRING

\* The checks of NewCluster make routing total: on a cluster it built,
\* Do always finds a server and DoFor and DoForAll never search for ever
\* (ComputeServerIndex's NOTE leaves that to the callee).
RoutingTotalOnBuiltCluster ==
    lastCall.op # "NewCluster" =>
        lastCall.err \notin {SearchDiverges, ErrNoServersAvailable}

\* DoForAll answers every pair as DoFor would: unless a server fails, it
\* returns one reply per pair, in pair order, each from the server DoFor
\* routes that pair's object index to.  It never panics.
DoForAllMatchesDoFor ==
    lastCall.op = "DoForAll" =>
        /\ lastCall.err \in {NoError, ErrTransport}
        /\ lastCall.err = NoError =>
             /\ Len(lastCall.replies) = Len(lastCall.pairs)
             /\ \A i \in DOMAIN lastCall.pairs :
                  lastCall.replies[i] =
                      Reply(Route(lastCall.pairs[i].index).index, lastCall.pairs[i].action)
=============================================================================
