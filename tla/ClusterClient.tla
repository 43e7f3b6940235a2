---------------------------- MODULE ClusterClient ----------------------------
(***************************************************************************)
(* The storage cluster client of the NBD server (storagecluster,          *)
(* cluster.go).  A ClusterClientFactory hands out clients through two     *)
(* unbuffered channels: NewClient sends a vdisk ID on requestCh and waits  *)
(* on responseCh; Listen receives a request, builds a ClusterClient with   *)
(* NewClusterClient, starts its listen goroutine and sends the client     *)
(* back, until its context is done.  A ClusterClient keeps the storage    *)
(* cluster config of its vdisk, read by loadConfig from the config file;  *)
(* its getters and its listen goroutine, which reloads the config on      *)
(* SIGHUP, do so under the client's mutex, so each is one step here.      *)
(* Close, which runs without the mutex, sends on the done channel, closes *)
(* it and sets the field to nil; listen reads the field each time it      *)
(* enters its select.                                                      *)
(*                                                                         *)
(* The config file is a record: whether it can be read, and the entry of  *)
(* every vdisk joined with the storage cluster it names, abstracted to    *)
(* the fields loadConfig reads.                                           *)
(***************************************************************************)
EXTENDS Integers, Sequences, FiniteSets

CONSTANTS
    Vdisks,      \* vdisk IDs, as model values
    NoVdisk,     \* the empty vdisk ID ""
    Callers,     \* goroutines calling NewClient and then the client
    Files,       \* config file contents the file may hold
    MaxEdits,    \* bound on config file edits
    MaxSignals   \* bound on SIGHUP signals

NilType == "VdiskTypeNil"
NoMeta == ""
\* A vdisk entry of the file, with the storage cluster it names: found is
\* false for a missing vdisk, clusterFound for a missing storage cluster.
NoEntry == [found |-> FALSE, type |-> NilType, root |-> NoMeta,
            clusterFound |-> FALSE, data |-> <<>>, meta |-> NoMeta]

\* Client slots, one per NewClient that can succeed.
Slots == 1..Cardinality(Callers)
NoClient == 0

VARIABLES
    file,       \* the config file's content
    edits,      \* edits so far
    signals,    \* SIGHUPs so far
    ctxDone,    \* the context given to Listen is done
    lpc,        \* factory Listen: "select", "respond" or "exited"
    resp,       \* the clusterClientResponse Listen is sending
    pc,         \* caller: "idle", "send", "recv", "using", "finished"
    req,        \* caller: the vdisk ID it asked for
    got,        \* caller: the client slot NewClient returned, or NoClient
    cc,         \* slot -> the ClusterClient's fields
    nextSlot,   \* slots handed out so far
    lis,        \* slot -> its listen goroutine: "none", "starting", "select", "reload", "exited"
    sig,        \* slot -> a SIGHUP is buffered in its signal channel
    captured,   \* slot -> the done channel listen's select waits on: "chan" or "nil"
    good        \* slot -> the vdisk entry of its last successful loadConfig

vars == <<file, edits, signals, ctxDone, lpc, resp, pc, req, got,
          cc, nextSlot, lis, sig, captured, good>>

(***************************************************************************)
(* loadConfig.  It clears loaded first and writes the fields one by one,   *)
(* so a failure half-way leaves some of the new fields behind.            *)
(***************************************************************************)

\* Mutant: loaded is not cleared first.
loadConfigWithoutReset(c) ==
    LET c0 == c
        e == IF file.readable THEN file.vdisks[c.vdisk] ELSE NoEntry
    IN  IF ~e.found THEN c0
        ELSE IF c.vdiskType # NilType /\ c.vdiskType # e.type THEN c0
        ELSE LET c1 == [c0 EXCEPT !.vdiskType = e.type, !.root = e.root]
             IN  IF ~e.clusterFound THEN c1
                 ELSE LET c2 == [c1 EXCEPT !.data = e.data, !.n = Len(e.data)]
                      IN  IF c2.n < 1 \/ e.meta = NoMeta THEN c2
                          ELSE [c2 EXCEPT !.meta = e.meta, !.loaded = TRUE]

\* Mutant: numberOfServers is not checked.
loadConfigWithoutServerCheck(c) ==
    LET c0 == [c EXCEPT !.loaded = FALSE]
        e == IF file.readable THEN file.vdisks[c.vdisk] ELSE NoEntry
    IN  IF ~e.found THEN c0
        ELSE IF c.vdiskType # NilType /\ c.vdiskType # e.type THEN c0
        ELSE LET c1 == [c0 EXCEPT !.vdiskType = e.type, !.root = e.root]
             IN  IF ~e.clusterFound THEN c1
                 ELSE LET c2 == [c1 EXCEPT !.data = e.data, !.n = Len(e.data)]
                      IN  IF e.meta = NoMeta THEN c2
                          ELSE [c2 EXCEPT !.meta = e.meta, !.loaded = TRUE]

loadConfig(c) ==
    LET c0 == [c EXCEPT !.loaded = FALSE]
        e == IF file.readable THEN file.vdisks[c.vdisk] ELSE NoEntry
    IN  IF ~e.found THEN c0
        ELSE IF c.vdiskType # NilType /\ c.vdiskType # e.type THEN c0
        ELSE LET c1 == [c0 EXCEPT !.vdiskType = e.type, !.root = e.root]
             IN  IF ~e.clusterFound THEN c1
                 ELSE LET c2 == [c1 EXCEPT !.data = e.data, !.n = Len(e.data)]
                      IN  IF c2.n < 1 \/ e.meta = NoMeta THEN c2
                          ELSE [c2 EXCEPT !.meta = e.meta, !.loaded = TRUE]

\* The entry a successful loadConfig of c read.
LoadedEntry(c) == file.vdisks[c.vdisk]

\* NewClusterClient: a client without a config, then loadConfig.
NewClusterClient(v) ==
    loadConfig([vdisk |-> v, loaded |-> FALSE, vdiskType |-> NilType, root |-> NoMeta,
                data |-> <<>>, n |-> 0, meta |-> NoMeta, done |-> "chan"])

(***************************************************************************)
(* The environment: the config file, SIGHUP, the context                   *)
(***************************************************************************)

EditConfig(f) ==
    /\ edits < MaxEdits
    /\ f # file
    /\ file' = f
    /\ edits' = edits + 1
    /\ UNCHANGED <<signals, ctxDone, lpc, resp, pc, req, got, cc, nextSlot, lis, sig, captured, good>>

\* signal.Notify delivers SIGHUP to every registered channel that has room.
SendSighup ==
    /\ signals < MaxSignals
    /\ signals' = signals + 1
    /\ sig' = [k \in Slots |-> sig[k] \/ lis[k] \in {"select", "reload"}]
    /\ UNCHANGED <<file, edits, ctxDone, lpc, resp, pc, req, got, cc, nextSlot, lis, captured, good>>

CancelContext ==
    /\ ~ctxDone
    /\ ctxDone' = TRUE
    /\ UNCHANGED <<file, edits, signals, lpc, resp, pc, req, got, cc, nextSlot, lis, sig, captured, good>>

(***************************************************************************)
(* ClusterClientFactory                                                    *)
(***************************************************************************)

\* NewClient: an empty vdisk ID fails at once; any other is sent on requestCh.
NewClient(c, v) ==
    /\ pc[c] = "idle"
    /\ req' = [req EXCEPT ![c] = v]
    /\ pc' = [pc EXCEPT ![c] = IF v = NoVdisk THEN "finished" ELSE "send"]
    /\ UNCHANGED <<file, edits, signals, ctxDone, lpc, resp, got, cc, nextSlot, lis, sig, captured, good>>

\* Mutant: a failed NewClusterClient is skipped without a response.
ListenAcceptWithoutErrorResponse(c) ==
    LET new == NewClusterClient(req[c])
        k == nextSlot + 1
    IN  /\ lpc = "select"
        /\ pc[c] = "send"
        /\ pc' = [pc EXCEPT ![c] = "recv"]
        /\ lpc' = IF new.loaded THEN "respond" ELSE "select"
        /\ IF new.loaded
           THEN /\ resp' = k
                /\ nextSlot' = k
                /\ cc' = [cc EXCEPT ![k] = new]
                /\ lis' = [lis EXCEPT ![k] = "starting"]
                /\ good' = [good EXCEPT ![k] = LoadedEntry(new)]
           ELSE /\ resp' = NoClient
                /\ UNCHANGED <<nextSlot, cc, lis, good>>
        /\ UNCHANGED <<file, edits, signals, ctxDone, req, got, sig, captured>>

\* Listen receives a request (the rendezvous on requestCh) and builds the
\* client; on success it starts the client's listen goroutine.
ListenAccept(c) ==
    LET new == NewClusterClient(req[c])
        k == nextSlot + 1
    IN  /\ lpc = "select"
        /\ pc[c] = "send"
        /\ pc' = [pc EXCEPT ![c] = "recv"]
        /\ lpc' = "respond"
        /\ IF new.loaded
           THEN /\ resp' = k
                /\ nextSlot' = k
                /\ cc' = [cc EXCEPT ![k] = new]
                /\ lis' = [lis EXCEPT ![k] = "starting"]
                /\ good' = [good EXCEPT ![k] = LoadedEntry(new)]
           ELSE /\ resp' = NoClient
                /\ UNCHANGED <<nextSlot, cc, lis, good>>
        /\ UNCHANGED <<file, edits, signals, ctxDone, req, got, sig, captured>>

\* The rendezvous on responseCh: the caller waiting there gets the response.
ListenRespond(c) ==
    /\ lpc = "respond"
    /\ pc[c] = "recv"
    /\ got' = [got EXCEPT ![c] = resp]
    /\ pc' = [pc EXCEPT ![c] = IF resp = NoClient THEN "finished" ELSE "using"]
    /\ lpc' = "select"
    /\ UNCHANGED <<file, edits, signals, ctxDone, resp, req, cc, nextSlot, lis, sig, captured, good>>

ListenExit ==
    /\ lpc = "select"
    /\ ctxDone
    /\ lpc' = "exited"
    /\ UNCHANGED <<file, edits, signals, ctxDone, resp, pc, req, got, cc, nextSlot, lis, sig, captured, good>>

(***************************************************************************)
(* ClusterClient                                                           *)
(***************************************************************************)

\* ConnectionString, RootConnectionString and MetaConnectionString: under
\* the mutex, loadConfig when the config is not loaded; then the field
\* asked for (ConnectionString: data[index % numberOfServers]) when it is
\* loaded, or an error.  They differ only in the field they return, which
\* the invariants below speak of.
GetterStep(c) ==
    LET k == got[c]
        x == IF cc[k].loaded THEN cc[k] ELSE loadConfig(cc[k])
    IN  /\ pc[c] = "using"
        /\ cc' = [cc EXCEPT ![k] = x]
        /\ good' = IF x.loaded /\ ~cc[k].loaded THEN [good EXCEPT ![k] = LoadedEntry(x)] ELSE good
        /\ UNCHANGED <<file, edits, signals, ctxDone, lpc, resp, pc, req, got, nextSlot, lis, sig, captured>>

\* Close, without the mutex: when done is not nil, send on it, close it and
\* set the field to nil.
Close(c) ==
    LET k == got[c]
    IN  /\ pc[c] = "using"
        /\ pc' = [pc EXCEPT ![c] = "finished"]
        /\ cc' = [cc EXCEPT ![k].done = "nil"]
        /\ UNCHANGED <<file, edits, signals, ctxDone, lpc, resp, req, got, nextSlot, lis, sig, captured, good>>

(***************************************************************************)
(* The listen goroutine of the client in slot k                            *)
(***************************************************************************)

\* signal.Notify registers the channel; the select waits on cc.done as
\* the field is now.
ListenerStart(k) ==
    /\ lis[k] = "starting"
    /\ lis' = [lis EXCEPT ![k] = "select"]
    /\ captured' = [captured EXCEPT ![k] = cc[k].done]
    /\ UNCHANGED <<file, edits, signals, ctxDone, lpc, resp, pc, req, got, cc, nextSlot, sig, good>>

ListenerSignal(k) ==
    /\ lis[k] = "select"
    /\ sig[k]
    /\ sig' = [sig EXCEPT ![k] = FALSE]
    /\ lis' = [lis EXCEPT ![k] = "reload"]
    /\ UNCHANGED <<file, edits, signals, ctxDone, lpc, resp, pc, req, got, cc, nextSlot, captured, good>>

\* loadConfig under the mutex, whatever it returns; then the select again.
ListenerReload(k) ==
    LET x == loadConfig(cc[k])
    IN  /\ lis[k] = "reload"
        /\ cc' = [cc EXCEPT ![k] = x]
        /\ good' = IF x.loaded THEN [good EXCEPT ![k] = LoadedEntry(x)] ELSE good
        /\ lis' = [lis EXCEPT ![k] = "select"]
        /\ captured' = [captured EXCEPT ![k] = x.done]
        /\ UNCHANGED <<file, edits, signals, ctxDone, lpc, resp, pc, req, got, nextSlot, sig>>

\* The done channel it waits on was closed by Close, or the context is done.
ListenerExit(k) ==
    /\ lis[k] = "select"
    /\ \/ captured[k] = "chan" /\ cc[k].done = "nil"
       \/ ctxDone
    /\ lis' = [lis EXCEPT ![k] = "exited"]
    /\ UNCHANGED <<file, edits, signals, ctxDone, lpc, resp, pc, req, got, cc, nextSlot, sig, captured, good>>

(***************************************************************************)
(* Specification                                                           *)
(***************************************************************************)

NoClientFields == [vdisk |-> NoVdisk, loaded |-> FALSE, vdiskType |-> NilType, root |-> NoMeta,
                   data |-> <<>>, n |-> 0, meta |-> NoMeta, done |-> "nil"]

Init ==
    /\ file \in Files
    /\ edits = 0
    /\ signals = 0
    /\ ctxDone = FALSE
    /\ lpc = "select"
    /\ resp = NoClient
    /\ pc = [c \in Callers |-> "idle"]
    /\ req = [c \in Callers |-> NoVdisk]
    /\ got = [c \in Callers |-> NoClient]
    /\ cc = [k \in Slots |-> NoClientFields]
    /\ nextSlot = 0
    /\ lis = [k \in Slots |-> "none"]
    /\ sig = [k \in Slots |-> FALSE]
    /\ captured = [k \in Slots |-> "nil"]
    /\ good = [k \in Slots |-> NoEntry]

Next ==
    \/ \E f \in Files : EditConfig(f)
    \/ SendSighup
    \/ CancelContext
    \/ ListenExit
    \/ \E c \in Callers :
         \/ \E v \in Vdisks \cup {NoVdisk} : NewClient(c, v)
         \/ ListenAccept(c)
         \/ ListenRespond(c)
         \/ GetterStep(c)
         \/ Close(c)
    \/ \E k \in Slots :
         \/ ListenerStart(k)
         \/ ListenerSignal(k)
         \/ ListenerReload(k)
         \/ ListenerExit(k)

\* Go runs every runnable goroutine: the factory's Listen and the clients'
\* listen goroutines take their enabled steps.  Callers, the file, signals
\* and the context are not obliged to do anything.
Fairness ==
    /\ WF_vars(\E c \in Callers : ListenAccept(c))
    /\ WF_vars(\E c \in Callers : ListenRespond(c))
    /\ WF_vars(ListenExit)
    /\ \A k \in Slots : WF_vars(ListenerStart(k) \/ ListenerSignal(k) \/ ListenerReload(k) \/ ListenerExit(k))

Spec == Init /\ [][Next]_vars /\ Fairness
(***************************************************************************)
(* Properties                                                              *)
(***************************************************************************)

\* The state of the factory and of every client, and that ConnectionString
\* never panics: a loaded client has numberOfServers > 0, so index %
\* numberOfServers (cluster.go 170) is defined; loadConfig checks it at 297.
TypeOK ==
    /\ file \in Files
    /\ lpc \in {"select", "respond", "exited"}
    /\ resp \in Slots \cup {NoClient}
    /\ pc \in [Callers -> {"idle", "send", "recv", "using", "finished"}]
    /\ got \in [Callers -> Slots \cup {NoClient}]
    /\ nextSlot \in 0..Cardinality(Callers)
    /\ lis \in [Slots -> {"none", "starting", "select", "reload", "exited"}]
    /\ captured \in [Slots -> {"chan", "nil"}]
    /\ \A k \in Slots : /\ cc[k].done \in {"chan", "nil"}
                        /\ cc[k].n = Len(cc[k].data)
                        /\ cc[k].loaded => cc[k].n > 0

\* Whenever a client's config is loaded, the fields its getters return
\* (vdiskType, root, data, meta) are all those of its last successful
\* loadConfig, although a failed reload on SIGHUP (cluster.go 228) or in a
\* getter (166, 179, 192) leaves part of a newer config in the fields.
LoadedConfigWhole ==
    \A k \in Slots :
      cc[k].loaded =>
        /\ cc[k].vdiskType = good[k].type
        /\ cc[k].root = good[k].root
        /\ cc[k].data = good[k].data
        /\ cc[k].meta = good[k].meta

\* NewClient returns, with a client or an error, unless the factory's
\* context is done before Listen takes its request (cluster.go 49-50 and
\* 58-86: after Listen returns nobody receives on requestCh).
NewClientReturns ==
    \A c \in Callers :
      pc[c] \in {"send", "recv"} ~> (pc[c] \in {"using", "finished"} \/ (ctxDone /\ pc[c] = "send"))
====
