------------------------------ MODULE FTPDriver ------------------------------
(***************************************************************************)
(* The FTP backup driver (backup, server_driver.go): SetDedupedBlock,     *)
(* called by the export's parallel workers, makes the block's directory   *)
(* level by level with mkdirs and then stores the block with lazyStore.   *)
(* Each FTP command (Stat, Mkdir, Store) is a step of its own, so the     *)
(* workers interleave between a Stat and the Mkdir or Store it decides.   *)
(* The driver's knownDirs map is shared by the workers without a lock;    *)
(* a write to it is two steps, and Go's runtime may abort the process     *)
(* when another worker reads or writes the map during one (a data race).  *)
(*                                                                         *)
(* Paths are sequences of level names: path.Join and strings.Split walk   *)
(* the prefixes of root ++ <<hash[:2], hash[2:4]>>, and Mkdir's returned  *)
(* path is the one it was given.  The server's transport may fail a       *)
(* command, at most MaxFaults times; a failed Store leaves part of the    *)
(* file behind.                                                            *)
(***************************************************************************)
EXTENDS Integers, Sequences, FiniteSets

CONSTANTS
    Workers,     \* export workers calling SetDedupedBlock
    Hashes,      \* block hashes, as model values
    DirOf,       \* hash -> its directory: root ++ <<hash[:2], hash[2:4]>>
    InitDirs,    \* directories the server may hold at the start
    MaxCalls,    \* bound on SetDedupedBlock calls per worker
    MaxFaults    \* bound on failed FTP commands

VARIABLES
    dirs,       \* directories on the server
    files,      \* file path -> "partial" or "whole", for the files on the server
    knownDirs,  \* the driver's knownDirs map, as a set of paths
    writing,    \* workers in the middle of a knownDirs write
    crashed,    \* the Go runtime aborted the process
    faults,     \* failed FTP commands so far
    pc,         \* worker -> its step
    hash,       \* worker -> the hash of its current call
    lvl,        \* worker -> the level mkdirs is at
    calls,      \* worker -> calls so far
    result,     \* worker -> what its last call returned: "none", "ok", "error"
    ownFault    \* worker -> one of its own commands failed in its last call

vars == <<dirs, files, knownDirs, writing, crashed, faults, pc, hash, lvl, calls, result, ownFault>>

\* hashAsDirAndFile: the file is stored as dir/hash[4:].
FilePath(h) == Append(DirOf[h], h)
Pwd(w) == SubSeq(DirOf[hash[w]], 1, lvl[w])

\* The steps inside a call keep its hash and the call count.
KeepCall(w) == UNCHANGED <<hash, calls>>

\* The call of w returns r.
Return(w, r, fault) ==
    /\ pc' = [pc EXCEPT ![w] = "idle"]
    /\ result' = [result EXCEPT ![w] = r]
    /\ ownFault' = [ownFault EXCEPT ![w] = @ \/ fault]

\* A transport failure of w's current command: the call returns the error.
CommandFails(w) ==
    /\ faults < MaxFaults
    /\ faults' = faults + 1
    /\ Return(w, "error", TRUE)

(***************************************************************************)
(* SetDedupedBlock and mkdirs                                              *)
(***************************************************************************)

SetDedupedBlock(w, h) ==
    /\ pc[w] = "idle"
    /\ calls[w] < MaxCalls
    /\ pc' = [pc EXCEPT ![w] = "mkdirs"]
    /\ hash' = [hash EXCEPT ![w] = h]
    /\ calls' = [calls EXCEPT ![w] = @ + 1]
    /\ result' = [result EXCEPT ![w] = "none"]
    /\ ownFault' = [ownFault EXCEPT ![w] = FALSE]
    /\ UNCHANGED <<dirs, files, knownDirs, writing, crashed, faults, lvl>>

\* The cheap early check: the whole directory is known.
MkdirsCheck(w) ==
    /\ pc[w] = "mkdirs"
    /\ pc' = [pc EXCEPT ![w] = IF DirOf[hash[w]] \in knownDirs THEN "lstat" ELSE "level"]
    /\ lvl' = [lvl EXCEPT ![w] = 1]
    /\ UNCHANGED <<dirs, files, knownDirs, writing, crashed, faults, hash, calls, result, ownFault>>

\* The loop over the levels: a known level is skipped without a command.
Level(w) ==
    /\ pc[w] = "level"
    /\ IF lvl[w] > Len(DirOf[hash[w]])
       THEN /\ pc' = [pc EXCEPT ![w] = "lstat"]
            /\ UNCHANGED lvl
       ELSE IF Pwd(w) \in knownDirs
       THEN /\ lvl' = [lvl EXCEPT ![w] = @ + 1]
            /\ UNCHANGED pc
       ELSE /\ pc' = [pc EXCEPT ![w] = "stat"]
            /\ UNCHANGED lvl
    /\ UNCHANGED <<dirs, files, knownDirs, writing, crashed, faults, hash, calls, result, ownFault>>

\* Stat of the level: 550 (it does not exist) leads to Mkdir; an existing
\* directory is recorded in knownDirs; any other error is returned.
Stat(w) ==
    /\ pc[w] = "stat"
    /\ \/ /\ pc' = [pc EXCEPT ![w] = IF Pwd(w) \in dirs THEN "record" ELSE "mkdir"]
          /\ UNCHANGED <<faults, result, ownFault>>
       \/ CommandFails(w)
    /\ UNCHANGED <<dirs, files, knownDirs, writing, crashed, lvl>> /\ KeepCall(w)

\* Mkdir of the level: the server refuses a directory that exists.  A
\* created level is not recorded in knownDirs.
Mkdir(w) ==
    /\ pc[w] = "mkdir"
    /\ \/ /\ Pwd(w) \in dirs
          /\ Return(w, "error", FALSE)
          /\ UNCHANGED <<dirs, lvl, faults>>
       \/ /\ Pwd(w) \notin dirs
          /\ dirs' = dirs \cup {Pwd(w)}
          /\ lvl' = [lvl EXCEPT ![w] = @ + 1]
          /\ pc' = [pc EXCEPT ![w] = "level"]
          /\ UNCHANGED <<faults, result, ownFault>>
       \/ CommandFails(w) /\ UNCHANGED <<dirs, lvl>>
    /\ UNCHANGED <<files, knownDirs, writing, crashed>> /\ KeepCall(w)

\* ftp.knownDirs[pwd] = struct{}{}: the map write begins and ends.
RecordBegin(w) ==
    /\ pc[w] = "record"
    /\ pc' = [pc EXCEPT ![w] = "recording"]
    /\ writing' = writing \cup {w}
    /\ UNCHANGED <<dirs, files, knownDirs, crashed, faults, hash, lvl, calls, result, ownFault>>

RecordEnd(w) ==
    /\ pc[w] = "recording"
    /\ knownDirs' = knownDirs \cup {Pwd(w)}
    /\ writing' = writing \ {w}
    /\ lvl' = [lvl EXCEPT ![w] = @ + 1]
    /\ pc' = [pc EXCEPT ![w] = "level"]
    /\ UNCHANGED <<dirs, files, crashed, faults, hash, calls, result, ownFault>>

\* A knownDirs read (lines 109, 124) or write (153) of w while another
\* worker is writing the map: the runtime may detect it and abort.
MapRace(w) ==
    /\ pc[w] \in {"mkdirs", "level", "record"}
    /\ writing \ {w} # {}
    /\ crashed' = TRUE
    /\ UNCHANGED <<dirs, files, knownDirs, writing, faults, pc, hash, lvl, calls, result, ownFault>>

(***************************************************************************)
(* lazyStore                                                               *)
(***************************************************************************)

\* Stat of the file: 550 leads to Store; an existing file is taken as
\* stored, whatever it holds.
LStat(w) ==
    /\ pc[w] = "lstat"
    /\ \/ /\ FilePath(hash[w]) \notin DOMAIN files
          /\ pc' = [pc EXCEPT ![w] = "store"]
          /\ UNCHANGED <<faults, result, ownFault>>
       \/ /\ FilePath(hash[w]) \in DOMAIN files
          /\ Return(w, "ok", FALSE)
          /\ UNCHANGED faults
       \/ CommandFails(w)
    /\ UNCHANGED <<dirs, files, knownDirs, writing, crashed, lvl>> /\ KeepCall(w)

\* Store: the server creates the file and receives its content; a transport
\* failure part-way leaves what was received.
StoreBegin(w) ==
    /\ pc[w] = "store"
    /\ files' = [p \in DOMAIN files \cup {FilePath(hash[w])} |->
                   IF p = FilePath(hash[w]) THEN "partial" ELSE files[p]]
    /\ pc' = [pc EXCEPT ![w] = "storing"]
    /\ UNCHANGED <<dirs, knownDirs, writing, crashed, faults, hash, lvl, calls, result, ownFault>>

\* The file is whole once no Store of it is still receiving.
StoreEnd(w) ==
    LET p == FilePath(hash[w])
        busy == \E v \in Workers \ {w} : pc[v] = "storing" /\ hash[v] = hash[w]
    IN  /\ pc[w] = "storing"
        /\ \/ /\ files' = [files EXCEPT ![p] = IF busy THEN "partial" ELSE "whole"]
              /\ Return(w, "ok", FALSE)
              /\ UNCHANGED faults
           \/ CommandFails(w) /\ UNCHANGED files
        /\ UNCHANGED <<dirs, knownDirs, writing, crashed, lvl>> /\ KeepCall(w)

(***************************************************************************)
(* Specification                                                           *)
(***************************************************************************)

Init ==
    /\ dirs \in InitDirs
    /\ files = <<>>
    /\ knownDirs = {}
    /\ writing = {}
    /\ crashed = FALSE
    /\ faults = 0
    /\ pc = [w \in Workers |-> "idle"]
    /\ hash = [w \in Workers |-> CHOOSE h \in Hashes : TRUE]
    /\ lvl = [w \in Workers |-> 1]
    /\ calls = [w \in Workers |-> 0]
    /\ result = [w \in Workers |-> "none"]
    /\ ownFault = [w \in Workers |-> FALSE]

\* A crash stops every worker.
Next ==
    /\ ~crashed
    /\ \E w \in Workers :
         \/ \E h \in Hashes : SetDedupedBlock(w, h)
         \/ MkdirsCheck(w)
         \/ Level(w)
         \/ Stat(w)
         \/ Mkdir(w)
         \/ RecordBegin(w)
         \/ RecordEnd(w)
         \/ MapRace(w)
         \/ LStat(w)
         \/ StoreBegin(w)
         \/ StoreEnd(w)

Spec == Init /\ [][Next]_vars

(***************************************************************************)
(* Properties                                                              *)
(***************************************************************************)

\* Workers of one export run SetDedupedBlock side by side: a call fails
\* only when one of its own FTP commands failed, and the process is never
\* aborted, whatever the other workers do (mkdirs, server_driver.go
\* 103-159, and the knownDirs map at 109, 124 and 153).
ConcurrentStoresDoNotInterfere ==
    /\ ~crashed
    /\ \A w \in Workers : result[w] = "error" => ownFault[w]
====
