---------------------------- MODULE ServerIndex ----------------------------
(***************************************************************************)
(* Server selection shared by every ARDB storage cluster (nbd/ardb,        *)
(* cluster.go): FindFirstServerIndex, used by Do, and ComputeServerIndex,  *)
(* used by DoFor and DoForAll.  Both take a ServerIndexPredicate, here    *)
(* given as the function of its answers over the server indices:         *)
(* "operational", "not operational", or an error that ends the search.    *)
(* ComputeServerIndex loops until the predicate accepts a candidate: the  *)
(* model unrolls MaxJumpRounds rounds and reports SearchDiverges beyond   *)
(* them.                                                                  *)
(***************************************************************************)
EXTENDS Integers, FiniteSetsExt

CONSTANTS
    JumpHash(_, _),   \* jump consistent hash (Lamping-Veach) of a key over n buckets
    MaxJumpRounds     \* rounds of the jump-hash search the model unrolls

ASSUME MaxJumpRounds \in Nat \ {0}

\* The answers of a ServerIndexPredicate other than an error.
Operational == "operational"
NotOperational == "not operational"

ErrNoServersAvailable == "ErrNoServersAvailable"
\* The code searches for ever; the model stops after MaxJumpRounds rounds.
SearchDiverges == "search never ends"
\* objectIndex % serverCount with serverCount = 0: a Go run-time panic.
PanicDivideByZero == "panic: integer divide by zero"

NoIndex == -1
NoError == "none"
Found(i) == [index |-> i, err |-> NoError]
Failed(e) == [index |-> NoIndex, err |-> e]
\* `if ok || err != nil { return }`: a non-negative answer ends the search.
Answer(i, verdict) == IF verdict = Operational THEN Found(i) ELSE Failed(verdict)

\* The first server index the predicate does not skip.
FindFirstServerIndex(serverCount, pred) ==
    LET answered == {i \in 0..(serverCount - 1) : pred[i] # NotOperational}
    IN  IF answered = {} THEN Failed(ErrNoServersAvailable)
        ELSE Answer(Min(answered), pred[Min(answered)])

\* Modulo sharding first; when that server is skipped, jump consistent
\* hashing over serverCount with the key objectIndex, objectIndex+1, ...
\* until a candidate is not skipped.
ComputeServerIndex(serverCount, objectIndex, pred) ==
    LET RECURSIVE Jump(_, _)
        Jump(key, rounds) ==
            IF rounds = MaxJumpRounds THEN Failed(SearchDiverges)
            ELSE LET i == JumpHash(key, serverCount)
                 IN  IF pred[i] = NotOperational THEN Jump(key + 1, rounds + 1)
                     ELSE Answer(i, pred[i])
        modulo == objectIndex % serverCount
    IN  IF serverCount = 0 THEN Failed(PanicDivideByZero)
        ELSE IF pred[modulo] = NotOperational THEN Jump(objectIndex, 0)
        ELSE Answer(modulo, pred[modulo])
=============================================================================
