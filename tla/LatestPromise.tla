--------------------------- MODULE LatestPromise ---------------------------
(***************************************************************************)
(* What a consumer of luxforge-core's Latest may rely on, without the      *)
(* worker: generations are handed out in order, results come back in       *)
(* generation order and never at or below the last cancel's, and a job     *)
(* reported as one that will never start delivers nothing.                 *)
(***************************************************************************)
EXTENDS Integers

VARIABLES
    issued,  \* the last generation handed out
    floor,   \* results at or below it are never delivered
    seen,    \* the generation of the last result delivered
    dead     \* generations reported as never starting

vars == <<issued, floor, seen, dead>>

Init == issued = 0 /\ floor = 0 /\ seen = 0 /\ dead = {}

\* One job newer than anything delivered is given up at a time.
GiveUpAtMostOne ==
    \E gone \in SUBSET (seen + 1 .. issued) :
        /\ \A g, h \in gone : g = h
        /\ dead' = dead \union gone

Request == issued' = issued + 1 /\ GiveUpAtMostOne /\ UNCHANGED <<floor, seen>>

Cancel ==
    /\ issued' = issued + 1
    /\ floor' = issued + 1
    /\ GiveUpAtMostOne
    /\ UNCHANGED seen

Withdraw == GiveUpAtMostOne /\ UNCHANGED <<issued, floor, seen>>

Deliver ==
    /\ seen' \in 1 .. issued
    /\ seen' > floor /\ seen' >= seen /\ seen' \notin dead
    /\ UNCHANGED <<issued, floor, dead>>

Next == Request \/ Cancel \/ Withdraw \/ Deliver

Spec == Init /\ [][Next]_vars

=============================================================================
