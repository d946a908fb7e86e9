----------------------------- MODULE MCHistory -----------------------------
(***************************************************************************)
(* History for TLC.  Request identities are numbers that are first used in *)
(* their order, which loses nothing since they are interchangeable.  Two   *)
(* cases share the run: one photo with a long history, and two photos with *)
(* names for their entries and a short history each.                       *)
(***************************************************************************)
EXTENDS History, TLC

CONSTANTS
    ShortEntries,   \* bound: entries of an asset in the second case
    ShortRevision   \* bound: moves of an asset's head in the second case

Used == {r \in Requests : \E a \in Assets : answers[a][r] # NoAnswer}

UsedInOrder == Used = 1 .. Cardinality(Used)

OneAlone ==
    /\ Cardinality({a \in Assets : Imported(a)}) <= 1
    /\ \A a \in Assets, n \in Names : versions[a][n] = None

ShortHistories ==
    /\ Cardinality(Used) <= ShortRevision
    /\ \A a \in Assets :
          /\ Len(entries[a]) <= ShortEntries
          /\ revision[a] <= ShortRevision

Within == UsedInOrder /\ (OneAlone \/ ShortHistories)

Alike == Permutations(Assets)

BoundedSpec == Init /\ [][Next /\ Within']_vars
=============================================================================
