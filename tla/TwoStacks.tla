------------------------------ MODULE TwoStacks ------------------------------
(***************************************************************************)
(* Undo and redo as every editor's user knows them: what was done, and     *)
(* what was undone and can be redone.  luxforge-core keeps neither; it     *)
(* keeps a tree of entries, a pointer and a redo list.                     *)
(***************************************************************************)
EXTENDS Naturals, Sequences

CONSTANT Assets

VARIABLES
    past,    \* per asset, what was done, the current state last
    future,  \* per asset, what was undone, the next one to redo last
    made     \* per asset, how many states were ever made

vars == <<past, future, made>>

Init ==
    /\ past = [a \in Assets |-> <<>>]
    /\ future = [a \in Assets |-> <<>>]
    /\ made = [a \in Assets |-> 0]

\* Something new: it is no state made before, and nothing is left to redo.
Do(a) ==
    /\ made' = [made EXCEPT ![a] = @ + 1]
    /\ past' = [past EXCEPT ![a] = Append(@, made[a] + 1)]
    /\ future' = [future EXCEPT ![a] = <<>>]

Undo(a) ==
    /\ Len(past[a]) > 1
    /\ past' = [past EXCEPT ![a] = SubSeq(@, 1, Len(@) - 1)]
    /\ future' = [future EXCEPT ![a] = Append(@, past[a][Len(past[a])])]
    /\ UNCHANGED made

Redo(a) ==
    /\ future[a] # <<>>
    /\ past' = [past EXCEPT ![a] = Append(@, future[a][Len(future[a])])]
    /\ future' = [future EXCEPT ![a] = SubSeq(@, 1, Len(@) - 1)]
    /\ UNCHANGED made

Next == \E a \in Assets : Do(a) \/ Undo(a) \/ Redo(a)

Spec == Init /\ [][Next]_vars

=============================================================================
