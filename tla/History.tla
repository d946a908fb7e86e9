------------------------------- MODULE History -------------------------------
(***************************************************************************)
(* An asset's edit history in luxforge-core: the catalog's rows, the one   *)
(* path every change takes (EditorService::mutate), undo, redo, restore,   *)
(* named versions, and the owner's cache of heads (editor/history.rs,      *)
(* editor/entries.rs, editor/catalog.rs).                                  *)
(*                                                                         *)
(* Clients send requests with an identity of their own and the revision    *)
(* they saw.  A request may arrive late, twice, or after its answer was    *)
(* lost, so any request may be handled at any time.  One thread owns the   *)
(* catalog and each write is one transaction, so one action is one call.   *)
(* A request that is refused, that fails before its transaction commits,   *)
(* or that repeats one already answered changes no row: what is left of it *)
(* is the read of the head (ReadHead).                                     *)
(*                                                                         *)
(* A stack (recipe) is a value; an entry is named by its place in its      *)
(* asset's sequence, one more than the stored sequence number.             *)
(***************************************************************************)
EXTENDS Integers, Sequences, FiniteSets

CONSTANTS
    Assets,
    Requests,     \* request identities clients use
    Stacks,       \* recipes; what an import writes is one of them
    Original,     \* the stack of an Original entry
    Names,        \* version names, equal when they differ in case only
    CachedHeads,  \* CACHED_HEADS
    MaxEntries,   \* bound: entries of one asset
    MaxRevision   \* bound: moves of one asset's head

None == 0

ASSUME HistoryAssumption ==
    /\ Original \in Stacks
    /\ None \notin Requests
    /\ CachedHeads \in Nat \ {0}
    /\ MaxEntries \in Nat \ {0}
    /\ MaxRevision \in Nat

Revisions == 0 .. MaxRevision
EntryIds == 1 .. MaxEntries

VARIABLES
    \* the catalog, which survives a restart
    entries,    \* per asset, its entries in sequence order
    current,    \* per asset, the current entry
    revision,   \* per asset, its revision
    redo,       \* per asset, the entries to redo, the next one last
    answers,    \* per asset, the stored answer of each request
    versions,   \* per asset, the entry each name names
    \* the owner's memory
    heads,      \* per asset, its cached head
    \* history
    moves       \* per asset, every move of its head

catalog == <<entries, current, revision, redo, answers, versions>>
vars == <<catalog, heads, moves>>

Entry == [stack : Stacks, parent : EntryIds \union {None},
          target : EntryIds \union {None}, request : Requests \union {None},
          base : Revisions, result : Revisions]

HeadRecord == [revision : Revisions, current : EntryIds, redo : Seq(EntryIds)]

NotCached == [revision |-> 0, current |-> None, redo |-> <<>>]

Operations ==
    [kind : {"commit"}, stack : Stacks, target : {None}]
      \union [kind : {"undo", "redo"}, stack : {Original}, target : {None}]
      \union [kind : {"restore"}, stack : {Original}, target : EntryIds]

Answer == [operation : Operations, expected : Revisions,
           outcome : {"applied", "navigated", "no-op"},
           revision : Revisions, current : EntryIds]

NoOperation == [kind |-> "none", stack |-> Original, target |-> None]

NoAnswer == [operation |-> NoOperation, expected |-> 0, outcome |-> "none",
             revision |-> 0, current |-> None]

Move == [request : Requests, expected : Revisions,
         from : EntryIds, to : EntryIds]

Imported(a) == entries[a] # <<>>

Init ==
    /\ entries = [a \in Assets |-> <<>>]
    /\ current = [a \in Assets |-> None]
    /\ revision = [a \in Assets |-> 0]
    /\ redo = [a \in Assets |-> <<>>]
    /\ answers = [a \in Assets |-> [r \in Requests |-> NoAnswer]]
    /\ versions = [a \in Assets |-> [n \in Names |-> None]]
    /\ heads = [a \in Assets |-> NotCached]
    /\ moves = [a \in Assets |-> <<>>]

-----------------------------------------------------------------------------
\* The cache of heads.

Cached(a) == heads[a] # NotCached

Stored(a) == [revision |-> revision[a], current |-> current[a],
              redo |-> redo[a]]

\* The head a call works from: the cached one, or the rows.
HeadOf(a) == IF Cached(a) THEN heads[a] ELSE Stored(a)

HeadsHeld == {b \in Assets : Cached(b)}

\* Reading a head keeps `head`; a full cache lets another one go.  Which
\* one (the least recently read) no property depends on.
Keep(a, head) ==
    \/ /\ Cached(a) \/ Cardinality(HeadsHeld) < CachedHeads
       /\ heads' = [heads EXCEPT ![a] = head]
    \/ /\ ~Cached(a) /\ Cardinality(HeadsHeld) >= CachedHeads
       /\ \E b \in HeadsHeld :
             heads' = [heads EXCEPT ![a] = head, ![b] = NotCached]

\* EntryCache::moved, after the write committed.
Moved(head, rev, to, undone) ==
    [head EXCEPT !.revision = rev, !.current = to, !.redo = undone]

ReadHead(a) ==
    /\ Imported(a)
    /\ Keep(a, HeadOf(a))
    /\ UNCHANGED <<catalog, moves>>

-----------------------------------------------------------------------------
\* mutate

\* request_result finds nothing.  Otherwise the stored answer is returned,
\* or a conflict when it answered other input, and nothing changes.
Fresh(a, m) == answers[a][m.request] = NoAnswer

FaultyExpectedRevision(a, m) == m.expected <= HeadOf(a).revision

\* ensure_revision
ExpectedRevision(a, m) == m.expected = HeadOf(a).revision

\* insert_request, in the transaction of the change it answers, which a
\* row already there rolls back.
Record(a, m, outcome, rev, to) ==
    /\ Fresh(a, m)
    /\ answers' = [answers EXCEPT ![a][m.request] =
        [operation |-> m.operation, expected |-> m.expected,
         outcome |-> outcome, revision |-> rev, current |-> to]]

\* A new entry starts a new path: nothing is left to redo.
RedoAfterAppend(a) == <<>>

\* Update asset_state, record the answer and move the cached head.
MoveHead(a, m, outcome, to, undone) ==
    LET next == HeadOf(a).revision + 1
    IN  /\ current' = [current EXCEPT ![a] = to]
        /\ revision' = [revision EXCEPT ![a] = next]
        /\ redo' = [redo EXCEPT ![a] = undone]
        /\ Record(a, m, outcome, next, to)
        /\ Keep(a, Moved(HeadOf(a), next, to, undone))
        /\ moves' = [moves EXCEPT ![a] = Append(@,
             [request |-> m.request, expected |-> m.expected,
              from |-> current[a], to |-> to])]
        /\ UNCHANGED versions

FaultyAppendEntry(a, m, stack, target) ==
    /\ Len(entries[a]) < MaxEntries
    /\ entries' = [entries EXCEPT ![a] = Append(@,
         [stack |-> stack, parent |-> Len(@), target |-> target,
          request |-> m.request, base |-> HeadOf(a).revision,
          result |-> HeadOf(a).revision + 1])]
    /\ MoveHead(a, m, "applied", Len(entries[a]) + 1, RedoAfterAppend(a))

\* Change::Append of a stack the admission let through.
AppendEntry(a, m, stack, target) ==
    /\ Len(entries[a]) < MaxEntries
    /\ entries' = [entries EXCEPT ![a] = Append(@,
         [stack |-> stack, parent |-> HeadOf(a).current, target |-> target,
          request |-> m.request, base |-> HeadOf(a).revision,
          result |-> HeadOf(a).revision + 1])]
    /\ MoveHead(a, m, "applied", Len(entries[a]) + 1, RedoAfterAppend(a))

\* Change::Navigate
Navigate(a, m, to, undone) ==
    /\ MoveHead(a, m, "navigated", to, undone)
    /\ UNCHANGED entries

\* Change::NoOp: only the request's answer is recorded.
NoOp(a, m) ==
    /\ Record(a, m, "no-op", HeadOf(a).revision, HeadOf(a).current)
    /\ Keep(a, HeadOf(a))
    /\ UNCHANGED <<entries, current, revision, redo, versions, moves>>

Accepted(a, m, kind) ==
    /\ m.operation.kind = kind
    /\ Imported(a)
    /\ Fresh(a, m)
    /\ ExpectedRevision(a, m)
    /\ revision[a] < MaxRevision

\* An action whose plan is the current stack again is a no-op.
Commit(a, m) ==
    LET stack == m.operation.stack
        same  == stack = entries[a][HeadOf(a).current].stack
    IN  /\ Accepted(a, m, "commit")
        /\ \/ same /\ NoOp(a, m)
           \/ ~same /\ AppendEntry(a, m, stack, None)

Undone(a) == Append(HeadOf(a).redo, HeadOf(a).current)

FaultyUndo(a, m) ==
    /\ Accepted(a, m, "undo")
    /\ Navigate(a, m, entries[a][HeadOf(a).current].parent, Undone(a))

Undo(a, m) ==
    LET parent == entries[a][HeadOf(a).current].parent
    IN  /\ Accepted(a, m, "undo")
        /\ \/ parent = None /\ NoOp(a, m)
           \/ parent # None /\ Navigate(a, m, parent, Undone(a))

FaultyToRedo(list) == list[1]

ToRedo(list) == list[Len(list)]

Redo(a, m) ==
    LET list == HeadOf(a).redo
    IN  /\ Accepted(a, m, "redo")
        /\ \/ list = <<>> /\ NoOp(a, m)
           \/ /\ list # <<>>
              /\ Navigate(a, m, ToRedo(list), SubSeq(list, 1, Len(list) - 1))

\* A target that is no entry of this asset is refused.
Restore(a, m) ==
    LET target == m.operation.target
        stack  == entries[a][target].stack
        same   == stack = entries[a][HeadOf(a).current].stack
    IN  /\ Accepted(a, m, "restore")
        /\ target <= Len(entries[a])
        /\ \/ same /\ NoOp(a, m)
           \/ ~same /\ AppendEntry(a, m, stack, target)

Messages == [request : Requests, expected : Revisions, operation : Operations]

Handle(a, m) == Commit(a, m) \/ Undo(a, m) \/ Redo(a, m) \/ Restore(a, m)

-----------------------------------------------------------------------------
\* Writes beside mutate, and the process.

\* An import of a source no asset has: its row, its Original entry and its
\* state in one transaction.  No head can name a new asset.
Import(a) ==
    /\ ~Imported(a)
    /\ entries' = [entries EXCEPT ![a] =
         <<[stack |-> Original, parent |-> None, target |-> None,
            request |-> None, base |-> 0, result |-> 0]>>]
    /\ current' = [current EXCEPT ![a] = 1]
    /\ UNCHANGED <<revision, redo, answers, versions, heads, moves>>

FaultyNameFree(a, n, e) == TRUE

\* A name in use on another entry is a conflict, on the same one a no-op.
NameFree(a, n, e) == versions[a][n] = None

CreateVersion(a, n, e) ==
    /\ Imported(a)
    /\ e \in 1 .. Len(entries[a])
    /\ NameFree(a, n, e)
    /\ versions' = [versions EXCEPT ![a][n] = e]
    /\ UNCHANGED <<entries, current, revision, redo, answers, heads, moves>>

\* Name the current entry, as the head says.
CreateVersionHere(a, n) ==
    /\ Imported(a)
    /\ NameFree(a, n, HeadOf(a).current)
    /\ versions' = [versions EXCEPT ![a][n] = HeadOf(a).current]
    /\ Keep(a, HeadOf(a))
    /\ UNCHANGED <<entries, current, revision, redo, answers, moves>>

DeleteVersion(a, n) ==
    /\ versions[a][n] # None
    /\ versions' = [versions EXCEPT ![a][n] = None]
    /\ UNCHANGED <<entries, current, revision, redo, answers, heads, moves>>

\* The process ends, by a crash or in order, and the catalog is opened
\* again: rows committed are there, no memory is.
Reopen ==
    /\ heads' = [a \in Assets |-> NotCached]
    /\ UNCHANGED <<catalog, moves>>

Next ==
    \/ \E a \in Assets :
          \/ Import(a)
          \/ ReadHead(a)
          \/ \E m \in Messages : Handle(a, m)
          \/ \E n \in Names :
                \/ \E e \in EntryIds : CreateVersion(a, n, e)
                \/ CreateVersionHere(a, n)
                \/ DeleteVersion(a, n)
    \/ Reopen

Spec == Init /\ [][Next]_vars

-----------------------------------------------------------------------------
\* Properties

TypeOK ==
    /\ entries \in [Assets -> Seq(Entry)]
    /\ \A a \in Assets : Len(entries[a]) <= MaxEntries
    /\ current \in [Assets -> EntryIds \union {None}]
    /\ revision \in [Assets -> Revisions]
    /\ redo \in [Assets -> Seq(EntryIds)]
    /\ answers \in [Assets -> [Requests -> Answer \union {NoAnswer}]]
    /\ versions \in [Assets -> [Names -> EntryIds \union {None}]]
    /\ heads \in [Assets -> HeadRecord \union {NotCached}]
    /\ moves \in [Assets -> Seq(Move)]

\* A cached head is the head its rows hold, whatever requests, failures
\* and evictions came in between, and no more heads are kept than the
\* cache has room for: what lets `state` answer without reading a row.
HeadsAreRows ==
    /\ \A a \in Assets : Cached(a) => heads[a] = Stored(a)
    /\ Cardinality(HeadsHeld) <= CachedHeads

\* The head an asset had at a revision.
HeadAt(a, rev) == IF rev = 0 THEN 1 ELSE moves[a][rev].to

\* Every entry but the Original was made from an earlier entry, the one
\* that was current at its base revision, so following undo parents
\* reaches the Original whatever was undone or restored in between; a
\* restored entry holds the stack of its target.
UndoTree ==
    \A a \in Assets : \A e \in 1 .. Len(entries[a]) :
        LET entry == entries[a][e]
        IN  /\ entry.parent = None <=> e = 1
            /\ entry.parent < e
            /\ e # 1 => /\ entry.result = entry.base + 1
                        /\ entry.result <= revision[a]
                        /\ entry.parent = HeadAt(a, entry.base)
                        /\ e = HeadAt(a, entry.result)
            /\ entry.target # None =>
                 /\ entry.target < e
                 /\ entries[a][entry.target].stack = entry.stack

\* The redo list is a path down the tree from the current entry: what redo
\* makes current was made from what is current, so redo is never a jump.
RedoIsPath ==
    \A a \in Assets : Imported(a) =>
        LET list == redo[a]
            here(i) == IF i = Len(list) THEN current[a] ELSE list[i + 1]
        IN  \A i \in 1 .. Len(list) :
                /\ list[i] \in 1 .. Len(entries[a])
                /\ entries[a][list[i]].parent = here(i)

\* The tree, the redo list and the cached heads agree: undo and redo go
\* along it, from the head a client was shown.
TreeSound == UndoTree /\ RedoIsPath /\ HeadsAreRows

\* Every move of a head was made from the head its client had seen, is the
\* only move of its request, and is what that request's stored answer
\* says: no update is lost, and none is applied twice.
MovesChain ==
    \A a \in Assets :
        LET log == moves[a]
        IN  /\ Len(log) = revision[a]
            /\ \A i \in 1 .. Len(log) :
                 /\ log[i].expected = i - 1
                 /\ log[i].from = HeadAt(a, i - 1)
                 /\ answers[a][log[i].request].revision = i
                 /\ answers[a][log[i].request].current = log[i].to
                 /\ answers[a][log[i].request].outcome # "no-op"
                 /\ \A j \in 1 .. i - 1 : log[j].request # log[i].request
            /\ Imported(a) =>
                 current[a] = HeadAt(a, revision[a])

\* Every entry a request made is the one its stored answer names, and a
\* request whose answer is a no-op or a navigation made none.
EntriesMatchAnswers ==
    \A a \in Assets, r \in Requests :
        \A e \in 1 .. Len(entries[a]) :
            entries[a][e].request = r <=>
                /\ answers[a][r].outcome = "applied"
                /\ answers[a][r].current = e

\* A request takes effect once, and its stored answer says which effect:
\* what a client that repeats a request, or missed the answer, relies on.
OncePerRequest == MovesChain /\ EntriesMatchAnswers

\* Nothing retained is lost or rewritten: entries are only added, a stored
\* answer stays what it is, and a version that is not removed keeps naming
\* the entry it named.
Retained ==
    [][\A a \in Assets :
        /\ Len(entries'[a]) >= Len(entries[a])
        /\ SubSeq(entries'[a], 1, Len(entries[a])) = entries[a]
        /\ \A r \in Requests :
              answers[a][r] # NoAnswer => answers'[a][r] = answers[a][r]
        /\ \A n \in Names :
              versions[a][n] # None /\ versions'[a][n] # None =>
                  versions'[a][n] = versions[a][n]]_vars

\* A tree, a pointer and a redo list are undo and redo as a user knows
\* them: what was done is the path of undo parents up to the current
\* entry, and what can be redone is the redo list.
PathTo(a) ==
    LET to[e \in 1 .. Len(entries[a])] ==
          IF entries[a][e].parent = None THEN <<e>>
          ELSE Append(to[entries[a][e].parent], e)
    IN  IF Imported(a) THEN to[current[a]] ELSE <<>>

UserView == INSTANCE TwoStacks WITH
    past <- [a \in Assets |-> PathTo(a)],
    future <- redo,
    made <- [a \in Assets |-> Len(entries[a])]

IsTwoStacks == UserView!Spec

=============================================================================
