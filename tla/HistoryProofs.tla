---------------------------- MODULE HistoryProofs ----------------------------
(***************************************************************************)
(* Theorems about History, for every set of assets, requests, stacks and   *)
(* names and every bound.                                                  *)
(***************************************************************************)
EXTENDS History, SequenceTheorems, FiniteSetTheorems, TLAPS

\* A cached head is the head its rows hold.
HeadsMatch == \A a \in Assets : Cached(a) => heads[a] = Stored(a)

\* An imported asset's head is one of its entries; one not imported has no
\* row of any kind.
Grounded ==
    \A a \in Assets :
        /\ Imported(a) => current[a] \in 1 .. Len(entries[a])
        /\ ~Imported(a) => /\ current[a] = None /\ revision[a] = 0
                           /\ redo[a] = <<>> /\ ~Cached(a)

\* An undo parent is an earlier entry.
Earlier ==
    \A a \in Assets : \A e \in 1 .. Len(entries[a]) : entries[a][e].parent < e

IInv == TypeOK /\ HeadsMatch /\ Grounded /\ Earlier /\ RedoIsPath

-----------------------------------------------------------------------------
\* What the two shapes of an accepted request do: a no-op, and a move of
\* the head of one asset.

LEMMA HeadIsStored ==
    ASSUME HeadsMatch, NEW a \in Assets
    PROVE  HeadOf(a) = Stored(a)
  BY DEF HeadsMatch, HeadOf

LEMMA StoredFacts ==
    ASSUME NEW a \in Assets
    PROVE  /\ Stored(a).revision = revision[a]
           /\ Stored(a).current = current[a]
           /\ Stored(a).redo = redo[a]
  BY DEF Stored

LEMMA MovedFacts ==
    ASSUME NEW head \in HeadRecord,
           NEW rev \in Revisions, NEW to \in EntryIds, NEW undone \in Seq(EntryIds)
    PROVE  Moved(head, rev, to, undone) =
             [revision |-> rev, current |-> to, redo |-> undone]
<1> DEFINE at   == [head EXCEPT !.revision = rev]
           there == [at EXCEPT !.current = to]
<1>1. /\ at \in HeadRecord
      /\ at.revision = rev
  BY DEF HeadRecord
<1> HIDE DEF at
<1>2. /\ there \in HeadRecord
      /\ there.revision = rev
      /\ there.current = to
  BY <1>1 DEF HeadRecord
<1> HIDE DEF there
<1>3. /\ [there EXCEPT !.redo = undone] \in HeadRecord
      /\ [there EXCEPT !.redo = undone].revision = rev
      /\ [there EXCEPT !.redo = undone].current = to
      /\ [there EXCEPT !.redo = undone].redo = undone
  BY <1>2 DEF HeadRecord
<1>4. \A h \in HeadRecord :
         h = [revision |-> h.revision, current |-> h.current, redo |-> h.redo]
  BY DEF HeadRecord
<1>5. Moved(head, rev, to, undone) = [there EXCEPT !.redo = undone]
  BY DEF Moved, at, there
<1> QED BY <1>3, <1>4, <1>5

\* Only the heads of a and of an asset evicted for it change.
LEMMA KeepFacts ==
    ASSUME heads \in [Assets -> HeadRecord \union {NotCached}],
           NEW a \in Assets, NEW h \in HeadRecord \union {NotCached}, Keep(a, h)
    PROVE  /\ heads' \in [Assets -> HeadRecord \union {NotCached}]
           /\ heads'[a] = h
           /\ \A b \in Assets : b # a => heads'[b] = heads[b] \/ heads'[b] = NotCached
<1>1. CASE heads' = [heads EXCEPT ![a] = h]
  BY <1>1
<1>2. ASSUME NEW c \in HeadsHeld, ~Cached(a),
             heads' = [heads EXCEPT ![a] = h, ![c] = NotCached]
      PROVE  /\ heads' \in [Assets -> HeadRecord \union {NotCached}]
             /\ heads'[a] = h
             /\ \A b \in Assets : b # a => heads'[b] = heads[b] \/ heads'[b] = NotCached
  <2>1. c \in Assets /\ c # a
    BY <1>2 DEF HeadsHeld
  <2> QED BY <1>2, <2>1
<1> QED BY <1>1, <1>2 DEF Keep

LEMMA StoredTyped ==
    ASSUME TypeOK, Grounded, NEW a \in Assets, Imported(a)
    PROVE  Stored(a) \in HeadRecord /\ current[a] \in EntryIds
<1>1. current[a] \in 1 .. Len(entries[a]) /\ Len(entries[a]) <= MaxEntries
  BY DEF Grounded, TypeOK
<1>2. Len(entries[a]) \in Nat
  BY DEF TypeOK
<1>3. current[a] \in EntryIds
  BY <1>1, <1>2, HistoryAssumption DEF EntryIds
<1> QED BY <1>3 DEF TypeOK, Stored, HeadRecord

\* What a move of a's head leaves behind.
HeadMoved(a, m, outcome, to, undone) ==
    /\ current' = [current EXCEPT ![a] = to]
    /\ revision' = [revision EXCEPT ![a] = revision[a] + 1]
    /\ redo' = [redo EXCEPT ![a] = undone]
    /\ versions' = versions
    /\ moves' = [moves EXCEPT ![a] = Append(@,
         [request |-> m.request, expected |-> m.expected,
          from |-> current[a], to |-> to])]
    /\ answers' = [answers EXCEPT ![a][m.request] =
         [operation |-> m.operation, expected |-> m.expected,
          outcome |-> outcome, revision |-> revision[a] + 1,
          current |-> to]]
    /\ heads' \in [Assets -> HeadRecord \union {NotCached}]
    /\ heads'[a] = [revision |-> revision[a] + 1, current |-> to, redo |-> undone]
    /\ \A b \in Assets : b # a => heads'[b] = heads[b] \/ heads'[b] = NotCached

\* What MoveHead leaves behind, for any target and redo list that are
\* entries.
LEMMA MoveHeadFacts ==
    ASSUME IInv, NEW a \in Assets, NEW m \in Messages, Imported(a),
           revision[a] < MaxRevision, Fresh(a, m),
           NEW outcome \in {"applied", "navigated"},
           NEW to \in EntryIds, NEW undone \in Seq(EntryIds),
           MoveHead(a, m, outcome, to, undone)
    PROVE  HeadMoved(a, m, outcome, to, undone)
<1>1. HeadOf(a) = Stored(a)
  BY HeadIsStored DEF IInv
<1>2. /\ HeadOf(a).revision = revision[a]
      /\ Moved(HeadOf(a), revision[a] + 1, to, undone) =
           [revision |-> revision[a] + 1, current |-> to, redo |-> undone]
  <2>1. revision[a] + 1 \in Revisions
    BY HistoryAssumption DEF IInv, TypeOK, Revisions
  <2>2. Stored(a) \in HeadRecord
    BY StoredTyped DEF IInv
  <2> QED BY <1>1, <2>1, <2>2, StoredFacts, MovedFacts
<1>3. [revision |-> revision[a] + 1, current |-> to, redo |-> undone] \in HeadRecord
  <2>1. revision[a] + 1 \in Revisions
    BY HistoryAssumption DEF IInv, TypeOK, Revisions
  <2> QED BY <2>1 DEF HeadRecord
<1>4. Keep(a, [revision |-> revision[a] + 1, current |-> to, redo |-> undone])
  BY <1>2 DEF MoveHead
<1>5. heads \in [Assets -> HeadRecord \union {NotCached}]
  BY DEF IInv, TypeOK
<1>6. /\ heads' \in [Assets -> HeadRecord \union {NotCached}]
      /\ heads'[a] = [revision |-> revision[a] + 1, current |-> to, redo |-> undone]
      /\ \A b \in Assets : b # a => heads'[b] = heads[b] \/ heads'[b] = NotCached
  BY <1>3, <1>4, <1>5, KeepFacts
<1> QED BY <1>2, <1>6 DEF HeadMoved, MoveHead, Record

\* A move of a's head to one of a's entries, old or new, keeps types and
\* the cache.
LEMMA MoveHeadTyped ==
    ASSUME IInv, NEW a \in Assets, NEW m \in Messages, Imported(a),
           revision[a] < MaxRevision, Fresh(a, m),
           NEW outcome \in {"applied", "navigated"},
           NEW to \in EntryIds, NEW undone \in Seq(EntryIds),
           MoveHead(a, m, outcome, to, undone),
           entries' \in [Assets -> Seq(Entry)],
           \A b \in Assets : Len(entries'[b]) <= MaxEntries
    PROVE  TypeOK' /\ HeadsMatch'
<1> DEFINE answer == [operation |-> m.operation, expected |-> m.expected,
                      outcome |-> outcome, revision |-> revision[a] + 1,
                      current |-> to]
           move == [request |-> m.request, expected |-> m.expected,
                    from |-> current[a], to |-> to]
           head == [revision |-> revision[a] + 1, current |-> to, redo |-> undone]
<1>1. /\ current' = [current EXCEPT ![a] = to]
      /\ revision' = [revision EXCEPT ![a] = revision[a] + 1]
      /\ redo' = [redo EXCEPT ![a] = undone]
      /\ versions' = versions
      /\ moves' = [moves EXCEPT ![a] = Append(@, move)]
      /\ answers' = [answers EXCEPT ![a][m.request] = answer]
      /\ heads' \in [Assets -> HeadRecord \union {NotCached}]
      /\ heads'[a] = head
      /\ \A b \in Assets : b # a => heads'[b] = heads[b] \/ heads'[b] = NotCached
  BY MoveHeadFacts DEF HeadMoved
<1>2. TypeOK
  BY DEF IInv
<1>3. revision[a] + 1 \in Revisions
  BY <1>2, HistoryAssumption DEF TypeOK, Revisions
<1>4. /\ m.request \in Requests
      /\ m.expected \in Revisions
      /\ m.operation \in Operations
  BY DEF Messages
<1>5. current[a] \in EntryIds
  BY StoredTyped DEF IInv
<1>6. answer \in Answer
  BY <1>3, <1>4 DEF Answer
<1>7. move \in Move
  BY <1>4, <1>5 DEF Move
<1>8. TypeOK'
  <2> HIDE DEF answer, move
  <2>1. current' \in [Assets -> EntryIds \union {None}]
    BY <1>1, <1>2 DEF TypeOK
  <2>2. revision' \in [Assets -> Revisions]
    BY <1>1, <1>2, <1>3 DEF TypeOK
  <2>3. redo' \in [Assets -> Seq(EntryIds)]
    BY <1>1, <1>2 DEF TypeOK
  <2>4. answers' \in [Assets -> [Requests -> Answer \union {NoAnswer}]]
    BY <1>1, <1>2, <1>4, <1>6 DEF TypeOK
  <2>5. versions' \in [Assets -> [Names -> EntryIds \union {None}]]
    BY <1>1, <1>2 DEF TypeOK
  <2>6. moves' \in [Assets -> Seq(Move)]
    <3>1. Append(moves[a], move) \in Seq(Move)
      BY <1>2, <1>7, AppendProperties DEF TypeOK
    <3> QED BY <1>1, <1>2, <3>1 DEF TypeOK
  <2> QED BY <1>1, <2>1, <2>2, <2>3, <2>4, <2>5, <2>6 DEF TypeOK
<1>9. HeadsMatch'
  <2> SUFFICES ASSUME NEW b \in Assets, Cached(b)'
               PROVE  heads'[b] = Stored(b)'
    BY DEF HeadsMatch
  <2>1. CASE b = a
    BY <1>1, <1>2, <2>1 DEF Stored, TypeOK
  <2>2. CASE b # a
    <3>1. Stored(b)' = Stored(b)
      BY <1>1, <1>2, <2>2 DEF Stored, TypeOK
    <3>2. heads'[b] = heads[b] /\ heads[b] # NotCached
      BY <1>1, <2>2 DEF Cached, NotCached
    <3> QED BY <3>1, <3>2 DEF IInv, HeadsMatch, Cached
  <2> QED BY <2>1, <2>2
<1> QED BY <1>8, <1>9

\* A list of entries of a whose last was made from `to`, and each other
\* from the next.
IsPath(a, to, list) ==
    \A i \in 1 .. Len(list) :
        /\ list[i] \in 1 .. Len(entries[a])
        /\ entries[a][list[i]].parent = IF i = Len(list) THEN to ELSE list[i + 1]

\* An undo or a redo: entries stay, the head goes to one of them.
LEMMA NavigateStep ==
    ASSUME IInv, NEW a \in Assets, NEW m \in Messages, Imported(a),
           revision[a] < MaxRevision, Fresh(a, m),
           NEW to \in EntryIds, NEW undone \in Seq(EntryIds),
           to \in 1 .. Len(entries[a]),
           IsPath(a, to, undone), Navigate(a, m, to, undone)
    PROVE  IInv'
<1>1. MoveHead(a, m, "navigated", to, undone) /\ entries' = entries
  BY DEF Navigate
<1>4. TypeOK' /\ HeadsMatch'
  <2>1. entries' \in [Assets -> Seq(Entry)]
    BY <1>1 DEF IInv, TypeOK
  <2>2. \A b \in Assets : Len(entries'[b]) <= MaxEntries
    BY <1>1 DEF IInv, TypeOK
  <2> QED BY <1>1, <2>1, <2>2, MoveHeadTyped
<1>5. /\ current' = [current EXCEPT ![a] = to]
      /\ revision' = [revision EXCEPT ![a] = revision[a] + 1]
      /\ redo' = [redo EXCEPT ![a] = undone]
      /\ \A b \in Assets : b # a => heads'[b] = heads[b] \/ heads'[b] = NotCached
  <2>1. HeadMoved(a, m, "navigated", to, undone)
    BY <1>1, MoveHeadFacts
  <2> QED BY <2>1 DEF HeadMoved
<1>6. \A b \in Assets : b # a => /\ current'[b] = current[b]
                                 /\ revision'[b] = revision[b]
                                 /\ redo'[b] = redo[b]
  BY <1>5 DEF IInv, TypeOK
<1>7. current'[a] = to /\ redo'[a] = undone
  BY <1>5 DEF IInv, TypeOK
<1>8. Earlier'
  BY <1>1 DEF IInv, Earlier
<1>9. Grounded'
  <2> SUFFICES ASSUME NEW b \in Assets
               PROVE  /\ Imported(b)' => current'[b] \in 1 .. Len(entries'[b])
                      /\ ~Imported(b)' => /\ current'[b] = None /\ revision'[b] = 0
                                          /\ redo'[b] = <<>> /\ ~Cached(b)'
    BY DEF Grounded
  <2>1. CASE b = a
    BY <1>1, <1>7, <2>1 DEF Imported
  <2>2. CASE b # a
    BY <1>1, <1>5, <1>6, <2>2 DEF IInv, Grounded, Imported, Cached
  <2> QED BY <2>1, <2>2
<1>10. RedoIsPath'
  <2> SUFFICES ASSUME NEW b \in Assets, Imported(b)', NEW i \in 1 .. Len(redo'[b])
               PROVE  /\ redo'[b][i] \in 1 .. Len(entries'[b])
                      /\ entries'[b][redo'[b][i]].parent =
                           IF i = Len(redo'[b]) THEN current'[b] ELSE redo'[b][i + 1]
    BY DEF RedoIsPath
  <2>1. CASE b = a
    BY <1>1, <1>7, <2>1 DEF IsPath
  <2>2. CASE b # a
    <3>1. /\ redo'[b] = redo[b] /\ current'[b] = current[b]
          /\ entries'[b] = entries[b] /\ Imported(b)
      BY <1>1, <1>6, <2>2 DEF Imported
    <3>2. i \in 1 .. Len(redo[b])
      BY <3>1
    <3>3. /\ redo[b][i] \in 1 .. Len(entries[b])
          /\ entries[b][redo[b][i]].parent =
               IF i = Len(redo[b]) THEN current[b] ELSE redo[b][i + 1]
      BY <3>1, <3>2 DEF IInv, RedoIsPath
    <3> QED BY <3>1, <3>3
  <2> QED BY <2>1, <2>2
<1> QED BY <1>4, <1>8, <1>9, <1>10 DEF IInv

LEMMA EntryTyped ==
    ASSUME TypeOK, NEW a \in Assets, NEW e \in 1 .. Len(entries[a])
    PROVE  /\ entries[a][e] \in Entry
           /\ entries[a][e].stack \in Stacks
           /\ entries[a][e].parent \in EntryIds \union {None}
           /\ e \in EntryIds
<1>1. entries[a] \in Seq(Entry) /\ Len(entries[a]) \in Nat /\ Len(entries[a]) <= MaxEntries
  BY DEF TypeOK
<1>2. entries[a][e] \in Entry
  BY <1>1, ElementOfSeq
<1>3. e \in EntryIds
  BY <1>1, HistoryAssumption DEF EntryIds
<1> QED BY <1>2, <1>3 DEF Entry

\* Undo goes to the parent and puts what was current at the end of the
\* redo list.
LEMMA UndoNavigates ==
    ASSUME IInv, NEW a \in Assets, Imported(a),
           entries[a][current[a]].parent # None
    PROVE  LET to == entries[a][current[a]].parent
               undone == Append(redo[a], current[a])
           IN  /\ to \in EntryIds
               /\ to \in 1 .. Len(entries[a])
               /\ undone \in Seq(EntryIds)
               /\ IsPath(a, to, undone)
<1> DEFINE to == entries[a][current[a]].parent
           undone == Append(redo[a], current[a])
<1>1. current[a] \in 1 .. Len(entries[a])
  BY DEF IInv, Grounded
<1>2. to \in EntryIds /\ current[a] \in EntryIds
  BY <1>1, EntryTyped DEF IInv
<1>3. to < current[a]
  BY <1>1 DEF IInv, Earlier
<1>4. to \in 1 .. Len(entries[a])
  BY <1>1, <1>2, <1>3 DEF EntryIds
<1>5. /\ redo[a] \in Seq(EntryIds)
      /\ Len(redo[a]) \in Nat
  BY DEF IInv, TypeOK
<1>6. /\ undone \in Seq(EntryIds)
      /\ Len(undone) = Len(redo[a]) + 1
      /\ undone[Len(redo[a]) + 1] = current[a]
      /\ \A i \in 1 .. Len(redo[a]) : undone[i] = redo[a][i]
  BY <1>2, <1>5, AppendProperties
<1>7. ASSUME NEW i \in 1 .. Len(undone)
      PROVE  /\ undone[i] \in 1 .. Len(entries[a])
             /\ entries[a][undone[i]].parent =
                  IF i = Len(undone) THEN to ELSE undone[i + 1]
  <2> HIDE DEF undone
  <2>1. CASE i = Len(undone)
    BY <1>1, <1>6, <2>1
  <2>2. CASE i # Len(undone)
    <3>1. i \in 1 .. Len(redo[a])
      BY <1>5, <1>6, <2>2
    <3>2. /\ redo[a][i] \in 1 .. Len(entries[a])
          /\ entries[a][redo[a][i]].parent =
               IF i = Len(redo[a]) THEN current[a] ELSE redo[a][i + 1]
      BY <3>1 DEF IInv, RedoIsPath
    <3>3. CASE i = Len(redo[a])
      BY <1>5, <1>6, <2>2, <3>1, <3>2, <3>3
    <3>4. CASE i # Len(redo[a])
      <4>1. i + 1 \in 1 .. Len(redo[a])
        BY <1>5, <3>1, <3>4
      <4> QED BY <1>6, <2>2, <3>1, <3>2, <3>4, <4>1
    <3> QED BY <3>3, <3>4
  <2> QED BY <2>1, <2>2
<1>8. IsPath(a, to, undone)
  BY <1>7 DEF IsPath
<1> QED BY <1>2, <1>4, <1>6, <1>8

\* Redo goes to the last of the redo list and leaves the rest.
LEMMA RedoNavigates ==
    ASSUME IInv, NEW a \in Assets, Imported(a), redo[a] # <<>>
    PROVE  LET to == ToRedo(redo[a])
               undone == SubSeq(redo[a], 1, Len(redo[a]) - 1)
           IN  /\ to \in EntryIds
               /\ to \in 1 .. Len(entries[a])
               /\ undone \in Seq(EntryIds)
               /\ IsPath(a, to, undone)
<1> DEFINE n == Len(redo[a])
           to == ToRedo(redo[a])
           undone == SubSeq(redo[a], 1, n - 1)
<1>1. /\ redo[a] \in Seq(EntryIds)
      /\ n \in Nat
      /\ n > 0
  BY DEF IInv, TypeOK
<1>2. /\ undone \in Seq(EntryIds)
      /\ Len(undone) = n - 1
      /\ \A i \in 1 .. n - 1 : undone[i] = redo[a][i]
  BY <1>1
<1>3. \A i \in 1 .. n :
         /\ redo[a][i] \in EntryIds
         /\ redo[a][i] \in 1 .. Len(entries[a])
         /\ entries[a][redo[a][i]].parent =
              IF i = n THEN current[a] ELSE redo[a][i + 1]
  BY <1>1, ElementOfSeq DEF IInv, RedoIsPath
<1>4. to = redo[a][n] /\ n \in 1 .. n
  BY <1>1 DEF ToRedo
<1>5. ASSUME NEW i \in 1 .. Len(undone)
      PROVE  /\ undone[i] \in 1 .. Len(entries[a])
             /\ entries[a][undone[i]].parent =
                  IF i = Len(undone) THEN to ELSE undone[i + 1]
  <2>1. i \in 1 .. n - 1 /\ i \in 1 .. n /\ i # n /\ i + 1 \in 1 .. n
    BY <1>1, <1>2
  <2>2. /\ undone[i] = redo[a][i]
        /\ redo[a][i] \in 1 .. Len(entries[a])
        /\ entries[a][redo[a][i]].parent = redo[a][i + 1]
    BY <1>2, <1>3, <2>1
  <2>3. CASE i = Len(undone)
    <3>1. i + 1 = n
      BY <1>1, <1>2, <2>3
    <3> QED BY <1>4, <2>2, <2>3, <3>1
  <2>4. CASE i # Len(undone)
    <3>1. i + 1 \in 1 .. n - 1
      BY <1>1, <1>2, <2>1, <2>4
    <3> QED BY <1>2, <2>2, <2>4, <3>1
  <2> QED BY <2>3, <2>4
<1>6. IsPath(a, to, undone)
  BY <1>5 DEF IsPath
<1> QED BY <1>2, <1>3, <1>4, <1>6

\* The entry a request commits on top of a's current one.
NewEntry(a, m, stack, target) ==
    [stack |-> stack, parent |-> current[a], target |-> target,
     request |-> m.request, base |-> revision[a], result |-> revision[a] + 1]

\* What AppendEntry leaves behind.
EntryAppended(a, m, stack, target) ==
    /\ HeadMoved(a, m, "applied", Len(entries[a]) + 1, <<>>)
    /\ MoveHead(a, m, "applied", Len(entries[a]) + 1, <<>>)
    /\ Len(entries[a]) + 1 \in EntryIds
    /\ entries' \in [Assets -> Seq(Entry)]
    /\ Len(entries'[a]) = Len(entries[a]) + 1
    /\ Len(entries[a]) + 1 <= MaxEntries
    /\ entries'[a][Len(entries[a]) + 1] = NewEntry(a, m, stack, target)
    /\ \A e \in 1 .. Len(entries[a]) : entries'[a][e] = entries[a][e]
    /\ \A b \in Assets : b # a => entries'[b] = entries[b]

LEMMA AppendEntryFacts ==
    ASSUME IInv, NEW a \in Assets, NEW m \in Messages, Imported(a),
           revision[a] < MaxRevision, Fresh(a, m),
           NEW stack \in Stacks, NEW target \in EntryIds \union {None},
           AppendEntry(a, m, stack, target)
    PROVE  EntryAppended(a, m, stack, target)
<1> DEFINE n == Len(entries[a])
           new == NewEntry(a, m, stack, target)
<1>1. TypeOK
  BY DEF IInv
<1>2. HeadOf(a).current = current[a] /\ HeadOf(a).revision = revision[a]
  BY HeadIsStored, StoredFacts DEF IInv
<1>3. /\ n < MaxEntries
      /\ entries' = [entries EXCEPT ![a] = Append(@, new)]
      /\ MoveHead(a, m, "applied", n + 1, <<>>)
  BY <1>2 DEF AppendEntry, RedoAfterAppend, NewEntry
<1>4. /\ entries[a] \in Seq(Entry)
      /\ n \in Nat
  BY <1>1 DEF TypeOK
<1>5. n + 1 \in EntryIds /\ n + 1 <= MaxEntries
  BY <1>3, <1>4, HistoryAssumption DEF EntryIds
<1>6. current[a] \in EntryIds /\ revision[a] \in Revisions /\ revision[a] + 1 \in Revisions
  BY <1>1, StoredTyped, HistoryAssumption DEF IInv, TypeOK, Revisions
<1>7. new \in Entry
  BY <1>6 DEF NewEntry, Entry, Messages
<1>8. HeadMoved(a, m, "applied", n + 1, <<>>)
  <2>1. <<>> \in Seq(EntryIds)
    OBVIOUS
  <2> HIDE DEF n
  <2> QED BY <1>3, <1>5, <2>1, MoveHeadFacts
<1>9. /\ Append(entries[a], new) \in Seq(Entry)
      /\ Len(Append(entries[a], new)) = n + 1
      /\ Append(entries[a], new)[n + 1] = new
      /\ \A e \in 1 .. n : Append(entries[a], new)[e] = entries[a][e]
  <2> HIDE DEF new
  <2> QED BY <1>4, <1>7, AppendProperties
<1>10. /\ entries'[a] = Append(entries[a], new)
       /\ \A b \in Assets : b # a => entries'[b] = entries[b]
       /\ entries' \in [Assets -> Seq(Entry)]
  <2> HIDE DEF new
  <2> QED BY <1>1, <1>3, <1>9 DEF TypeOK
<1> QED BY <1>3, <1>5, <1>8, <1>9, <1>10 DEF EntryAppended

\* A new entry on top of the current one.
LEMMA AppendStep ==
    ASSUME IInv, NEW a \in Assets, NEW m \in Messages, Imported(a),
           revision[a] < MaxRevision, Fresh(a, m),
           NEW stack \in Stacks, NEW target \in EntryIds \union {None},
           AppendEntry(a, m, stack, target)
    PROVE  IInv'
<1> DEFINE n == Len(entries[a])
<1>1. EntryAppended(a, m, stack, target)
  BY AppendEntryFacts
<1>2. n \in Nat /\ \A b \in Assets : Len(entries[b]) \in Nat /\ Len(entries[b]) <= MaxEntries
  BY DEF IInv, TypeOK
<1>3. TypeOK' /\ HeadsMatch'
  <2>1. entries' \in [Assets -> Seq(Entry)]
    BY <1>1 DEF EntryAppended
  <2>2. \A b \in Assets : Len(entries'[b]) <= MaxEntries
    BY <1>1, <1>2 DEF EntryAppended
  <2>3. MoveHead(a, m, "applied", n + 1, <<>>) /\ n + 1 \in EntryIds
    BY <1>1 DEF EntryAppended
  <2>4. <<>> \in Seq(EntryIds)
    OBVIOUS
  <2> HIDE DEF n
  <2> QED BY <2>1, <2>2, <2>3, <2>4, MoveHeadTyped
<1>4. /\ current'[a] = n + 1
      /\ redo'[a] = <<>>
      /\ \A b \in Assets : b # a => /\ current'[b] = current[b]
                                    /\ revision'[b] = revision[b]
                                    /\ redo'[b] = redo[b]
                                    /\ entries'[b] = entries[b]
                                    /\ heads'[b] = heads[b] \/ heads'[b] = NotCached
  <2>1. HeadMoved(a, m, "applied", n + 1, <<>>)
    BY <1>1 DEF EntryAppended
  <2> HIDE DEF n
  <2> QED BY <1>1, <2>1 DEF HeadMoved, EntryAppended, IInv, TypeOK
<1>5. Earlier'
  <2> SUFFICES ASSUME NEW b \in Assets, NEW e \in 1 .. Len(entries'[b])
               PROVE  entries'[b][e].parent < e
    BY DEF Earlier
  <2>1. CASE b = a /\ e = n + 1
    <3>1. current[a] \in 1 .. n
      BY DEF IInv, Grounded
    <3>2. entries'[b][e].parent = current[a]
      BY <1>1, <2>1 DEF EntryAppended, NewEntry
    <3> QED BY <1>2, <2>1, <3>1, <3>2
  <2>2. CASE b = a /\ e # n + 1
    <3>1. e \in 1 .. n /\ entries'[a][e] = entries[a][e]
      BY <1>1, <1>2, <2>2 DEF EntryAppended
    <3> QED BY <2>2, <3>1 DEF IInv, Earlier
  <2>3. CASE b # a
    BY <1>4, <2>3 DEF IInv, Earlier
  <2> QED BY <2>1, <2>2, <2>3
<1>6. Grounded'
  <2> SUFFICES ASSUME NEW b \in Assets
               PROVE  /\ Imported(b)' => current'[b] \in 1 .. Len(entries'[b])
                      /\ ~Imported(b)' => /\ current'[b] = None /\ revision'[b] = 0
                                          /\ redo'[b] = <<>> /\ ~Cached(b)'
    BY DEF Grounded
  <2>1. CASE b = a
    <3>1. Len(entries'[a]) = n + 1 /\ entries'[a] \in Seq(Entry)
      BY <1>1 DEF EntryAppended
    <3>2. entries'[a] # <<>>
      BY <1>2, <3>1
    <3> QED BY <1>2, <1>4, <2>1, <3>1, <3>2 DEF Imported
  <2>2. CASE b # a
    BY <1>4, <2>2 DEF IInv, Grounded, Imported, Cached
  <2> QED BY <2>1, <2>2
<1>7. RedoIsPath'
  <2> SUFFICES ASSUME NEW b \in Assets, Imported(b)', NEW i \in 1 .. Len(redo'[b])
               PROVE  /\ redo'[b][i] \in 1 .. Len(entries'[b])
                      /\ entries'[b][redo'[b][i]].parent =
                           IF i = Len(redo'[b]) THEN current'[b] ELSE redo'[b][i + 1]
    BY DEF RedoIsPath
  <2>1. b # a
    BY <1>4
  <2>2. /\ redo'[b] = redo[b] /\ current'[b] = current[b]
        /\ entries'[b] = entries[b] /\ Imported(b)
    BY <1>4, <2>1 DEF Imported
  <2>3. i \in 1 .. Len(redo[b])
    BY <2>2
  <2>4. /\ redo[b][i] \in 1 .. Len(entries[b])
        /\ entries[b][redo[b][i]].parent =
             IF i = Len(redo[b]) THEN current[b] ELSE redo[b][i + 1]
    BY <2>2, <2>3 DEF IInv, RedoIsPath
  <2> QED BY <2>2, <2>4
<1> QED BY <1>3, <1>5, <1>6, <1>7 DEF IInv

\* What a step that moves no head does to the cache.
HeadsKept ==
    \/ heads' = heads
    \/ heads' = [b \in Assets |-> NotCached]
    \/ \E a \in Assets : Imported(a) /\ Keep(a, HeadOf(a))

\* A step that moves no head: what else it changes is typed, it leaves
\* each head's cache as it was, empty, or with the rows, it answers only a
\* fresh request, with a no-op, and it names only a free name.
StaysPut ==
    /\ HeadsKept
    /\ UNCHANGED <<entries, current, revision, redo, moves>>
    /\ answers' \in [Assets -> [Requests -> Answer \union {NoAnswer}]]
    /\ versions' \in [Assets -> [Names -> EntryIds \union {None}]]
    /\ heads' \in [Assets -> HeadRecord \union {NotCached}]
    /\ \A b \in Assets : \/ heads'[b] = heads[b] \/ heads'[b] = NotCached
                         \/ Imported(b) /\ heads'[b] = Stored(b)
    /\ \A b \in Assets, r \in Requests :
          \/ answers'[b][r] = answers[b][r]
          \/ answers[b][r] = NoAnswer /\ answers'[b][r].outcome = "no-op"
    /\ \A b \in Assets, n \in Names :
          \/ versions'[b][n] = versions[b][n]
          \/ versions[b][n] = None \/ versions'[b][n] = None

LEMMA StaysPutStep == ASSUME IInv, StaysPut PROVE IInv'
<1>1. TypeOK'
  BY DEF IInv, TypeOK, StaysPut
<1>2. HeadsMatch'
  <2> SUFFICES ASSUME NEW b \in Assets, Cached(b)'
               PROVE  heads'[b] = Stored(b)'
    BY DEF HeadsMatch
  <2>1. Stored(b)' = Stored(b)
    BY DEF StaysPut, Stored
  <2>2. heads'[b] # NotCached
    BY DEF Cached, NotCached
  <2> QED BY <2>1, <2>2 DEF IInv, HeadsMatch, Cached, StaysPut
<1>3. Grounded'
  BY DEF IInv, Grounded, StaysPut, Imported, Cached, NotCached
<1>4. Earlier' /\ RedoIsPath'
  BY DEF IInv, Earlier, RedoIsPath, StaysPut, Imported
<1> QED BY <1>1, <1>2, <1>3, <1>4 DEF IInv

\* Reading a head leaves it in the cache as its rows hold it.
LEMMA KeepStored ==
    ASSUME IInv, NEW a \in Assets, Imported(a), Keep(a, HeadOf(a))
    PROVE  /\ heads' \in [Assets -> HeadRecord \union {NotCached}]
           /\ heads'[a] = Stored(a)
           /\ \A b \in Assets : b # a => heads'[b] = heads[b] \/ heads'[b] = NotCached
<1>1. HeadOf(a) = Stored(a)
  BY HeadIsStored DEF IInv
<1>2. Stored(a) \in HeadRecord
  BY StoredTyped DEF IInv
<1>3. heads \in [Assets -> HeadRecord \union {NotCached}]
  BY DEF IInv, TypeOK
<1> QED BY <1>1, <1>2, <1>3, KeepFacts

LEMMA NoOpStaysPut ==
    ASSUME IInv, NEW a \in Assets, NEW m \in Messages, Imported(a), NoOp(a, m)
    PROVE  StaysPut
<1> DEFINE answer == [operation |-> m.operation, expected |-> m.expected,
                      outcome |-> "no-op", revision |-> revision[a],
                      current |-> current[a]]
<1>1. /\ heads' \in [Assets -> HeadRecord \union {NotCached}]
      /\ heads'[a] = Stored(a)
      /\ \A b \in Assets : b # a => heads'[b] = heads[b] \/ heads'[b] = NotCached
  BY KeepStored DEF NoOp
<1>2. HeadOf(a).current = current[a] /\ HeadOf(a).revision = revision[a]
  BY HeadIsStored, StoredFacts DEF IInv
<1>3. answers' = [answers EXCEPT ![a][m.request] = answer]
  BY <1>2 DEF NoOp, Record
<1>4. current[a] \in EntryIds /\ revision[a] \in Revisions
  BY StoredTyped DEF IInv, TypeOK
<1>5. answer \in Answer /\ m.request \in Requests
  BY <1>4 DEF Answer, Messages
<1>6. answers' \in [Assets -> [Requests -> Answer \union {NoAnswer}]]
  <2> HIDE DEF answer
  <2> QED BY <1>3, <1>5 DEF IInv, TypeOK
<1>7. versions' \in [Assets -> [Names -> EntryIds \union {None}]]
  BY DEF IInv, TypeOK, NoOp
<1>8. \A b \in Assets : \/ heads'[b] = heads[b] \/ heads'[b] = NotCached
                        \/ Imported(b) /\ heads'[b] = Stored(b)
  BY <1>1
<1>9. ASSUME NEW b \in Assets, NEW r \in Requests
      PROVE  \/ answers'[b][r] = answers[b][r]
             \/ answers[b][r] = NoAnswer /\ answers'[b][r].outcome = "no-op"
  <2>1. answers[a][m.request] = NoAnswer
    BY DEF NoOp, Record, Fresh
  <2>2. answer.outcome = "no-op"
    OBVIOUS
  <2> HIDE DEF answer
  <2> QED BY <1>3, <1>5, <2>1, <2>2 DEF IInv, TypeOK
<1>10. HeadsKept
  BY DEF NoOp, HeadsKept
<1> QED BY <1>1, <1>6, <1>7, <1>8, <1>9, <1>10 DEF StaysPut, NoOp

LEMMA ReadHeadStaysPut ==
    ASSUME IInv, NEW a \in Assets, ReadHead(a)
    PROVE  StaysPut
<1>1. /\ heads' \in [Assets -> HeadRecord \union {NotCached}]
      /\ heads'[a] = Stored(a)
      /\ \A b \in Assets : b # a => heads'[b] = heads[b] \/ heads'[b] = NotCached
  BY KeepStored DEF ReadHead
<1>2. \A b \in Assets : \/ heads'[b] = heads[b] \/ heads'[b] = NotCached
                        \/ Imported(b) /\ heads'[b] = Stored(b)
  BY <1>1 DEF ReadHead
<1>3. HeadsKept
  BY DEF ReadHead, HeadsKept
<1> QED BY <1>1, <1>2, <1>3 DEF StaysPut, ReadHead, catalog, IInv, TypeOK

LEMMA VersionsStayPut ==
    ASSUME IInv, NEW a \in Assets, NEW n \in Names,
           \/ \E e \in EntryIds : CreateVersion(a, n, e)
           \/ CreateVersionHere(a, n)
           \/ DeleteVersion(a, n)
    PROVE  StaysPut
<1>1. CASE \E e \in EntryIds : CreateVersion(a, n, e)
  <2>1. PICK e \in EntryIds : CreateVersion(a, n, e)
    BY <1>1
  <2>2. versions' = [versions EXCEPT ![a][n] = e] /\ versions[a][n] = None
    BY <2>1 DEF CreateVersion, NameFree
  <2>3. versions' \in [Assets -> [Names -> EntryIds \union {None}]]
    BY <2>2 DEF IInv, TypeOK
  <2>4. \A b \in Assets, nn \in Names :
           versions'[b][nn] = versions[b][nn] \/ versions[b][nn] = None
    BY <2>2 DEF IInv, TypeOK
  <2>5. HeadsKept
    BY <2>1 DEF CreateVersion, HeadsKept
  <2> QED BY <2>1, <2>3, <2>4, <2>5 DEF CreateVersion, StaysPut, IInv, TypeOK
<1>2. CASE CreateVersionHere(a, n)
  <2>1. /\ heads' \in [Assets -> HeadRecord \union {NotCached}]
        /\ heads'[a] = Stored(a)
        /\ \A b \in Assets : b # a => heads'[b] = heads[b] \/ heads'[b] = NotCached
    BY <1>2, KeepStored DEF CreateVersionHere
  <2>2. HeadOf(a).current \in EntryIds
    BY <1>2, HeadIsStored, StoredFacts, StoredTyped DEF IInv, CreateVersionHere
  <2>3. versions' \in [Assets -> [Names -> EntryIds \union {None}]]
    BY <1>2, <2>2 DEF CreateVersionHere, IInv, TypeOK
  <2>4. \A b \in Assets : \/ heads'[b] = heads[b] \/ heads'[b] = NotCached
                          \/ Imported(b) /\ heads'[b] = Stored(b)
    BY <1>2, <2>1 DEF CreateVersionHere
  <2>5. versions' = [versions EXCEPT ![a][n] = HeadOf(a).current] /\ versions[a][n] = None
    BY <1>2 DEF CreateVersionHere, NameFree
  <2>6. \A b \in Assets, nn \in Names :
           versions'[b][nn] = versions[b][nn] \/ versions[b][nn] = None
    BY <2>5 DEF IInv, TypeOK
  <2>7. HeadsKept
    BY <1>2 DEF CreateVersionHere, HeadsKept
  <2> QED BY <1>2, <2>1, <2>3, <2>4, <2>6, <2>7 DEF StaysPut, CreateVersionHere, IInv, TypeOK
<1>3. CASE DeleteVersion(a, n)
  <2>1. HeadsKept
    BY <1>3 DEF DeleteVersion, HeadsKept
  <2> QED BY <1>3, <2>1 DEF DeleteVersion, StaysPut, IInv, TypeOK
<1> QED BY <1>1, <1>2, <1>3

LEMMA ReopenStaysPut ==
    ASSUME IInv, Reopen
    PROVE  StaysPut
<1>1. HeadsKept
  BY DEF Reopen, HeadsKept
<1> QED BY <1>1 DEF Reopen, StaysPut, catalog, IInv, TypeOK

\* An import gives an asset that has no row its first entry.
LEMMA ImportStep ==
    ASSUME IInv, NEW a \in Assets, Import(a)
    PROVE  IInv'
<1> DEFINE first == [stack |-> Original, parent |-> None, target |-> None,
                     request |-> None, base |-> 0, result |-> 0]
<1>1. first \in Entry
  BY HistoryAssumption DEF Entry, Revisions
<1>2. /\ entries'[a] = <<first>>
      /\ current'[a] = 1
      /\ \A b \in Assets : b # a => entries'[b] = entries[b] /\ current'[b] = current[b]
  BY DEF Import, IInv, TypeOK
<1>3. /\ <<first>> \in Seq(Entry)
      /\ Len(<<first>>) = 1
      /\ <<first>>[1] = first
  <2> HIDE DEF first
  <2> QED BY <1>1
<1>4. first.parent = None
  OBVIOUS
<1> HIDE DEF first
<1>5. 1 \in EntryIds /\ 1 <= MaxEntries
  BY HistoryAssumption DEF EntryIds
<1>6. TypeOK'
  <2>1. entries' \in [Assets -> Seq(Entry)]
    BY <1>3 DEF Import, IInv, TypeOK, first
  <2>2. \A b \in Assets : Len(entries'[b]) <= MaxEntries
    BY <1>2, <1>3, <1>5 DEF IInv, TypeOK
  <2>3. current' \in [Assets -> EntryIds \union {None}]
    BY <1>5 DEF Import, IInv, TypeOK
  <2> QED BY <2>1, <2>2, <2>3 DEF Import, IInv, TypeOK
<1>7. ~Cached(a) /\ redo[a] = <<>>
  BY DEF Import, IInv, Grounded
<1>8. HeadsMatch'
  <2> SUFFICES ASSUME NEW b \in Assets, Cached(b)'
               PROVE  heads'[b] = Stored(b)'
    BY DEF HeadsMatch
  <2>1. Cached(b) /\ heads'[b] = heads[b] /\ b # a
    BY <1>7 DEF Cached, NotCached, Import
  <2>2. Stored(b)' = Stored(b)
    BY <1>2, <2>1 DEF Stored, Import
  <2> QED BY <2>1, <2>2 DEF IInv, HeadsMatch
<1>9. Grounded'
  BY <1>2, <1>3 DEF IInv, Grounded, Imported, Cached, NotCached, Import
<1>10. Earlier'
  <2> SUFFICES ASSUME NEW b \in Assets, NEW e \in 1 .. Len(entries'[b])
               PROVE  entries'[b][e].parent < e
    BY DEF Earlier
  <2>1. CASE b = a
    BY <1>2, <1>3, <1>4, <2>1 DEF None
  <2>2. CASE b # a
    BY <1>2, <2>2 DEF IInv, Earlier
  <2> QED BY <2>1, <2>2
<1>11. RedoIsPath'
  <2> SUFFICES ASSUME NEW b \in Assets, Imported(b)', NEW i \in 1 .. Len(redo'[b])
               PROVE  /\ redo'[b][i] \in 1 .. Len(entries'[b])
                      /\ entries'[b][redo'[b][i]].parent =
                           IF i = Len(redo'[b]) THEN current'[b] ELSE redo'[b][i + 1]
    BY DEF RedoIsPath
  <2>1. redo'[b] = redo[b] /\ b # a
    BY <1>7 DEF Import
  <2>2. current'[b] = current[b] /\ entries'[b] = entries[b] /\ Imported(b)
    BY <1>2, <2>1 DEF Imported
  <2>3. i \in 1 .. Len(redo[b])
    BY <2>1
  <2>4. /\ redo[b][i] \in 1 .. Len(entries[b])
        /\ entries[b][redo[b][i]].parent =
             IF i = Len(redo[b]) THEN current[b] ELSE redo[b][i + 1]
    BY <2>2, <2>3 DEF IInv, RedoIsPath
  <2> QED BY <2>1, <2>2, <2>4
<1> QED BY <1>6, <1>8, <1>9, <1>10, <1>11 DEF IInv

-----------------------------------------------------------------------------
\* Every step is one of four shapes.

\* Where an undo goes, and where a redo does.
GoesBack(a, to, undone) ==
    /\ to = entries[a][current[a]].parent
    /\ undone = Append(redo[a], current[a])

GoesForward(a, to, undone) ==
    /\ redo[a] # <<>>
    /\ to = ToRedo(redo[a])
    /\ undone = SubSeq(redo[a], 1, Len(redo[a]) - 1)

Navigates(a, m) ==
    /\ Imported(a) /\ revision[a] < MaxRevision /\ Fresh(a, m)
    /\ m.expected = revision[a]
    /\ \E to \in EntryIds, undone \in Seq(EntryIds) :
          /\ to \in 1 .. Len(entries[a])
          /\ IsPath(a, to, undone)
          /\ GoesBack(a, to, undone) \/ GoesForward(a, to, undone)
          /\ Navigate(a, m, to, undone)

Appends(a, m) ==
    /\ Imported(a) /\ revision[a] < MaxRevision /\ Fresh(a, m)
    /\ m.expected = revision[a]
    /\ \E stack \in Stacks, target \in EntryIds \union {None} :
          /\ target # None => /\ target \in 1 .. Len(entries[a])
                              /\ entries[a][target].stack = stack
          /\ AppendEntry(a, m, stack, target)

LEMMA OperationTyped ==
    ASSUME NEW m \in Messages
    PROVE  /\ m.operation.stack \in Stacks
           /\ m.operation.kind = "restore" => m.operation.target \in EntryIds
  BY HistoryAssumption DEF Messages, Operations

LEMMA AcceptedFacts ==
    ASSUME IInv, NEW a \in Assets, NEW m \in Messages, NEW k, Accepted(a, m, k)
    PROVE  /\ Imported(a) /\ revision[a] < MaxRevision /\ Fresh(a, m)
           /\ m.expected = revision[a]
           /\ m.operation.kind = k
           /\ HeadOf(a).current = current[a]
           /\ HeadOf(a).redo = redo[a]
  BY HeadIsStored, StoredFacts DEF Accepted, ExpectedRevision, IInv

LEMMA HandleShapes ==
    ASSUME IInv, NEW a \in Assets, NEW m \in Messages, Handle(a, m)
    PROVE  StaysPut \/ Navigates(a, m) \/ Appends(a, m)
<1>1. CASE Commit(a, m)
  <2>1. Accepted(a, m, "commit")
    BY <1>1 DEF Commit
  <2>2. NoOp(a, m) \/ AppendEntry(a, m, m.operation.stack, None)
    BY <1>1 DEF Commit
  <2>3. CASE NoOp(a, m)
    BY <2>1, <2>3, AcceptedFacts, NoOpStaysPut
  <2>4. CASE AppendEntry(a, m, m.operation.stack, None)
    BY <2>1, <2>4, AcceptedFacts, OperationTyped DEF Appends
  <2> QED BY <2>2, <2>3, <2>4
<1>2. CASE Undo(a, m)
  <2>1. Accepted(a, m, "undo")
    BY <1>2 DEF Undo
  <2>2. \/ NoOp(a, m)
        \/ /\ entries[a][current[a]].parent # None
           /\ Navigate(a, m, entries[a][current[a]].parent,
                       Append(redo[a], current[a]))
    BY <1>2, <2>1, AcceptedFacts DEF Undo, Undone
  <2>3. CASE NoOp(a, m)
    BY <2>1, <2>3, AcceptedFacts, NoOpStaysPut
  <2>4. CASE /\ entries[a][current[a]].parent # None
             /\ Navigate(a, m, entries[a][current[a]].parent,
                         Append(redo[a], current[a]))
    BY <2>1, <2>4, AcceptedFacts, UndoNavigates DEF Navigates, GoesBack
  <2> QED BY <2>2, <2>3, <2>4
<1>3. CASE Redo(a, m)
  <2>1. Accepted(a, m, "redo")
    BY <1>3 DEF Redo
  <2>2. \/ NoOp(a, m)
        \/ /\ redo[a] # <<>>
           /\ Navigate(a, m, ToRedo(redo[a]), SubSeq(redo[a], 1, Len(redo[a]) - 1))
    BY <1>3, <2>1, AcceptedFacts DEF Redo
  <2>3. CASE NoOp(a, m)
    BY <2>1, <2>3, AcceptedFacts, NoOpStaysPut
  <2>4. CASE /\ redo[a] # <<>>
             /\ Navigate(a, m, ToRedo(redo[a]), SubSeq(redo[a], 1, Len(redo[a]) - 1))
    BY <2>1, <2>4, AcceptedFacts, RedoNavigates DEF Navigates, GoesForward
  <2> QED BY <2>2, <2>3, <2>4
<1>4. CASE Restore(a, m)
  <2> DEFINE target == m.operation.target
  <2>1. Accepted(a, m, "restore")
    BY <1>4 DEF Restore
  <2>2. target \in EntryIds /\ target <= Len(entries[a])
    BY <1>4, <2>1, AcceptedFacts, OperationTyped DEF Restore
  <2>3. Len(entries[a]) \in Nat
    BY DEF IInv, TypeOK
  <2>4. target \in 1 .. Len(entries[a])
    BY <2>2, <2>3 DEF EntryIds
  <2>5. entries[a][target].stack \in Stacks
    BY <2>4, EntryTyped DEF IInv
  <2>6. NoOp(a, m) \/ AppendEntry(a, m, entries[a][target].stack, target)
    BY <1>4 DEF Restore
  <2>7. CASE NoOp(a, m)
    BY <2>1, <2>7, AcceptedFacts, NoOpStaysPut
  <2>8. CASE AppendEntry(a, m, entries[a][target].stack, target)
    BY <2>1, <2>2, <2>4, <2>5, <2>8, AcceptedFacts DEF Appends
  <2> QED BY <2>6, <2>7, <2>8
<1> QED BY <1>1, <1>2, <1>3, <1>4 DEF Handle

LEMMA StepShapes ==
    ASSUME IInv, [Next]_vars
    PROVE  \/ StaysPut
           \/ \E a \in Assets : Import(a)
           \/ \E a \in Assets, m \in Messages : Navigates(a, m) \/ Appends(a, m)
<1>1. CASE UNCHANGED vars
  <2>1. HeadsKept
    BY <1>1 DEF vars, HeadsKept
  <2> QED BY <1>1, <2>1 DEF vars, catalog, StaysPut, IInv, TypeOK
<1>2. CASE Reopen
  BY <1>2, ReopenStaysPut
<1>3. ASSUME NEW a \in Assets, ReadHead(a)
      PROVE  StaysPut
  BY <1>3, ReadHeadStaysPut
<1>4. ASSUME NEW a \in Assets, NEW m \in Messages, Handle(a, m)
      PROVE  StaysPut \/ Navigates(a, m) \/ Appends(a, m)
  BY <1>4, HandleShapes
<1>5. ASSUME NEW a \in Assets, NEW n \in Names,
             \/ \E e \in EntryIds : CreateVersion(a, n, e)
             \/ CreateVersionHere(a, n)
             \/ DeleteVersion(a, n)
      PROVE  StaysPut
  BY <1>5, VersionsStayPut
<1> QED BY <1>1, <1>2, <1>3, <1>4, <1>5 DEF Next

LEMMA IInvInit == Init => IInv
<1> SUFFICES ASSUME Init PROVE IInv
  OBVIOUS
<1>1. TypeOK
  BY HistoryAssumption DEF Init, TypeOK, Revisions
<1>2. \A a \in Assets : /\ entries[a] = <<>> /\ redo[a] = <<>>
                        /\ heads[a] = NotCached
                        /\ current[a] = None /\ revision[a] = 0
  BY DEF Init
<1>3. HeadsMatch /\ Grounded /\ Earlier /\ RedoIsPath
  BY <1>2 DEF HeadsMatch, Grounded, Earlier, RedoIsPath, Imported, Cached
<1> QED BY <1>1, <1>3 DEF IInv

LEMMA IInvStep == IInv /\ [Next]_vars => IInv'
<1> SUFFICES ASSUME IInv, [Next]_vars PROVE IInv'
  OBVIOUS
<1>1. CASE StaysPut
  BY <1>1, StaysPutStep
<1>2. ASSUME NEW a \in Assets, Import(a)
      PROVE  IInv'
  BY <1>2, ImportStep
<1>3. ASSUME NEW a \in Assets, NEW m \in Messages, Navigates(a, m)
      PROVE  IInv'
  BY <1>3, NavigateStep DEF Navigates
<1>4. ASSUME NEW a \in Assets, NEW m \in Messages, Appends(a, m)
      PROVE  IInv'
  BY <1>4, AppendStep DEF Appends
<1> QED BY <1>1, <1>2, <1>3, <1>4, StepShapes

LEMMA Invariance == Spec => []IInv
  BY IInvInit, IInvStep, PTL DEF Spec

\* Every variable keeps its type.
THEOREM TypeCorrect == Spec => []TypeOK
<1>1. IInv => TypeOK
  BY DEF IInv
<1> QED BY Invariance, <1>1, PTL

\* Redo is never a jump: what it makes current was made from what is.
THEOREM RedoCorrect == Spec => []RedoIsPath
<1>1. IInv => RedoIsPath
  BY DEF IInv
<1> QED BY Invariance, <1>1, PTL

-----------------------------------------------------------------------------
\* What is kept on record: the moves of a head follow one another, the
\* entries hang together as a tree, each answer names its entry, and
\* nothing retained is lost.

\* A step that moves a's head, told by what it did to the records.
MovesHead(a, m) ==
    /\ IInv
    /\ Imported(a) /\ Fresh(a, m) /\ m.expected = revision[a]
    /\ \E to \in EntryIds, undone \in Seq(EntryIds),
          outcome \in {"applied", "navigated"} :
          HeadMoved(a, m, outcome, to, undone)

LEMMA NavigatesFacts ==
    ASSUME IInv, NEW a \in Assets, NEW m \in Messages, Navigates(a, m)
    PROVE  /\ entries' = entries
           /\ \E to \in EntryIds, undone \in Seq(EntryIds) :
                 /\ to \in 1 .. Len(entries[a])
                 /\ GoesBack(a, to, undone) \/ GoesForward(a, to, undone)
                 /\ HeadMoved(a, m, "navigated", to, undone)
<1>1. PICK to \in EntryIds, undone \in Seq(EntryIds) :
           /\ to \in 1 .. Len(entries[a])
           /\ GoesBack(a, to, undone) \/ GoesForward(a, to, undone)
           /\ Navigate(a, m, to, undone)
  BY DEF Navigates
<1>2. MoveHead(a, m, "navigated", to, undone) /\ entries' = entries
  BY <1>1 DEF Navigate
<1>3. Imported(a) /\ revision[a] < MaxRevision /\ Fresh(a, m)
  BY DEF Navigates
<1>4. HeadMoved(a, m, "navigated", to, undone)
  BY <1>2, <1>3, MoveHeadFacts
<1> QED BY <1>1, <1>2, <1>4

LEMMA AppendsFacts ==
    ASSUME IInv, NEW a \in Assets, NEW m \in Messages, Appends(a, m)
    PROVE  \E stack \in Stacks, target \in EntryIds \union {None} :
              /\ target # None => /\ target \in 1 .. Len(entries[a])
                                  /\ entries[a][target].stack = stack
              /\ EntryAppended(a, m, stack, target)
  BY AppendEntryFacts DEF Appends

LEMMA MovesHeadShape ==
    ASSUME IInv, NEW a \in Assets, NEW m \in Messages,
           Navigates(a, m) \/ Appends(a, m)
    PROVE  MovesHead(a, m)
<1>1. CASE Navigates(a, m)
  <2>1. \E to \in EntryIds, undone \in Seq(EntryIds) :
           HeadMoved(a, m, "navigated", to, undone)
    BY <1>1, NavigatesFacts
  <2> QED BY <1>1, <2>1 DEF MovesHead, Navigates
<1>2. CASE Appends(a, m)
  <2>1. /\ Len(entries[a]) + 1 \in EntryIds
        /\ HeadMoved(a, m, "applied", Len(entries[a]) + 1, <<>>)
    BY <1>2, AppendsFacts DEF EntryAppended
  <2>2. <<>> \in Seq(EntryIds)
    OBVIOUS
  <2> QED BY <1>2, <2>1, <2>2 DEF MovesHead, Appends
<1> QED BY <1>1, <1>2

\* What a move of a's head does to moves, answers and revision, field by
\* field.
RecordsMoved(a, m, outcome, to) ==
    /\ revision'[a] = revision[a] + 1
    /\ current'[a] = to
    /\ Len(moves'[a]) = Len(moves[a]) + 1
    /\ \A i \in 1 .. Len(moves[a]) : moves'[a][i] = moves[a][i]
    /\ moves'[a][Len(moves[a]) + 1].request = m.request
    /\ moves'[a][Len(moves[a]) + 1].expected = m.expected
    /\ moves'[a][Len(moves[a]) + 1].from = current[a]
    /\ moves'[a][Len(moves[a]) + 1].to = to
    /\ answers'[a][m.request].revision = revision[a] + 1
    /\ answers'[a][m.request].current = to
    /\ answers'[a][m.request].outcome = outcome
    /\ \A b \in Assets, r \in Requests :
          (b # a \/ r # m.request) => answers'[b][r] = answers[b][r]
    /\ \A b \in Assets : b # a => /\ revision'[b] = revision[b]
                                  /\ current'[b] = current[b]
                                  /\ moves'[b] = moves[b]

LEMMA MovedRecords ==
    ASSUME IInv, NEW a \in Assets, NEW m \in Messages,
           NEW to \in EntryIds, NEW undone, NEW outcome,
           HeadMoved(a, m, outcome, to, undone)
    PROVE  RecordsMoved(a, m, outcome, to)
<1> DEFINE answer == [operation |-> m.operation, expected |-> m.expected,
                      outcome |-> outcome, revision |-> revision[a] + 1,
                      current |-> to]
           move == [request |-> m.request, expected |-> m.expected,
                    from |-> current[a], to |-> to]
<1>1. /\ current' = [current EXCEPT ![a] = to]
      /\ revision' = [revision EXCEPT ![a] = revision[a] + 1]
      /\ moves' = [moves EXCEPT ![a] = Append(@, move)]
      /\ answers' = [answers EXCEPT ![a][m.request] = answer]
  BY DEF HeadMoved
<1>2. /\ answer.revision = revision[a] + 1
      /\ answer.current = to
      /\ answer.outcome = outcome
  OBVIOUS
<1>3. /\ move.request = m.request
      /\ move.expected = m.expected
      /\ move.from = current[a]
      /\ move.to = to
  OBVIOUS
<1>4. moves[a] \in Seq(Move) /\ m.request \in Requests
  BY DEF IInv, TypeOK, Messages
<1>5. \A S : moves[a] \in Seq(S) /\ move \in S =>
         /\ Len(Append(moves[a], move)) = Len(moves[a]) + 1
         /\ \A i \in 1 .. Len(moves[a]) : Append(moves[a], move)[i] = moves[a][i]
         /\ Append(moves[a], move)[Len(moves[a]) + 1] = move
  <2> HIDE DEF move
  <2> QED BY AppendProperties
<1>6. moves[a] \in Seq(Move \union {move}) /\ move \in Move \union {move}
  <2> HIDE DEF move
  <2> QED BY <1>4
<1> HIDE DEF answer, move
<1>7. /\ moves'[a] = Append(moves[a], move)
      /\ \A b \in Assets : b # a => moves'[b] = moves[b]
  BY <1>1 DEF IInv, TypeOK
<1>8. /\ answers'[a][m.request] = answer
      /\ \A b \in Assets, r \in Requests :
            (b # a \/ r # m.request) => answers'[b][r] = answers[b][r]
  BY <1>1, <1>4 DEF IInv, TypeOK
<1>9. /\ revision'[a] = revision[a] + 1
      /\ current'[a] = to
      /\ \A b \in Assets : b # a => /\ revision'[b] = revision[b]
                                    /\ current'[b] = current[b]
  BY <1>1 DEF IInv, TypeOK
<1> QED BY <1>2, <1>3, <1>5, <1>6, <1>7, <1>8, <1>9 DEF RecordsMoved

-----------------------------------------------------------------------------
\* Moves of a head.

\* MovesChain for one asset.
ChainOf(a) ==
    /\ Len(moves[a]) = revision[a]
    /\ \A i \in 1 .. Len(moves[a]) :
         /\ moves[a][i].expected = i - 1
         /\ moves[a][i].from = HeadAt(a, i - 1)
         /\ answers[a][moves[a][i].request].revision = i
         /\ answers[a][moves[a][i].request].current = moves[a][i].to
         /\ answers[a][moves[a][i].request].outcome # "no-op"
         /\ \A j \in 1 .. i - 1 : moves[a][j].request # moves[a][i].request
    /\ Imported(a) => current[a] = HeadAt(a, revision[a])

LEMMA MovesChainIs == MovesChain <=> \A a \in Assets : ChainOf(a)
  BY DEF MovesChain, ChainOf

LEMMA LogTyped ==
    ASSUME TypeOK, NEW a \in Assets, NEW i \in 1 .. Len(moves[a])
    PROVE  /\ moves[a][i] \in Move
           /\ moves[a][i].request \in Requests
           /\ moves[a][i].to \in EntryIds
           /\ Len(moves[a]) \in Nat
<1>1. moves[a] \in Seq(Move)
  BY DEF TypeOK
<1>2. moves[a][i] \in Move
  BY <1>1, ElementOfSeq
<1> QED BY <1>1, <1>2 DEF Move

\* An asset whose records a step leaves alone.
LEMMA ChainKept ==
    ASSUME TypeOK, NEW a \in Assets, ChainOf(a),
           moves'[a] = moves[a], revision'[a] = revision[a],
           current'[a] = current[a],
           \A r \in Requests : answers[a][r] # NoAnswer => answers'[a][r] = answers[a][r],
           entries'[a] = entries[a]
    PROVE  ChainOf(a)'
<1>1. ASSUME NEW i \in 1 .. Len(moves[a])
      PROVE  answers'[a][moves[a][i].request] = answers[a][moves[a][i].request]
  <2>1. moves[a][i].request \in Requests /\ i # 0
    BY LogTyped
  <2>2. answers[a][moves[a][i].request].revision = i
    BY DEF ChainOf
  <2>3. answers[a][moves[a][i].request] # NoAnswer
    BY <2>1, <2>2 DEF NoAnswer
  <2> QED BY <2>1, <2>3
<1>2. \A k : HeadAt(a, k)' = HeadAt(a, k)
  BY DEF HeadAt
<1>3. Imported(a)' => current'[a] = HeadAt(a, revision[a])
  BY DEF ChainOf, Imported
<1> QED BY <1>1, <1>2, <1>3 DEF ChainOf

LEMMA ChainMoved ==
    ASSUME NEW a \in Assets, NEW m \in Messages, MovesHead(a, m), ChainOf(a)
    PROVE  ChainOf(a)'
<1> DEFINE n == Len(moves[a])
<1>1. PICK to \in EntryIds, undone \in Seq(EntryIds),
           outcome \in {"applied", "navigated"} :
           HeadMoved(a, m, outcome, to, undone)
  BY DEF MovesHead
<1>2. IInv /\ TypeOK
  BY DEF MovesHead, IInv
<1>3. n \in Nat /\ revision[a] = n /\ m.request \in Requests
  BY <1>2 DEF ChainOf, TypeOK, Messages
<1>4. /\ revision'[a] = n + 1
      /\ current'[a] = to
      /\ Len(moves'[a]) = n + 1
      /\ \A i \in 1 .. n : moves'[a][i] = moves[a][i]
      /\ moves'[a][n + 1].request = m.request
      /\ moves'[a][n + 1].expected = m.expected
      /\ moves'[a][n + 1].from = current[a]
      /\ moves'[a][n + 1].to = to
      /\ answers'[a][m.request].revision = n + 1
      /\ answers'[a][m.request].current = to
      /\ answers'[a][m.request].outcome = outcome
      /\ \A r \in Requests : r # m.request => answers'[a][r] = answers[a][r]
  <2>1. RecordsMoved(a, m, outcome, to)
    BY <1>1, <1>2, MovedRecords
  <2> QED BY <1>3, <2>1 DEF RecordsMoved
<1>5. m.expected = n /\ current[a] = HeadAt(a, n) /\ answers[a][m.request] = NoAnswer
  BY <1>3 DEF MovesHead, ChainOf, Fresh
<1>6. \A k \in 0 .. n : HeadAt(a, k)' = HeadAt(a, k)
  BY <1>3, <1>4 DEF HeadAt
<1>7. HeadAt(a, revision[a])' = to
  BY <1>3, <1>4 DEF HeadAt
<1>8. ASSUME NEW i \in 1 .. n
      PROVE  /\ moves[a][i].request \in Requests
             /\ moves[a][i].request # m.request
             /\ answers'[a][moves[a][i].request] = answers[a][moves[a][i].request]
  <2>1. moves[a][i].request \in Requests /\ i # 0
    BY <1>2, LogTyped
  <2>2. answers[a][moves[a][i].request].revision = i
    BY DEF ChainOf
  <2>3. answers[a][moves[a][i].request] # NoAnswer
    BY <2>1, <2>2 DEF NoAnswer
  <2> QED BY <1>4, <1>5, <2>1, <2>3
<1>9. ASSUME NEW i \in 1 .. n + 1
      PROVE  /\ moves'[a][i].expected = i - 1
             /\ moves'[a][i].from = HeadAt(a, i - 1)'
             /\ answers'[a][moves'[a][i].request].revision = i
             /\ answers'[a][moves'[a][i].request].current = moves'[a][i].to
             /\ answers'[a][moves'[a][i].request].outcome # "no-op"
             /\ \A j \in 1 .. i - 1 : moves'[a][j].request # moves'[a][i].request
  <2>1. CASE i = n + 1
    <3>1. /\ moves'[a][i].expected = i - 1
          /\ moves'[a][i].from = HeadAt(a, i - 1)'
      BY <1>3, <1>4, <1>5, <1>6, <2>1
    <3>2. /\ answers'[a][moves'[a][i].request].revision = i
          /\ answers'[a][moves'[a][i].request].current = moves'[a][i].to
          /\ answers'[a][moves'[a][i].request].outcome # "no-op"
      BY <1>4, <2>1
    <3>3. \A j \in 1 .. i - 1 : moves'[a][j].request # moves'[a][i].request
      BY <1>3, <1>4, <1>8, <2>1
    <3> QED BY <3>1, <3>2, <3>3
  <2>2. CASE i # n + 1
    <3>1. i \in 1 .. n /\ i - 1 \in 0 .. n /\ \A j \in 1 .. i - 1 : j \in 1 .. n
      BY <1>3, <2>2
    <3>2. /\ moves[a][i].expected = i - 1
          /\ moves[a][i].from = HeadAt(a, i - 1)
          /\ answers[a][moves[a][i].request].revision = i
          /\ answers[a][moves[a][i].request].current = moves[a][i].to
          /\ answers[a][moves[a][i].request].outcome # "no-op"
          /\ \A j \in 1 .. i - 1 : moves[a][j].request # moves[a][i].request
      BY <3>1 DEF ChainOf
    <3>3. moves'[a][i] = moves[a][i] /\ \A j \in 1 .. i - 1 : moves'[a][j] = moves[a][j]
      BY <1>4, <3>1
    <3> QED BY <1>6, <1>8, <3>1, <3>2, <3>3
  <2> QED BY <2>1, <2>2
<1> QED BY <1>4, <1>7, <1>9 DEF ChainOf

LEMMA MovesChainStep == IInv /\ MovesChain /\ [Next]_vars => MovesChain'
<1> SUFFICES ASSUME IInv, MovesChain, [Next]_vars, NEW b \in Assets
             PROVE  ChainOf(b)'
  BY MovesChainIs DEF MovesChain, ChainOf
<1>1. ChainOf(b) /\ TypeOK
  BY MovesChainIs DEF IInv
<1>2. CASE StaysPut
  <2>1. /\ moves'[b] = moves[b] /\ revision'[b] = revision[b] /\ current'[b] = current[b]
        /\ entries'[b] = entries[b]
        /\ \A r \in Requests : answers[b][r] # NoAnswer => answers'[b][r] = answers[b][r]
    BY <1>2 DEF StaysPut
  <2> QED BY <1>1, <2>1, ChainKept
<1>3. ASSUME NEW a \in Assets, Import(a)
      PROVE  ChainOf(b)'
  <2>1. CASE b = a
    <3>1. moves'[a] = moves[a] /\ revision'[a] = revision[a] /\ answers' = answers
      BY <1>3 DEF Import
    <3>2. revision[a] = 0 /\ current'[a] = 1 /\ Len(moves[a]) = 0
      BY <1>1, <1>3, <2>1 DEF Import, IInv, Grounded, TypeOK, ChainOf
    <3>3. HeadAt(a, 0)' = 1
      BY DEF HeadAt
    <3> QED BY <2>1, <3>1, <3>2, <3>3 DEF ChainOf
  <2>2. CASE b # a
    <3>1. /\ moves'[b] = moves[b] /\ revision'[b] = revision[b] /\ answers' = answers
          /\ current'[b] = current[b] /\ entries'[b] = entries[b]
      BY <1>1, <1>3, <2>2 DEF Import, TypeOK
    <3> QED BY <1>1, <3>1, ChainKept
  <2> QED BY <2>1, <2>2
<1>4. ASSUME NEW a \in Assets, NEW m \in Messages, Navigates(a, m) \/ Appends(a, m)
      PROVE  ChainOf(b)'
  <2>1. MovesHead(a, m)
    BY <1>4, MovesHeadShape
  <2>2. CASE b = a
    BY <1>1, <2>1, <2>2, ChainMoved
  <2>3. CASE b # a
    <3>1. PICK to \in EntryIds, undone \in Seq(EntryIds),
               outcome \in {"applied", "navigated"} :
               HeadMoved(a, m, outcome, to, undone)
      BY <2>1 DEF MovesHead
    <3>2. /\ moves'[b] = moves[b] /\ revision'[b] = revision[b] /\ current'[b] = current[b]
          /\ \A r \in Requests : answers'[b][r] = answers[b][r]
      BY <2>3, <3>1, MovedRecords DEF RecordsMoved
    <3>3. entries'[b] = entries[b]
      BY <1>4, <2>3, NavigatesFacts, AppendsFacts DEF EntryAppended
    <3> QED BY <1>1, <3>2, <3>3, ChainKept
  <2> QED BY <2>2, <2>3
<1> QED BY <1>2, <1>3, <1>4, StepShapes

LEMMA MovesChainInit == Init => MovesChain
<1> SUFFICES ASSUME Init, NEW a \in Assets PROVE ChainOf(a)
  BY MovesChainIs
<1>1. moves[a] = <<>> /\ revision[a] = 0 /\ entries[a] = <<>>
  BY DEF Init
<1> QED BY <1>1 DEF ChainOf, Imported

\* No update is lost and no request is applied twice.
THEOREM MovesChainCorrect == Spec => []MovesChain
  BY Invariance, MovesChainInit, MovesChainStep, PTL DEF Spec

-----------------------------------------------------------------------------
\* The tree of entries.

\* UndoTree for one entry.
InTree(a, e) ==
    LET entry == entries[a][e]
    IN  /\ entry.parent = None <=> e = 1
        /\ entry.parent < e
        /\ e # 1 => /\ entry.result = entry.base + 1
                    /\ entry.result <= revision[a]
                    /\ entry.parent = HeadAt(a, entry.base)
                    /\ e = HeadAt(a, entry.result)
        /\ entry.target # None =>
             /\ entry.target < e
             /\ entries[a][entry.target].stack = entry.stack

LEMMA UndoTreeIs ==
    UndoTree <=> \A a \in Assets : \A e \in 1 .. Len(entries[a]) : InTree(a, e)
  BY DEF UndoTree, InTree

LEMMA EntryFields ==
    ASSUME TypeOK, NEW a \in Assets, NEW e \in 1 .. Len(entries[a])
    PROVE  /\ entries[a][e].base \in Nat
           /\ entries[a][e].result \in Nat
           /\ entries[a][e].target \in EntryIds \union {None}
           /\ e \in Nat
<1>1. entries[a][e] \in Entry
  BY EntryTyped
<1> QED BY <1>1, HistoryAssumption DEF Entry, Revisions

\* An entry stays in the tree while moves are only added.
LEMMA InTreeKept ==
    ASSUME TypeOK, NEW a \in Assets, NEW e \in 1 .. Len(entries[a]), InTree(a, e),
           revision[a] = Len(moves[a]), revision'[a] \in Nat,
           revision'[a] >= revision[a],
           \A f \in 1 .. Len(entries[a]) : entries'[a][f] = entries[a][f],
           \A i \in 1 .. Len(moves[a]) : moves'[a][i] = moves[a][i]
    PROVE  InTree(a, e)'
<1>1. /\ entries[a][e].base \in Nat
      /\ entries[a][e].result \in Nat
      /\ entries[a][e].target \in EntryIds \union {None}
      /\ e \in Nat /\ Len(entries[a]) \in Nat /\ Len(moves[a]) \in Nat
  BY EntryFields DEF TypeOK
<1>2. entries'[a][e] = entries[a][e]
  OBVIOUS
<1>3. e # 1 => /\ HeadAt(a, entries[a][e].base)' = HeadAt(a, entries[a][e].base)
               /\ HeadAt(a, entries[a][e].result)' = HeadAt(a, entries[a][e].result)
               /\ entries[a][e].result <= revision'[a]
  <2> SUFFICES ASSUME e # 1 PROVE
         /\ (IF entries'[a][e].base = 0 THEN 1 ELSE moves'[a][entries'[a][e].base].to)
              = HeadAt(a, entries[a][e].base)
         /\ (IF entries'[a][e].result = 0 THEN 1 ELSE moves'[a][entries'[a][e].result].to)
              = HeadAt(a, entries[a][e].result)
         /\ entries[a][e].result <= revision'[a]
    BY DEF HeadAt
  <2>1. /\ entries[a][e].result = entries[a][e].base + 1
        /\ entries[a][e].result <= revision[a]
    BY DEF InTree
  <2>2. revision[a] \in Nat
    BY <1>1
  <2>3. entries[a][e].base <= revision[a]
    BY <1>1, <2>1, <2>2
  <2>4. \A k \in Nat : k <= revision[a] /\ k # 0 => moves'[a][k] = moves[a][k]
    BY <1>1
  <2>5. entries[a][e].base # 0 => moves'[a][entries[a][e].base] = moves[a][entries[a][e].base]
    BY <1>1, <2>3, <2>4
  <2>6. moves'[a][entries[a][e].result] = moves[a][entries[a][e].result]
    BY <1>1, <2>1, <2>4
  <2>7. entries[a][e].result <= revision'[a] /\ entries[a][e].result # 0
    BY <1>1, <2>1, <2>2
  <2> QED BY <1>2, <2>5, <2>6, <2>7 DEF HeadAt
<1>4. entries[a][e].target # None =>
         /\ entries[a][e].target < e
         /\ entries'[a][entries[a][e].target].stack = entries[a][e].stack
  <2> SUFFICES ASSUME entries[a][e].target # None
               PROVE  /\ entries[a][e].target < e
                      /\ entries'[a][entries[a][e].target].stack = entries[a][e].stack
    OBVIOUS
  <2>1. /\ entries[a][e].target < e
        /\ entries[a][entries[a][e].target].stack = entries[a][e].stack
    BY DEF InTree
  <2>2. entries[a][e].target \in 1 .. Len(entries[a])
    BY <1>1, <2>1, HistoryAssumption DEF EntryIds
  <2> QED BY <2>1, <2>2
<1> QED BY <1>1, <1>2, <1>3, <1>4 DEF InTree

\* The entry a step appends is in the tree.
LEMMA NewInTree ==
    ASSUME NEW a \in Assets, NEW m \in Messages, MovesHead(a, m), ChainOf(a),
           NEW stack \in Stacks, NEW target \in EntryIds \union {None},
           target # None => /\ target \in 1 .. Len(entries[a])
                            /\ entries[a][target].stack = stack,
           EntryAppended(a, m, stack, target),
           NEW e, e = Len(entries[a]) + 1
    PROVE  InTree(a, e)'
<1>1. IInv /\ TypeOK /\ Imported(a)
  BY DEF MovesHead, IInv
<1>2. Len(entries[a]) \in Nat /\ revision[a] \in Nat /\ Len(moves[a]) = revision[a]
  BY <1>1, HistoryAssumption DEF TypeOK, ChainOf, Revisions
<1>3. current[a] \in 1 .. Len(entries[a]) /\ current[a] = HeadAt(a, revision[a])
  BY <1>1 DEF IInv, Grounded, ChainOf
<1>4. RecordsMoved(a, m, "applied", e)
  BY <1>1, MovedRecords DEF EntryAppended
<1>5. entries'[a][e] = NewEntry(a, m, stack, target)
  BY DEF EntryAppended
<1>6. /\ entries'[a][e].parent = current[a]
      /\ entries'[a][e].base = revision[a]
      /\ entries'[a][e].result = revision[a] + 1
      /\ entries'[a][e].target = target
      /\ entries'[a][e].stack = stack
  BY <1>5 DEF NewEntry
<1>7. /\ revision'[a] = revision[a] + 1
      /\ \A i \in 1 .. Len(moves[a]) : moves'[a][i] = moves[a][i]
      /\ moves'[a][revision[a] + 1].to = e
  BY <1>2, <1>4 DEF RecordsMoved
<1>8. (IF entries'[a][e].base = 0 THEN 1 ELSE moves'[a][entries'[a][e].base].to) = current[a]
  BY <1>2, <1>3, <1>6, <1>7 DEF HeadAt
<1>9. (IF entries'[a][e].result = 0 THEN 1 ELSE moves'[a][entries'[a][e].result].to) = e
  BY <1>2, <1>6, <1>7
<1>10. HeadAt(a, entries[a][e].base)' = current[a] /\ HeadAt(a, entries[a][e].result)' = e
  BY <1>8, <1>9 DEF HeadAt
<1>11. target # None => target < e /\ entries'[a][target].stack = stack
  BY <1>2 DEF EntryAppended
<1> QED BY <1>2, <1>3, <1>6, <1>7, <1>10, <1>11 DEF InTree, None

LEMMA UndoTreeStep == IInv /\ MovesChain /\ UndoTree /\ [Next]_vars => UndoTree'
<1> SUFFICES ASSUME IInv, MovesChain, UndoTree, [Next]_vars,
                    NEW b \in Assets, NEW e \in 1 .. Len(entries'[b])
             PROVE  InTree(b, e)'
  BY UndoTreeIs DEF UndoTree, InTree
<1>1. TypeOK /\ ChainOf(b) /\ \A f \in 1 .. Len(entries[b]) : InTree(b, f)
  BY MovesChainIs, UndoTreeIs DEF IInv
<1>2. revision[b] \in Nat /\ revision[b] = Len(moves[b]) /\ Len(entries[b]) \in Nat
  BY <1>1, HistoryAssumption DEF TypeOK, Revisions, ChainOf
<1>3. CASE entries'[b] = entries[b] /\ moves'[b] = moves[b] /\ revision'[b] = revision[b]
  BY <1>1, <1>2, <1>3, InTreeKept
<1>4. CASE StaysPut
  BY <1>3, <1>4 DEF StaysPut
<1>5. ASSUME NEW a \in Assets, Import(a)
      PROVE  InTree(b, e)'
  <2>1. CASE b = a
    <3>1. entries'[a] = <<[stack |-> Original, parent |-> None, target |-> None,
                           request |-> None, base |-> 0, result |-> 0]>>
      BY <1>1, <1>5 DEF Import, TypeOK
    <3>2. e = 1 /\ entries'[a][1].parent = None /\ entries'[a][1].target = None
      BY <2>1, <3>1
    <3> QED BY <2>1, <3>2 DEF InTree, None
  <2>2. CASE b # a
    BY <1>1, <1>3, <1>5, <2>2 DEF Import, TypeOK
  <2> QED BY <2>1, <2>2
<1>6. ASSUME NEW a \in Assets, NEW m \in Messages, Navigates(a, m) \/ Appends(a, m)
      PROVE  InTree(b, e)'
  <2>1. MovesHead(a, m)
    BY <1>6, MovesHeadShape
  <2>2. PICK to \in EntryIds, undone \in Seq(EntryIds),
             outcome \in {"applied", "navigated"} :
             HeadMoved(a, m, outcome, to, undone)
    BY <2>1 DEF MovesHead
  <2>3. RecordsMoved(a, m, outcome, to)
    BY <2>2, MovedRecords
  <2>4. CASE b # a
    <3>1. entries'[b] = entries[b]
      BY <1>6, <2>4, NavigatesFacts, AppendsFacts DEF EntryAppended
    <3> QED BY <1>3, <2>3, <2>4, <3>1 DEF RecordsMoved
  <2>5. CASE b = a /\ Navigates(a, m)
    <3>1. entries'[b] = entries[b]
      BY <2>5, NavigatesFacts
    <3>2. /\ \A f \in 1 .. Len(entries[b]) : entries'[b][f] = entries[b][f]
          /\ \A i \in 1 .. Len(moves[b]) : moves'[b][i] = moves[b][i]
          /\ revision'[b] = revision[b] + 1
      BY <2>3, <2>5, <3>1 DEF RecordsMoved
    <3>3. e \in 1 .. Len(entries[b]) /\ revision'[b] >= revision[b] /\ revision'[b] \in Nat
      BY <1>2, <3>1, <3>2
    <3> QED BY <1>1, <1>2, <3>2, <3>3, InTreeKept
  <2>6. CASE b = a /\ Appends(a, m)
    <3>1. PICK stack \in Stacks, target \in EntryIds \union {None} :
               /\ target # None => /\ target \in 1 .. Len(entries[a])
                                   /\ entries[a][target].stack = stack
               /\ EntryAppended(a, m, stack, target)
      BY <2>6, AppendsFacts
    <3>2. CASE e = Len(entries[a]) + 1
      BY <1>1, <2>1, <2>6, <3>1, <3>2, NewInTree
    <3>3. CASE e # Len(entries[a]) + 1
      <4>1. /\ \A f \in 1 .. Len(entries[b]) : entries'[b][f] = entries[b][f]
            /\ \A i \in 1 .. Len(moves[b]) : moves'[b][i] = moves[b][i]
            /\ revision'[b] = revision[b] + 1
            /\ Len(entries'[b]) = Len(entries[b]) + 1
        BY <2>3, <2>6, <3>1 DEF RecordsMoved, EntryAppended
      <4>2. e \in 1 .. Len(entries[b]) /\ revision'[b] >= revision[b] /\ revision'[b] \in Nat
        BY <1>2, <2>6, <3>3, <4>1
      <4> QED BY <1>1, <1>2, <4>1, <4>2, InTreeKept
    <3> QED BY <3>2, <3>3
  <2> QED BY <1>6, <2>4, <2>5, <2>6
<1> QED BY <1>4, <1>5, <1>6, StepShapes

LEMMA UndoTreeInit == Init => UndoTree
  BY DEF Init, UndoTree

\* Undo parents lead back to the Original, each entry to the entry that
\* was current when it was made.
THEOREM UndoTreeCorrect == Spec => []UndoTree
  BY Invariance, MovesChainCorrect, UndoTreeInit, UndoTreeStep, PTL DEF Spec

-----------------------------------------------------------------------------
\* Entries and answers.

\* An answer that says an entry was made names one.
AnswersGrounded ==
    \A a \in Assets, r \in Requests :
        answers[a][r].outcome = "applied" =>
            answers[a][r].current \in 1 .. Len(entries[a])

Matched == EntriesMatchAnswers /\ AnswersGrounded

LEMMA NoAnswerFields == NoAnswer.outcome = "none"
  BY DEF NoAnswer

LEMMA MatchedStep == IInv /\ Matched /\ [Next]_vars => Matched'
<1> SUFFICES ASSUME IInv, Matched, [Next]_vars, NEW b \in Assets, NEW r \in Requests
             PROVE  /\ \A e \in 1 .. Len(entries'[b]) :
                          entries'[b][e].request = r <=>
                              /\ answers'[b][r].outcome = "applied"
                              /\ answers'[b][r].current = e
                    /\ answers'[b][r].outcome = "applied" =>
                          answers'[b][r].current \in 1 .. Len(entries'[b])
  BY DEF Matched, EntriesMatchAnswers, AnswersGrounded
<1>1. /\ \A e \in 1 .. Len(entries[b]) :
            entries[b][e].request = r <=>
                /\ answers[b][r].outcome = "applied"
                /\ answers[b][r].current = e
      /\ answers[b][r].outcome = "applied" =>
            answers[b][r].current \in 1 .. Len(entries[b])
  BY DEF Matched, EntriesMatchAnswers, AnswersGrounded
<1>2. CASE /\ entries'[b] = entries[b]
           /\ \/ answers'[b][r] = answers[b][r]
              \/ /\ answers[b][r] = NoAnswer
                 /\ answers'[b][r].outcome # "applied"
  <2>1. CASE answers'[b][r] = answers[b][r]
    BY <1>1, <1>2, <2>1
  <2>2. CASE answers[b][r] = NoAnswer /\ answers'[b][r].outcome # "applied"
    <3>1. \A e \in 1 .. Len(entries[b]) : entries[b][e].request # r
      BY <1>1, <2>2, NoAnswerFields
    <3> QED BY <1>2, <2>2, <3>1
  <2> QED BY <1>2, <2>1, <2>2
<1>3. CASE StaysPut
  BY <1>2, <1>3 DEF StaysPut
<1>4. ASSUME NEW a \in Assets, Import(a)
      PROVE  /\ \A e \in 1 .. Len(entries'[b]) :
                   entries'[b][e].request = r <=>
                       /\ answers'[b][r].outcome = "applied"
                       /\ answers'[b][r].current = e
             /\ answers'[b][r].outcome = "applied" =>
                   answers'[b][r].current \in 1 .. Len(entries'[b])
  <2>1. CASE b = a
    <3>1. entries'[a] = <<[stack |-> Original, parent |-> None, target |-> None,
                           request |-> None, base |-> 0, result |-> 0]>>
      BY <1>4 DEF Import, IInv, TypeOK
    <3>2. /\ Len(entries'[a]) = 1
          /\ entries'[a][1].request = None
      BY <3>1
    <3>3. r # None
      BY HistoryAssumption
    <3>4. entries[a] = <<>> /\ answers'[a][r] = answers[a][r]
      BY <1>4 DEF Import, Imported
    <3>5. Len(entries[a]) = 0
      BY <3>4
    <3>6. answers'[a][r].outcome # "applied"
      BY <1>1, <2>1, <3>4, <3>5
    <3> QED BY <2>1, <3>2, <3>3, <3>6
  <2>2. CASE b # a
    <3>1. entries'[b] = entries[b] /\ answers'[b][r] = answers[b][r]
      BY <1>4, <2>2 DEF Import, IInv, TypeOK
    <3> QED BY <1>2, <3>1
  <2> QED BY <2>1, <2>2
<1>5. ASSUME NEW a \in Assets, NEW m \in Messages, Navigates(a, m)
      PROVE  /\ entries'[b] = entries[b]
             /\ \/ answers'[b][r] = answers[b][r]
                \/ /\ answers[b][r] = NoAnswer
                   /\ answers'[b][r].outcome # "applied"
  <2>1. PICK to \in EntryIds, undone \in Seq(EntryIds) :
             HeadMoved(a, m, "navigated", to, undone)
    BY <1>5, NavigatesFacts
  <2>2. RecordsMoved(a, m, "navigated", to)
    BY <2>1, MovedRecords
  <2>3. answers[a][m.request] = NoAnswer
    BY <1>5 DEF Navigates, Fresh
  <2> QED BY <1>5, <2>2, <2>3, NavigatesFacts DEF RecordsMoved
<1>6. ASSUME NEW a \in Assets, NEW m \in Messages, Appends(a, m)
      PROVE  /\ \A e \in 1 .. Len(entries'[b]) :
                   entries'[b][e].request = r <=>
                       /\ answers'[b][r].outcome = "applied"
                       /\ answers'[b][r].current = e
             /\ answers'[b][r].outcome = "applied" =>
                   answers'[b][r].current \in 1 .. Len(entries'[b])
  <2> DEFINE n == Len(entries[a])
  <2>1. PICK stack \in Stacks, target \in EntryIds \union {None} :
             EntryAppended(a, m, stack, target)
    BY <1>6, AppendsFacts
  <2>2. n \in Nat /\ n + 1 \in EntryIds
    BY <2>1 DEF EntryAppended, IInv, TypeOK
  <2>3. RecordsMoved(a, m, "applied", n + 1)
    <3>1. HeadMoved(a, m, "applied", n + 1, <<>>)
      BY <2>1 DEF EntryAppended
    <3> HIDE DEF n
    <3> QED BY <2>2, <3>1, MovedRecords
  <2>4. answers[a][m.request] = NoAnswer
    BY <1>6 DEF Appends, Fresh
  <2>5. /\ Len(entries'[a]) = n + 1
        /\ entries'[a][n + 1].request = m.request
        /\ \A e \in 1 .. n : entries'[a][e] = entries[a][e]
        /\ \A c \in Assets : c # a => entries'[c] = entries[c]
    BY <2>1 DEF EntryAppended, NewEntry
  <2>6. CASE b # a
    <3>1. entries'[b] = entries[b] /\ answers'[b][r] = answers[b][r]
      BY <2>3, <2>5, <2>6 DEF RecordsMoved
    <3> QED BY <1>2, <3>1
  <2>7. CASE b = a /\ r = m.request
    <3>1. \A e \in 1 .. n : entries[a][e].request # r
      BY <1>1, <2>4, <2>7, NoAnswerFields
    <3>2. answers'[a][r].outcome = "applied" /\ answers'[a][r].current = n + 1
      BY <2>3, <2>7 DEF RecordsMoved
    <3>3. ASSUME NEW e \in 1 .. n + 1
          PROVE  entries'[a][e].request = r <=> e = n + 1
      <4>1. CASE e = n + 1
        BY <2>5, <2>7, <4>1
      <4>2. CASE e # n + 1
        <5>1. e \in 1 .. n
          BY <2>2, <4>2
        <5> QED BY <2>5, <3>1, <4>2, <5>1
      <4> QED BY <4>1, <4>2
    <3>4. n + 1 \in 1 .. n + 1
      BY <2>2
    <3> QED BY <2>5, <2>7, <3>2, <3>3, <3>4
  <2>8. CASE b = a /\ r # m.request
    <3>1. answers'[a][r] = answers[a][r]
      BY <2>3, <2>8 DEF RecordsMoved
    <3>2. ASSUME NEW e \in 1 .. n + 1
          PROVE  entries'[a][e].request = r <=>
                     /\ answers[a][r].outcome = "applied"
                     /\ answers[a][r].current = e
      <4>1. CASE e = n + 1
        BY <1>1, <2>2, <2>5, <2>8, <4>1
      <4>2. CASE e # n + 1
        <5>1. e \in 1 .. n
          BY <2>2, <4>2
        <5> QED BY <1>1, <2>5, <2>8, <5>1
      <4> QED BY <4>1, <4>2
    <3>3. 1 .. n \subseteq 1 .. n + 1
      BY <2>2
    <3> QED BY <1>1, <2>5, <2>8, <3>1, <3>2, <3>3
  <2> QED BY <2>6, <2>7, <2>8
<1> QED BY <1>2, <1>3, <1>4, <1>5, <1>6, StepShapes

LEMMA MatchedInit == Init => Matched
<1> SUFFICES ASSUME Init PROVE Matched
  OBVIOUS
<1>1. \A a \in Assets : entries[a] = <<>> /\ \A r \in Requests : answers[a][r] = NoAnswer
  BY DEF Init
<1> QED BY <1>1, NoAnswerFields DEF Matched, EntriesMatchAnswers, AnswersGrounded

\* Every answer names the entry its request made, and every entry has one.
THEOREM AnswersCorrect == Spec => []EntriesMatchAnswers
<1>1. Matched => EntriesMatchAnswers
  BY DEF Matched
<1> QED BY Invariance, MatchedInit, MatchedStep, <1>1, PTL DEF Spec

-----------------------------------------------------------------------------
\* Nothing retained is lost.

RetainedBy(b) ==
    /\ Len(entries'[b]) >= Len(entries[b])
    /\ SubSeq(entries'[b], 1, Len(entries[b])) = entries[b]
    /\ \A r \in Requests :
          answers[b][r] # NoAnswer => answers'[b][r] = answers[b][r]
    /\ \A n \in Names :
          versions[b][n] # None /\ versions'[b][n] # None =>
              versions'[b][n] = versions[b][n]

LEMMA PrefixKept ==
    ASSUME NEW S, NEW s \in Seq(S), NEW t \in Seq(S), Len(t) >= Len(s),
           \A i \in 1 .. Len(s) : t[i] = s[i]
    PROVE  SubSeq(t, 1, Len(s)) = s
<1>1. Len(s) \in Nat /\ Len(t) \in Nat
  OBVIOUS
<1>2. \A i \in 1 .. Len(s) : t[i] \in S
  BY <1>1, ElementOfSeq
<1>3. /\ SubSeq(t, 1, Len(s)) \in Seq(S)
      /\ Len(SubSeq(t, 1, Len(s))) = Len(s)
      /\ \A i \in 1 .. Len(s) : SubSeq(t, 1, Len(s))[i] = t[i]
  BY <1>1, <1>2, SubSeqProperties
<1> QED BY <1>3, SeqEqual

LEMMA RetainedStep == IInv /\ IInv' /\ [Next]_vars => \A b \in Assets : RetainedBy(b)
<1> SUFFICES ASSUME IInv, IInv', [Next]_vars, NEW b \in Assets
             PROVE  RetainedBy(b)
  OBVIOUS
<1>1. /\ entries[b] \in Seq(Entry) /\ Len(entries[b]) \in Nat
      /\ entries'[b] \in Seq(Entry) /\ Len(entries'[b]) \in Nat
  BY DEF IInv, TypeOK
<1>2. ASSUME Len(entries'[b]) >= Len(entries[b]),
             \A i \in 1 .. Len(entries[b]) : entries'[b][i] = entries[b][i]
      PROVE  SubSeq(entries'[b], 1, Len(entries[b])) = entries[b]
  BY <1>1, <1>2, PrefixKept
<1>3. CASE StaysPut
  <2>1. entries'[b] = entries[b]
    BY <1>3 DEF StaysPut
  <2>2. \A r \in Requests : answers[b][r] # NoAnswer => answers'[b][r] = answers[b][r]
    BY <1>3 DEF StaysPut
  <2>3. \A n \in Names : \/ versions'[b][n] = versions[b][n]
                         \/ versions[b][n] = None \/ versions'[b][n] = None
    BY <1>3 DEF StaysPut
  <2> QED BY <1>1, <1>2, <2>1, <2>2, <2>3 DEF RetainedBy
<1>4. ASSUME NEW a \in Assets, Import(a)
      PROVE  RetainedBy(b)
  <2>1. answers' = answers /\ versions' = versions
    BY <1>4 DEF Import
  <2>2. entries'[b] = entries[b] \/ entries[b] = <<>>
    BY <1>4 DEF Import, Imported, IInv, TypeOK
  <2>3. /\ Len(entries'[b]) >= Len(entries[b])
        /\ \A i \in 1 .. Len(entries[b]) : entries'[b][i] = entries[b][i]
    BY <1>1, <2>2
  <2> QED BY <1>2, <2>1, <2>3 DEF RetainedBy
<1>5. ASSUME NEW a \in Assets, NEW m \in Messages, Navigates(a, m) \/ Appends(a, m)
      PROVE  RetainedBy(b)
  <2>1. MovesHead(a, m)
    BY <1>5, MovesHeadShape
  <2>2. PICK to \in EntryIds, undone \in Seq(EntryIds),
             outcome \in {"applied", "navigated"} :
             HeadMoved(a, m, outcome, to, undone)
    BY <2>1 DEF MovesHead
  <2>3. RecordsMoved(a, m, outcome, to)
    BY <2>2, MovedRecords
  <2>4. versions' = versions
    BY <2>2 DEF HeadMoved
  <2>5. \A r \in Requests : answers[b][r] # NoAnswer => answers'[b][r] = answers[b][r]
    BY <2>1, <2>3 DEF RecordsMoved, MovesHead, Fresh
  <2>6. /\ Len(entries'[b]) >= Len(entries[b])
        /\ \A i \in 1 .. Len(entries[b]) : entries'[b][i] = entries[b][i]
    <3>1. CASE Navigates(a, m)
      BY <1>1, <3>1, NavigatesFacts
    <3>2. CASE Appends(a, m)
      <4>1. PICK stack \in Stacks, target \in EntryIds \union {None} :
                 EntryAppended(a, m, stack, target)
        BY <3>2, AppendsFacts
      <4>2. CASE b = a
        BY <1>1, <4>1, <4>2 DEF EntryAppended
      <4>3. CASE b # a
        BY <1>1, <4>1, <4>3 DEF EntryAppended
      <4> QED BY <4>2, <4>3
    <3> QED BY <1>5, <3>1, <3>2
  <2> QED BY <1>2, <2>4, <2>5, <2>6 DEF RetainedBy
<1> QED BY <1>3, <1>4, <1>5, StepShapes

\* Entries are only added, stored answers stay, versions keep their entry.
THEOREM RetainedCorrect == Spec => Retained
<1>1. IInv /\ IInv' /\ [Next]_vars =>
        [\A a \in Assets :
           /\ Len(entries'[a]) >= Len(entries[a])
           /\ SubSeq(entries'[a], 1, Len(entries[a])) = entries[a]
           /\ \A r \in Requests :
                 answers[a][r] # NoAnswer => answers'[a][r] = answers[a][r]
           /\ \A n \in Names :
                 versions[a][n] # None /\ versions'[a][n] # None =>
                     versions'[a][n] = versions[a][n]]_vars
  BY RetainedStep DEF RetainedBy
<1> QED BY Invariance, <1>1, PTL DEF Spec, Retained

-----------------------------------------------------------------------------
\* The cache.

HeadsFit == IsFiniteSet(HeadsHeld) /\ Cardinality(HeadsHeld) <= CachedHeads

\* Keeping one more head lets one go when the cache is full.
LEMMA KeepFits ==
    ASSUME TypeOK, HeadsFit, NEW a \in Assets, NEW h, Keep(a, h),
           heads'[a] # NotCached
    PROVE  HeadsFit'
<1>1. /\ IsFiniteSet(HeadsHeld) /\ Cardinality(HeadsHeld) \in Nat
      /\ Cardinality(HeadsHeld) <= CachedHeads
  BY FS_CardinalityType DEF HeadsFit
<1>2. CachedHeads \in Nat
  BY HistoryAssumption
<1>3. DOMAIN heads = Assets
  BY DEF TypeOK
<1>4. CASE heads' = [heads EXCEPT ![a] = h] /\ Cached(a)
  <2>1. HeadsHeld' = HeadsHeld
    BY <1>3, <1>4 DEF HeadsHeld, Cached, NotCached
  <2> QED BY <1>1, <2>1 DEF HeadsFit
<1>5. CASE /\ heads' = [heads EXCEPT ![a] = h] /\ ~Cached(a)
           /\ Cardinality(HeadsHeld) < CachedHeads
  <2>1. HeadsHeld' = HeadsHeld \union {a} /\ a \notin HeadsHeld
    BY <1>3, <1>5 DEF HeadsHeld, Cached, NotCached
  <2>2. /\ IsFiniteSet(HeadsHeld \union {a})
        /\ Cardinality(HeadsHeld \union {a}) = Cardinality(HeadsHeld) + 1
    BY <1>1, <2>1, FS_AddElement
  <2> QED BY <1>1, <1>2, <1>5, <2>1, <2>2 DEF HeadsFit
<1>6. ASSUME NEW b \in HeadsHeld, ~Cached(a),
             heads' = [heads EXCEPT ![a] = h, ![b] = NotCached]
      PROVE  HeadsFit'
  <2>1. b \in Assets /\ b # a /\ a \notin HeadsHeld
    BY <1>6 DEF HeadsHeld
  <2>2. HeadsHeld' = (HeadsHeld \ {b}) \union {a}
    BY <1>3, <1>6, <2>1 DEF HeadsHeld, Cached, NotCached
  <2>3. /\ IsFiniteSet(HeadsHeld \ {b})
        /\ Cardinality(HeadsHeld \ {b}) = Cardinality(HeadsHeld) - 1
    BY <1>1, FS_RemoveElement
  <2>4. /\ IsFiniteSet((HeadsHeld \ {b}) \union {a})
        /\ Cardinality((HeadsHeld \ {b}) \union {a}) = Cardinality(HeadsHeld)
    <3> DEFINE rest == HeadsHeld \ {b}
    <3>1. IsFiniteSet(rest) /\ a \notin rest /\ Cardinality(rest) + 1 = Cardinality(HeadsHeld)
      BY <1>1, <2>1, <2>3
    <3> HIDE DEF rest
    <3>2. /\ IsFiniteSet(rest \union {a})
          /\ Cardinality(rest \union {a}) = Cardinality(rest) + 1
      BY <3>1, FS_AddElement
    <3> QED BY <3>1, <3>2 DEF rest
  <2> QED BY <1>1, <2>2, <2>4 DEF HeadsFit
<1> QED BY <1>4, <1>5, <1>6 DEF Keep

LEMMA CachedIsSome ==
    ASSUME IInv, NEW a \in Assets, Imported(a)
    PROVE  Stored(a) # NotCached
<1>1. Stored(a).current \in EntryIds
  BY StoredTyped, StoredFacts DEF IInv
<1> QED BY <1>1 DEF NotCached, None, EntryIds

LEMMA HeadsFitStep == IInv /\ HeadsFit /\ [Next]_vars => HeadsFit'
<1> SUFFICES ASSUME IInv, HeadsFit, [Next]_vars PROVE HeadsFit'
  OBVIOUS
<1>1. TypeOK
  BY DEF IInv
<1>2. CASE heads' = heads
  BY <1>2 DEF HeadsFit, HeadsHeld, Cached, NotCached
<1>3. CASE heads' = [b \in Assets |-> NotCached]
  <2>1. HeadsHeld' = {}
    BY <1>3 DEF HeadsHeld, Cached, NotCached
  <2> QED BY <2>1, FS_EmptySet, HistoryAssumption DEF HeadsFit
<1>4. ASSUME NEW a \in Assets, Imported(a), Keep(a, HeadOf(a))
      PROVE  HeadsFit'
  <2>1. heads'[a] = Stored(a)
    BY <1>4, KeepStored
  <2>2. heads'[a] # NotCached
    BY <1>4, <2>1, CachedIsSome
  <2> QED BY <1>1, <1>4, <2>2, KeepFits
<1>5. CASE StaysPut
  BY <1>2, <1>3, <1>4, <1>5 DEF StaysPut, HeadsKept
<1>6. ASSUME NEW a \in Assets, Import(a)
      PROVE  HeadsFit'
  BY <1>2, <1>6 DEF Import
<1>7. ASSUME NEW a \in Assets, NEW m \in Messages, Navigates(a, m) \/ Appends(a, m)
      PROVE  HeadsFit'
  <2>1. \E h : Keep(a, h)
    BY <1>7 DEF Navigates, Appends, Navigate, AppendEntry, MoveHead
  <2>2. PICK to \in EntryIds, undone \in Seq(EntryIds),
             outcome \in {"applied", "navigated"} :
             HeadMoved(a, m, outcome, to, undone)
    BY <1>7, MovesHeadShape DEF MovesHead
  <2>3. heads'[a].current = to
    BY <2>2 DEF HeadMoved
  <2>4. heads'[a] # NotCached
    BY <2>3 DEF NotCached, None, EntryIds
  <2> QED BY <1>1, <2>1, <2>4, KeepFits
<1> QED BY <1>5, <1>6, <1>7, StepShapes

LEMMA HeadsFitInit == Init => HeadsFit
<1> SUFFICES ASSUME Init PROVE HeadsFit
  OBVIOUS
<1>1. HeadsHeld = {}
  BY DEF Init, HeadsHeld, Cached
<1> QED BY <1>1, FS_EmptySet, HistoryAssumption DEF HeadsFit

\* A cached head is what its rows hold, and the cache stays within bounds.
THEOREM CacheCorrect == Spec => []HeadsAreRows
<1>1. IInv /\ HeadsFit => HeadsAreRows
  BY DEF IInv, HeadsMatch, HeadsFit, HeadsAreRows
<1> QED BY Invariance, HeadsFitInit, HeadsFitStep, <1>1, PTL DEF Spec

-----------------------------------------------------------------------------
\* Induction over the naturals.
LEMMA Induction ==
    ASSUME NEW S, 0 \in S, \A n \in Nat : n \in S => n + 1 \in S
    PROVE  Nat \subseteq S
<1> SUFFICES ASSUME NEW n \in Nat, n \notin S PROVE FALSE
  OBVIOUS
<1> DEFINE T == {m \in 0 .. n : m \notin S}
           f == [m \in T |-> m - 1]
           U == {m - 1 : m \in T}
<1>1. IsFiniteSet(T)
  <2>1. IsFiniteSet(0 .. n)
    BY FS_Interval
  <2>2. T \in SUBSET (0 .. n)
    OBVIOUS
  <2> QED BY <2>1, <2>2, FS_Subset
<1>2. \A m \in T : m - 1 \in T
  <2> SUFFICES ASSUME NEW m \in T PROVE m - 1 \in T
    OBVIOUS
  <2>1. m # 0 /\ m \in Nat /\ m - 1 \in Nat /\ m = (m - 1) + 1
    OBVIOUS
  <2>2. m - 1 \notin S
    BY <2>1
  <2> QED BY <2>1, <2>2
<1>3. U \subseteq T
  BY <1>2
<1>4. f \in Bijection(T, U)
  BY DEF Bijection, Injection, Surjection, IsInjective
<1>5. Cardinality(U) = Cardinality(T) /\ IsFiniteSet(U)
  BY <1>1, <1>4, FS_Bijection DEF ExistsBijection
<1>6. U = T
  BY <1>1, <1>3, <1>5, FS_Subset
<1>7. n \in U
  BY <1>6
<1> QED BY <1>7

Parented(log, n) ==
    \A e \in 1 .. n : log[e].parent \in Nat /\ log[e].parent < e

\* f gives each of the first n entries of a log the path that leads to it.
Leads(log, f, n) ==
    \A e \in 1 .. n :
        f[e] = IF log[e].parent = None THEN <<e>> ELSE Append(f[log[e].parent], e)

LEMMA PathsAgree ==
    ASSUME NEW n \in Nat, NEW one, NEW two, NEW f, NEW g,
           Parented(one, n), \A e \in 1 .. n : one[e].parent = two[e].parent,
           Leads(one, f, n), Leads(two, g, n)
    PROVE  \A e \in 1 .. n : f[e] = g[e]
<1> DEFINE S == {k \in Nat : \A e \in 1 .. n : e <= k => f[e] = g[e]}
<1>1. 0 \in S
  OBVIOUS
<1>2. ASSUME NEW k \in Nat, k \in S PROVE k + 1 \in S
  <2> SUFFICES ASSUME NEW e \in 1 .. n, e <= k + 1 PROVE f[e] = g[e]
    OBVIOUS
  <2> DEFINE p == one[e].parent
  <2>1. p \in Nat /\ p < e /\ p = two[e].parent
    BY DEF Parented
  <2>2. CASE p = None
    BY <2>1, <2>2 DEF Leads
  <2>3. CASE p # None
    <3>1. p \in 1 .. n /\ p <= k
      BY <2>1, <2>3 DEF None
    <3>2. f[p] = g[p]
      BY <1>2, <3>1
    <3>3. f[e] = Append(f[p], e) /\ g[e] = Append(g[p], e)
      BY <2>1, <2>3 DEF Leads
    <3> QED BY <3>2, <3>3
  <2> QED BY <2>2, <2>3
<1> HIDE DEF S
<1>3. Nat \subseteq S
  BY <1>1, <1>2, Induction
<1>4. n \in S
  BY <1>3
<1> QED BY <1>4 DEF S

LEMMA PathsExist ==
    ASSUME NEW n \in Nat, NEW log, Parented(log, n)
    PROVE  \E f \in [1 .. n -> Seq(Nat)] : Leads(log, f, n)
<1> DEFINE S == {k \in Nat : k <= n => \E f \in [1 .. k -> Seq(Nat)] : Leads(log, f, k)}
<1>1. 0 \in S
  <2>1. [e \in 1 .. 0 |-> <<>>] \in [1 .. 0 -> Seq(Nat)]
    OBVIOUS
  <2>2. Leads(log, [e \in 1 .. 0 |-> <<>>], 0)
    BY DEF Leads
  <2> QED BY <2>1, <2>2
<1>2. ASSUME NEW k \in Nat, k \in S PROVE k + 1 \in S
  <2> SUFFICES ASSUME k + 1 <= n
               PROVE  \E f \in [1 .. k + 1 -> Seq(Nat)] : Leads(log, f, k + 1)
    OBVIOUS
  <2>1. PICK f \in [1 .. k -> Seq(Nat)] : Leads(log, f, k)
    BY <1>2
  <2> DEFINE p == log[k + 1].parent
             last == IF p = None THEN <<k + 1>> ELSE Append(f[p], k + 1)
             g == [e \in 1 .. k + 1 |-> IF e = k + 1 THEN last ELSE f[e]]
  <2>2. p \in Nat /\ p < k + 1
    BY DEF Parented
  <2>3. p # None => p \in 1 .. k
    BY <2>2 DEF None
  <2>4. last \in Seq(Nat)
    BY <2>3
  <2>5. g \in [1 .. k + 1 -> Seq(Nat)]
    <3> HIDE DEF last
    <3> SUFFICES ASSUME NEW e \in 1 .. k + 1 PROVE (IF e = k + 1 THEN last ELSE f[e]) \in Seq(Nat)
      OBVIOUS
    <3>1. e # k + 1 => e \in 1 .. k
      OBVIOUS
    <3> QED BY <2>4, <3>1
  <2>6. ASSUME NEW e \in 1 .. k + 1
        PROVE  g[e] = IF log[e].parent = None THEN <<e>> ELSE Append(g[log[e].parent], e)
    <3>1. log[e].parent \in Nat /\ log[e].parent < e
      BY DEF Parented
    <3>2. log[e].parent # None => log[e].parent \in 1 .. k + 1 /\ log[e].parent # k + 1
      BY <3>1 DEF None
    <3>3. log[e].parent # None => g[log[e].parent] = f[log[e].parent]
      BY <3>2
    <3>4. CASE e = k + 1
      BY <3>3, <3>4
    <3>5. CASE e # k + 1
      <4>1. e \in 1 .. k /\ g[e] = f[e]
        BY <3>5
      <4> HIDE DEF g
      <4> QED BY <2>1, <3>3, <4>1 DEF Leads
    <3> QED BY <3>4, <3>5
  <2>7. Leads(log, g, k + 1)
    BY <2>6 DEF Leads
  <2> QED BY <2>5, <2>7
<1> HIDE DEF S
<1>3. Nat \subseteq S
  BY <1>1, <1>2, Induction
<1>4. n \in S
  BY <1>3
<1> QED BY <1>4 DEF S

\* The table PathTo looks its path up in.
PathTable(log) ==
    CHOOSE f : f = [e \in 1 .. Len(log) |->
                      IF log[e].parent = None THEN <<e>>
                      ELSE Append(f[log[e].parent], e)]

LEMMA PathToIs ==
    ASSUME NEW a \in Assets
    PROVE  PathTo(a) = IF Imported(a) THEN PathTable(entries[a])[current[a]] ELSE <<>>
  BY DEF PathTo, PathTable

LEMMA TableLeads ==
    ASSUME NEW log, Len(log) \in Nat, Parented(log, Len(log))
    PROVE  /\ Leads(log, PathTable(log), Len(log))
           /\ \A e \in 1 .. Len(log) : PathTable(log)[e] \in Seq(Nat)
<1> DEFINE n == Len(log)
           t == PathTable(log)
<1>1. PICK f \in [1 .. n -> Seq(Nat)] : Leads(log, f, n)
  BY PathsExist
<1>2. f = [e \in 1 .. n |-> IF log[e].parent = None THEN <<e>>
                            ELSE Append(f[log[e].parent], e)]
  BY <1>1 DEF Leads
<1>3. t = [e \in 1 .. n |-> IF log[e].parent = None THEN <<e>>
                            ELSE Append(t[log[e].parent], e)]
  BY <1>2 DEF PathTable
<1> HIDE DEF t
<1>4. Leads(log, t, n)
  BY <1>3 DEF Leads
<1>5. \A e \in 1 .. n : t[e] = f[e]
  BY <1>1, <1>4, PathsAgree
<1> QED BY <1>1, <1>4, <1>5 DEF t

-----------------------------------------------------------------------------
\* The tree seen as two stacks, step by step.

LEMMA LogParented ==
    ASSUME TypeOK, Earlier, NEW a \in Assets
    PROVE  Len(entries[a]) \in Nat /\ Parented(entries[a], Len(entries[a]))
<1>1. Len(entries[a]) \in Nat
  BY DEF TypeOK
<1>2. ASSUME NEW e \in 1 .. Len(entries[a])
      PROVE  entries[a][e].parent \in Nat /\ entries[a][e].parent < e
  <2>1. entries[a][e].parent \in EntryIds \union {None}
    BY EntryTyped
  <2> QED BY <2>1 DEF Earlier, EntryIds, None
<1> QED BY <1>1, <1>2 DEF Parented

LEMMA LogParentedPrimed ==
    ASSUME TypeOK', Earlier', NEW a \in Assets
    PROVE  Len(entries'[a]) \in Nat /\ Parented(entries'[a], Len(entries'[a]))
<1>1. entries'[a] \in Seq(Entry) /\ Len(entries'[a]) \in Nat
  BY DEF TypeOK
<1>2. ASSUME NEW e \in 1 .. Len(entries'[a])
      PROVE  entries'[a][e].parent \in Nat /\ entries'[a][e].parent < e
  <2>1. entries'[a][e] \in Entry
    BY <1>1, ElementOfSeq
  <2>2. entries'[a][e].parent \in EntryIds \union {None}
    BY <2>1 DEF Entry
  <2> QED BY <2>2 DEF Earlier, EntryIds, None
<1> QED BY <1>1, <1>2 DEF Parented

\* The path to an entry ends with the entry, after its parent's path.
LEMMA PathSteps ==
    ASSUME TypeOK, Earlier, NEW a \in Assets, NEW e \in 1 .. Len(entries[a])
    PROVE  LET t == PathTable(entries[a])
               p == entries[a][e].parent
           IN  /\ t[e] \in Seq(Nat)
               /\ p = None => t[e] = <<e>>
               /\ p # None => /\ p \in 1 .. Len(entries[a])
                              /\ t[e] = Append(t[p], e)
<1> DEFINE t == PathTable(entries[a])
           p == entries[a][e].parent
           n == Len(entries[a])
<1>1. n \in Nat /\ Parented(entries[a], n)
  BY LogParented
<1>2. Leads(entries[a], t, n) /\ t[e] \in Seq(Nat)
  BY <1>1, TableLeads
<1>3. p \in Nat /\ p < e
  BY <1>1 DEF Parented
<1> HIDE DEF t
<1>4. p # None => p \in 1 .. n
  BY <1>1, <1>3 DEF None
<1> QED BY <1>2, <1>4 DEF t, Leads

\* What is added to the log changes no path that was there.
LEMMA PathsStay ==
    ASSUME TypeOK, Earlier, TypeOK', Earlier', NEW a \in Assets,
           Len(entries'[a]) >= Len(entries[a]),
           \A e \in 1 .. Len(entries[a]) : entries'[a][e] = entries[a][e]
    PROVE  \A e \in 1 .. Len(entries[a]) :
              PathTable(entries'[a])[e] = PathTable(entries[a])[e]
<1> DEFINE n == Len(entries[a])
<1>1. n \in Nat /\ Parented(entries[a], n)
  BY LogParented
<1>2. Len(entries'[a]) \in Nat /\ Parented(entries'[a], Len(entries'[a]))
  BY LogParentedPrimed
<1>3. Leads(entries[a], PathTable(entries[a]), n)
  BY <1>1, TableLeads
<1>4. Leads(entries'[a], PathTable(entries'[a]), Len(entries'[a]))
  BY <1>2, TableLeads
<1>5. Leads(entries'[a], PathTable(entries'[a]), n)
  <2>1. \A e \in 1 .. n : e \in 1 .. Len(entries'[a])
    BY <1>1, <1>2
  <2> QED BY <1>4, <2>1 DEF Leads
<1>6. \A e \in 1 .. n : entries[a][e].parent = entries'[a][e].parent
  OBVIOUS
<1> QED BY <1>1, <1>3, <1>5, <1>6, PathsAgree

\* An asset no step touched is as it was.
LEMMA PathUntouched ==
    ASSUME NEW b \in Assets, entries'[b] = entries[b], current'[b] = current[b]
    PROVE  PathTo(b)' = PathTo(b)
  BY DEF PathTo, Imported

LEMMA PathToPrimed ==
    ASSUME NEW a \in Assets
    PROVE  PathTo(a)' = IF entries'[a] # <<>>
                        THEN PathTable(entries'[a])[current'[a]] ELSE <<>>
  BY DEF PathTo, PathTable, Imported

\* A step that touches the asset a alone changes the two stacks at a.
Touches(a) ==
    \A b \in Assets : b # a => entries'[b] = entries[b] /\ current'[b] = current[b]

LEMMA AsTwoStacks ==
    ASSUME NEW a \in Assets, Touches(a)
    PROVE  /\ [b \in Assets |-> PathTo(b)'] =
                [[b \in Assets |-> PathTo(b)] EXCEPT ![a] = PathTo(a)']
           /\ [b \in Assets |-> Len(entries'[b])] =
                [[b \in Assets |-> Len(entries[b])] EXCEPT ![a] = Len(entries'[a])]
<1>1. \A b \in Assets : b # a => PathTo(b)' = PathTo(b)
  BY PathUntouched DEF Touches
<1>2. \A b \in Assets : b # a => Len(entries'[b]) = Len(entries[b])
  BY DEF Touches
<1> QED BY <1>1, <1>2

LEMMA AppendIsDo ==
    ASSUME IInv, IInv', NEW a \in Assets, NEW m \in Messages, Appends(a, m)
    PROVE  UserView!Do(a)
<1> DEFINE n == Len(entries[a])
<1>1. PICK stack \in Stacks, target \in EntryIds \union {None} :
           EntryAppended(a, m, stack, target)
  BY AppendsFacts
<1>2. /\ current' = [current EXCEPT ![a] = n + 1]
      /\ redo' = [redo EXCEPT ![a] = <<>>]
      /\ Len(entries'[a]) = n + 1
      /\ entries'[a][n + 1].parent = current[a]
      /\ \A e \in 1 .. n : entries'[a][e] = entries[a][e]
      /\ \A b \in Assets : b # a => entries'[b] = entries[b]
  BY <1>1 DEF EntryAppended, HeadMoved, NewEntry
<1>3. /\ TypeOK /\ Earlier /\ TypeOK' /\ Earlier' /\ Imported(a)
      /\ n \in Nat /\ current[a] \in 1 .. n
  BY DEF IInv, TypeOK, Appends, Grounded
<1>4. current'[a] = n + 1 /\ \A b \in Assets : b # a => current'[b] = current[b]
  BY <1>2, <1>3 DEF TypeOK
<1>5. PathTable(entries'[a])[n + 1] = Append(PathTable(entries[a])[current[a]], n + 1)
  <2>1. Len(entries'[a]) \in Nat /\ Parented(entries'[a], Len(entries'[a]))
    BY <1>3, LogParentedPrimed
  <2>2. Leads(entries'[a], PathTable(entries'[a]), n + 1)
    BY <1>2, <2>1, TableLeads
  <2>3. PathTable(entries'[a])[n + 1] =
          Append(PathTable(entries'[a])[current[a]], n + 1)
    <3>1. n + 1 \in 1 .. n + 1 /\ entries'[a][n + 1].parent # None
      BY <1>2, <1>3 DEF None
    <3> QED BY <1>2, <2>2, <3>1 DEF Leads
  <2>4. PathTable(entries'[a])[current[a]] = PathTable(entries[a])[current[a]]
    BY <1>2, <1>3, PathsStay
  <2> QED BY <2>3, <2>4
<1>6. PathTo(a) = PathTable(entries[a])[current[a]]
  BY <1>3, PathToIs
<1>7. entries'[a] # <<>>
  BY <1>2, <1>3
<1>8. PathTo(a)' = Append(PathTo(a), n + 1)
  BY <1>4, <1>5, <1>6, <1>7, PathToPrimed
<1>9. Touches(a)
  BY <1>2, <1>4 DEF Touches
<1>10. /\ [b \in Assets |-> PathTo(b)'] =
            [[b \in Assets |-> PathTo(b)] EXCEPT ![a] = Append(@, n + 1)]
       /\ [b \in Assets |-> Len(entries'[b])] =
            [[b \in Assets |-> Len(entries[b])] EXCEPT ![a] = @ + 1]
  BY <1>2, <1>8, <1>9, AsTwoStacks
<1> QED BY <1>2, <1>10 DEF UserView!Do

LEMMA FrontOfAppend ==
    ASSUME NEW s \in Seq(Nat), NEW x \in Nat
    PROVE  /\ Len(Append(s, x)) = Len(s) + 1
           /\ Append(s, x)[Len(Append(s, x))] = x
           /\ SubSeq(Append(s, x), 1, Len(Append(s, x)) - 1) = s
<1> DEFINE t == Append(s, x)
<1>1. /\ t \in Seq(Nat) /\ Len(t) = Len(s) + 1 /\ Len(s) \in Nat
      /\ t[Len(s) + 1] = x
      /\ \A i \in 1 .. Len(s) : t[i] = s[i]
  BY AppendProperties
<1> HIDE DEF t
<1> DEFINE u == SubSeq(t, 1, Len(t) - 1)
<1>2. /\ u \in Seq(Nat) /\ Len(u) = Len(s)
      /\ \A i \in 1 .. Len(s) : u[i] = t[i]
  BY <1>1
<1> HIDE DEF u
<1>3. u = s
  BY <1>1, <1>2, SeqEqual
<1> QED BY <1>1, <1>3 DEF t, u

\* What a step that goes from one entry to another does to the path.
LEMMA PathNavigated ==
    ASSUME IInv, NEW a \in Assets, NEW to \in 1 .. Len(entries[a]),
           Imported(a), entries' = entries, current' = [current EXCEPT ![a] = to]
    PROVE  /\ Touches(a)
           /\ PathTo(a) = PathTable(entries[a])[current[a]]
           /\ PathTo(a)' = PathTable(entries[a])[to]
           /\ Len(entries'[a]) = Len(entries[a])
<1>1. current'[a] = to /\ \A b \in Assets : b # a => current'[b] = current[b]
  BY DEF IInv, TypeOK
<1>2. Touches(a)
  BY <1>1 DEF Touches
<1>3. PathTo(a) = PathTable(entries[a])[current[a]]
  BY PathToIs
<1>4. entries'[a] # <<>> /\ entries'[a] = entries[a]
  BY DEF Imported
<1>5. PathTo(a)' = PathTable(entries[a])[to]
  BY <1>1, <1>4, PathToPrimed
<1> QED BY <1>2, <1>3, <1>4, <1>5

LEMMA BackIsUndo ==
    ASSUME IInv, NEW a \in Assets, Imported(a),
           NEW to \in EntryIds, to \in 1 .. Len(entries[a]), NEW undone,
           GoesBack(a, to, undone), entries' = entries,
           current' = [current EXCEPT ![a] = to],
           redo' = [redo EXCEPT ![a] = undone]
    PROVE  UserView!Undo(a)
<1> DEFINE t == PathTable(entries[a])
           here == current[a]
<1>1. /\ TypeOK /\ Earlier /\ here \in 1 .. Len(entries[a]) /\ here \in Nat
      /\ redo \in [Assets -> Seq(EntryIds)]
  BY DEF IInv, Grounded, TypeOK
<1>2. to = entries[a][here].parent /\ undone = Append(redo[a], here) /\ to # None
  BY DEF GoesBack, EntryIds, None
<1>3. t[here] = Append(t[to], here)
  BY <1>1, <1>2, PathSteps
<1>4. t[to] \in Seq(Nat)
  BY <1>1, PathSteps
<1>5. Len(t[to]) >= 1
  <2> DEFINE p == entries[a][to].parent
  <2>1. CASE p = None
    <3>1. t[to] = <<to>>
      BY <1>1, <2>1, PathSteps
    <3> QED BY <3>1
  <2>2. CASE p # None
    <3>1. p \in 1 .. Len(entries[a]) /\ t[to] = Append(t[p], to)
      BY <1>1, <2>2, PathSteps
    <3>2. t[p] \in Seq(Nat)
      BY <1>1, <3>1, PathSteps
    <3> HIDE DEF t
    <3> QED BY <3>1, <3>2, FrontOfAppend
  <2> QED BY <2>1, <2>2
<1>6. /\ Touches(a) /\ PathTo(a) = t[here] /\ PathTo(a)' = t[to]
      /\ Len(entries'[a]) = Len(entries[a])
  BY PathNavigated
<1> HIDE DEF t
<1>7. /\ Len(t[here]) = Len(t[to]) + 1 /\ Len(t[to]) \in Nat
      /\ t[here][Len(t[here])] = here
      /\ SubSeq(t[here], 1, Len(t[here]) - 1) = t[to]
  BY <1>1, <1>3, <1>4, FrontOfAppend
<1>8. /\ Len(PathTo(a)) > 1
      /\ PathTo(a)[Len(PathTo(a))] = here
      /\ SubSeq(PathTo(a), 1, Len(PathTo(a)) - 1) = PathTo(a)'
  BY <1>5, <1>6, <1>7
<1>9. /\ [b \in Assets |-> PathTo(b)'] =
           [[b \in Assets |-> PathTo(b)] EXCEPT ![a] = PathTo(a)']
      /\ [b \in Assets |-> Len(entries'[b])] =
           [[b \in Assets |-> Len(entries[b])] EXCEPT ![a] = Len(entries'[a])]
  BY <1>6, AsTwoStacks
<1>10. [b \in Assets |-> Len(entries'[b])] = [b \in Assets |-> Len(entries[b])]
  OBVIOUS
<1>11. redo' = [redo EXCEPT ![a] = Append(@, PathTo(a)[Len(PathTo(a))])]
  BY <1>1, <1>2, <1>8
<1>12. [b \in Assets |-> PathTo(b)'] =
         [[b \in Assets |-> PathTo(b)] EXCEPT ![a] = SubSeq(@, 1, Len(@) - 1)]
  BY <1>8, <1>9
<1> QED BY <1>8, <1>10, <1>11, <1>12 DEF UserView!Undo

LEMMA ForwardIsRedo ==
    ASSUME IInv, NEW a \in Assets, Imported(a),
           NEW to \in EntryIds, to \in 1 .. Len(entries[a]), NEW undone,
           GoesForward(a, to, undone), entries' = entries,
           current' = [current EXCEPT ![a] = to],
           redo' = [redo EXCEPT ![a] = undone]
    PROVE  UserView!Redo(a)
<1> DEFINE t == PathTable(entries[a])
           here == current[a]
           n == Len(redo[a])
<1>1. /\ TypeOK /\ Earlier /\ here \in 1 .. Len(entries[a]) /\ here # None
      /\ redo \in [Assets -> Seq(EntryIds)] /\ redo[a] \in Seq(EntryIds)
  BY DEF IInv, Grounded, TypeOK, None
<1>2. redo[a] # <<>> /\ to = redo[a][n] /\ undone = SubSeq(redo[a], 1, n - 1)
  BY DEF GoesForward, ToRedo
<1>3. n \in 1 .. n
  BY <1>1, <1>2
<1>4. entries[a][to].parent = here
  BY <1>2, <1>3 DEF IInv, RedoIsPath
<1>5. t[to] = Append(t[here], to)
  BY <1>1, <1>4, PathSteps
<1>6. /\ Touches(a) /\ PathTo(a) = t[here] /\ PathTo(a)' = t[to]
      /\ Len(entries'[a]) = Len(entries[a])
  BY PathNavigated
<1> HIDE DEF t
<1>7. PathTo(a)' = Append(PathTo(a), redo[a][n])
  BY <1>2, <1>5, <1>6
<1>9. [b \in Assets |-> PathTo(b)'] =
        [[b \in Assets |-> PathTo(b)] EXCEPT ![a] = Append(@, redo[a][n])]
  BY <1>6, <1>7, AsTwoStacks
<1>10. [b \in Assets |-> Len(entries'[b])] = [b \in Assets |-> Len(entries[b])]
  OBVIOUS
<1>11. redo' = [redo EXCEPT ![a] = SubSeq(@, 1, Len(@) - 1)]
  BY <1>1, <1>2
<1> QED BY <1>2, <1>9, <1>10, <1>11 DEF UserView!Redo

LEMMA ImportIsDo ==
    ASSUME IInv, IInv', NEW a \in Assets, Import(a)
    PROVE  UserView!Do(a)
<1>1. /\ Len(entries[a]) = 0 /\ ~Imported(a)
      /\ Len(entries'[a]) = 1 /\ entries'[a][1].parent = None
      /\ entries'[a] # <<>> /\ current'[a] = 1
      /\ redo[a] = <<>> /\ redo' = redo /\ redo \in [Assets -> Seq(EntryIds)]
      /\ \A b \in Assets : b # a => /\ entries'[b] = entries[b]
                                    /\ current'[b] = current[b]
  BY DEF Import, Imported, IInv, TypeOK, Grounded
<1>2. PathTable(entries'[a])[1] = <<1>>
  <2>1. /\ Len(entries'[a]) \in Nat
        /\ Parented(entries'[a], Len(entries'[a]))
    BY LogParentedPrimed DEF IInv
  <2>2. Leads(entries'[a], PathTable(entries'[a]), Len(entries'[a]))
    BY <2>1, TableLeads
  <2> QED BY <1>1, <2>2 DEF Leads
<1>3. PathTo(a)' = <<1>>
  BY <1>1, <1>2, PathToPrimed
<1>4. PathTo(a) = <<>>
  BY <1>1, PathToIs
<1>5. PathTo(a)' = Append(PathTo(a), Len(entries[a]) + 1)
  BY <1>1, <1>3, <1>4
<1>6. Touches(a)
  BY <1>1 DEF Touches
<1>7. /\ [b \in Assets |-> PathTo(b)'] =
           [[b \in Assets |-> PathTo(b)] EXCEPT ![a] = Append(@, Len(entries[a]) + 1)]
      /\ [b \in Assets |-> Len(entries'[b])] =
           [[b \in Assets |-> Len(entries[b])] EXCEPT ![a] = @ + 1]
  <2>1. Len(entries'[a]) = Len(entries[a]) + 1
    BY <1>1
  <2> QED BY <1>5, <1>6, <2>1, AsTwoStacks
<1>8. redo' = [redo EXCEPT ![a] = <<>>]
  BY <1>1
<1> QED BY <1>7, <1>8 DEF UserView!Do

\* The first states are the abstract one's, and every step is a step of
\* two stacks or changes neither.
LEMMA StacksInit == Init => UserView!Init
<1> SUFFICES ASSUME Init PROVE UserView!Init
  OBVIOUS
<1>1. \A a \in Assets : ~Imported(a) /\ Len(entries[a]) = 0
  BY DEF Init, Imported
<1>2. \A a \in Assets : PathTo(a) = <<>>
  BY <1>1, PathToIs
<1> QED BY <1>1, <1>2 DEF Init, UserView!Init

LEMMA StacksStep == IInv /\ IInv' /\ [Next]_vars => [UserView!Next]_(UserView!vars)
<1> SUFFICES ASSUME IInv, IInv', [Next]_vars
             PROVE  UserView!Next \/ UNCHANGED UserView!vars
  OBVIOUS
<1>1. CASE StaysPut
  <2>1. entries' = entries /\ current' = current /\ redo' = redo
    BY <1>1 DEF StaysPut
  <2>2. \A b \in Assets : PathTo(b)' = PathTo(b)
    BY <2>1, PathUntouched
  <2> QED BY <2>1, <2>2 DEF UserView!vars
<1>2. ASSUME NEW a \in Assets, Import(a)
      PROVE  UserView!Next
  BY <1>2, ImportIsDo DEF UserView!Next
<1>3. ASSUME NEW a \in Assets, NEW m \in Messages, Navigates(a, m)
      PROVE  UserView!Next
  <2>1. PICK to \in EntryIds, undone \in Seq(EntryIds) :
             /\ to \in 1 .. Len(entries[a])
             /\ GoesBack(a, to, undone) \/ GoesForward(a, to, undone)
             /\ HeadMoved(a, m, "navigated", to, undone)
    BY <1>3, NavigatesFacts
  <2>2. /\ entries' = entries /\ Imported(a)
        /\ current' = [current EXCEPT ![a] = to]
        /\ redo' = [redo EXCEPT ![a] = undone]
    BY <1>3, <2>1, NavigatesFacts DEF HeadMoved, Navigates
  <2>3. CASE GoesBack(a, to, undone)
    BY <2>1, <2>2, <2>3, BackIsUndo DEF UserView!Next
  <2>4. CASE GoesForward(a, to, undone)
    BY <2>1, <2>2, <2>4, ForwardIsRedo DEF UserView!Next
  <2> QED BY <2>1, <2>3, <2>4
<1>4. ASSUME NEW a \in Assets, NEW m \in Messages, Appends(a, m)
      PROVE  UserView!Next
  BY <1>4, AppendIsDo DEF UserView!Next
<1> QED BY <1>1, <1>2, <1>3, <1>4, StepShapes

\* The rows, the pointer and the redo list behave as two stacks: whatever
\* was undone, restored or appended in between, an undo gives back what
\* the last change was made from, and a redo what the last undo left.
THEOREM TwoStacksImplemented == Spec => IsTwoStacks
<1>1. IInv /\ IInv' /\ [Next]_vars => [UserView!Next]_(UserView!vars)
  BY StacksStep
<1> QED BY Invariance, StacksInit, <1>1, PTL DEF Spec, IsTwoStacks, UserView!Spec

\* The tree of entries, the redo lists and the cached heads agree.
THEOREM TreeCorrect == Spec => []TreeSound
<1>1. UndoTree /\ RedoIsPath /\ HeadsAreRows => TreeSound
  BY DEF TreeSound
<1> QED BY UndoTreeCorrect, RedoCorrect, CacheCorrect, <1>1, PTL

\* A request takes effect at most once, and its stored answer says which
\* effect.
THEOREM OnceCorrect == Spec => []OncePerRequest
<1>1. MovesChain /\ EntriesMatchAnswers => OncePerRequest
  BY DEF OncePerRequest
<1> QED BY MovesChainCorrect, AnswersCorrect, <1>1, PTL
=============================================================================
