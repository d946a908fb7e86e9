------------------------------ MODULE TileBudget ------------------------------
(***************************************************************************)
(* The spatial budget of a render context and everything that is charged   *)
(* to it (render/context.rs, render/spatial.rs): renders that run the      *)
(* tiles of a stage in batches, and point queries that evaluate single     *)
(* tiles and hold them; and the store of global estimates they share.      *)
(*                                                                         *)
(* The budget is two counters that threads change without a lock.  Every   *)
(* atomic operation is a step: a reservation reads the use, swaps in the   *)
(* sum unless the use moved, then raises the peak.  The store is under a   *)
(* mutex, taken once to look and once to remember.                         *)
(*                                                                         *)
(* A point query reads a tile of its last segment; the tile's halo reads   *)
(* the tiles around it of the segment before, row of pixels by row.        *)
(***************************************************************************)
EXTENDS Integers, Sequences, FiniteSets, FiniteSetsExt, Functions

CONSTANTS
    Renders, Queries,
    TargetBytes,    \* the bytes the budget aims at
    WorkingBytes,   \* an evaluation's bytes for a tile that runs
    TileCount,      \* a render's tiles
    Workers,        \* the pool's threads
    TileBytes,      \* the bytes of a tile a query holds
    Floor,          \* POINT_TILES_FLOOR
    Segments,       \* the spatial segments a query reads through
    GridSide,       \* the stage is GridSide by GridSide tiles
    RowsOfTile,     \* the rows of pixels of one tile
    Points,         \* the tiles a query may read, one after the other
    KeyOf,          \* a render's key in the store
    StoreEntries    \* ESTIMATE_STORE_ENTRIES

Evaluations == Renders \union Queries
Positions == (0 .. GridSide - 1) \X (0 .. GridSide - 1)

TileBudgetAssumption ==
    /\ {Workers, TileBytes, Floor, Segments, GridSide, RowsOfTile, StoreEntries}
          \subseteq Nat \ {0}
    /\ TargetBytes \in Nat
    /\ WorkingBytes \in [Evaluations -> Nat \ {0}]
    /\ TileCount \in [Renders -> Nat \ {0}]
    /\ IsFiniteSet(Evaluations) /\ Renders \intersect Queries = {}
    /\ DOMAIN KeyOf = Renders
    /\ Queries # {} => Points # {}
    /\ \A p \in Points : p \in Seq(Positions)

VARIABLES
    used,           \* the bytes reserved
    peak,
    store,          \* the estimates' keys, oldest first
    doing,          \* what each evaluation does next
    ask,            \* its reservation: bytes of a tile, tiles wanted, use seen
    runs,           \* the tiles its last reservation covers
    inFrame,        \* a render's tiles in its frame, in order
    cancelled,      \* the renders whose token is raised
    fill,           \* a query's tiles being evaluated, the inner one last
    toRead,         \* the tiles the query itself still reads
    heldTiles,      \* the tiles a query holds, most recently read first
    \* history
    highest,        \* the most that was ever reserved
    evaluated       \* the tiles a query evaluated, in order

counters == <<used, peak, highest>>
queryVars == <<fill, toRead, heldTiles, evaluated>>
budgetVars == <<used, peak, store, doing, ask, runs, inFrame, cancelled, fill,
          toRead, heldTiles, highest, evaluated>>

SegmentTiles == [segment : 1 .. Segments, at : Positions]
NoAsk == [bytes |-> 0, wanted |-> 0, seen |-> 0]
Ended == {"done", "failed", "stopped"}
Capacity == Max({TargetBytes \div TileBytes, Floor})

BudgetInit ==
    /\ used = 0 /\ peak = 0 /\ highest = 0
    /\ store = <<>>
    /\ doing = [e \in Evaluations |-> IF e \in Renders THEN "looks" ELSE "idle"]
    /\ ask = [e \in Evaluations |-> NoAsk]
    /\ runs = [e \in Evaluations |-> 0]
    /\ inFrame = [r \in Renders |-> <<>>]
    /\ cancelled = {}
    /\ fill = [q \in Queries |-> <<>>]
    /\ toRead = [q \in Queries |-> <<>>]
    /\ heldTiles = [q \in Queries |-> <<>>]
    /\ evaluated = [q \in Queries |-> <<>>]

Goes(e, to) == doing' = [doing EXCEPT ![e] = to]

-----------------------------------------------------------------------------
\* SpatialBudget::reserve, one atomic operation at a time

Fits(bytes, wanted, seen) ==
    Max({1, Min({wanted, Max({0, TargetBytes - seen}) \div bytes})})

\* The use is read: what follows is kept only if it has not moved.
Asks(e, bytes, wanted) ==
    ask' = [ask EXCEPT ![e] = [bytes |-> bytes, wanted |-> wanted, seen |-> used]]

Reserving(e) == doing[e] \in {"reserves", "charges"}

\* A bug for the mutants: the swap does not look whether the use moved.
FaultyUnmoved(e) == TRUE

Unmoved(e) == used = ask[e].seen

Swap(e) ==
    /\ Reserving(e) /\ Unmoved(e)
    /\ LET a == ask[e] n == Fits(a.bytes, a.wanted, a.seen)
       IN  /\ used' = a.seen + n * a.bytes
           /\ runs' = [runs EXCEPT ![e] = n]
    /\ highest' = Max({highest, used'})
    /\ Goes(e, IF doing[e] = "reserves" THEN "raises" ELSE "holds")
    /\ UNCHANGED <<peak, store, ask, inFrame, cancelled, queryVars>>

\* compare_exchange answers the use it found and the closure runs again.
SwapFails(e) ==
    /\ Reserving(e) /\ ~Unmoved(e)
    /\ ask' = [ask EXCEPT ![e].seen = used]
    /\ UNCHANGED <<counters, store, doing, runs, inFrame, cancelled, queryVars>>

Reaches(e) == ask[e].seen + runs[e] * ask[e].bytes

\* fetch_max
Raised(e) == Max({peak, Reaches(e)})

-----------------------------------------------------------------------------
\* A render: spatial_output and run_batches

\* resolve_globals: the store is looked at, the whole stage reduced when
\* the key is missing, and the estimate remembered.
Look(r) ==
    /\ doing[r] = "looks"
    /\ Goes(r, IF KeyOf[r] \in Range(store) THEN "checks" ELSE "remembers")
    /\ UNCHANGED <<counters, store, ask, runs, inFrame, cancelled, queryVars>>

WithKey(k) == IF k \in Range(store) THEN store ELSE Append(store, k)

Trimmed(s) == IF Len(s) > StoreEntries THEN Tail(s) ELSE s

Remember(r) ==
    /\ doing[r] = "remembers"
    /\ store' = Trimmed(WithKey(KeyOf[r]))
    /\ Goes(r, "checks")
    /\ UNCHANGED <<counters, ask, runs, inFrame, cancelled, queryVars>>

Left(r) == TileCount[r] - Len(inFrame[r])
Concurrency(r) == Max({1, Min({Workers, TargetBytes \div WorkingBytes[r]})})

\* Before each batch: a render that was stopped reserves nothing.
Check(r) ==
    /\ doing[r] = "checks"
    /\ IF Left(r) = 0 THEN Goes(r, "done") /\ UNCHANGED ask
       ELSE IF r \in cancelled THEN Goes(r, "stopped") /\ UNCHANGED ask
       ELSE /\ Asks(r, WorkingBytes[r], Min({Concurrency(r), Left(r)}))
            /\ Goes(r, "reserves")
    /\ UNCHANGED <<counters, store, runs, inFrame, cancelled, queryVars>>

Raise(e) ==
    /\ doing[e] \in {"raises", "holds"}
    /\ peak' = Raised(e)
    /\ Goes(e, IF doing[e] = "raises" THEN "runs" ELSE "stores")
    /\ UNCHANGED <<used, highest, store, ask, runs, inFrame, cancelled, queryVars>>

Batch(r) == [i \in 1 .. runs[r] |-> Len(inFrame[r]) + i]

BatchBytes(r) == runs[r] * ask[r].bytes

\* The batch is written and its reservation dropped.
BatchWritten(r) ==
    /\ r \in Renders /\ doing[r] = "runs"
    /\ inFrame' = [inFrame EXCEPT ![r] = @ \o Batch(r)]
    /\ used' = used - BatchBytes(r)
    /\ Goes(r, "checks")
    /\ UNCHANGED <<peak, highest, store, ask, runs, cancelled, queryVars>>

\* A tile fails (a non-finite value): the reservation goes with the error.
BatchFails(r) ==
    /\ r \in Renders /\ doing[r] = "runs"
    /\ used' = used - BatchBytes(r)
    /\ Goes(r, "failed")
    /\ UNCHANGED <<peak, highest, store, ask, runs, inFrame, cancelled, queryVars>>

Cancel(r) ==
    /\ doing[r] \notin Ended
    /\ r \notin cancelled
    /\ cancelled' = cancelled \union {r}
    /\ UNCHANGED <<counters, store, doing, ask, runs, inFrame, queryVars>>

-----------------------------------------------------------------------------
\* A point query: PointTiles

Tile(segment, at) == [segment |-> segment, at |-> at]

\* The places along one side that a tile's input region crosses: the
\* region is the tile grown by a halo of at most one tile.
Lowest(n) == Max({0, n - 1})
Highest(n) == Min({GridSide - 1, n + 1})
Across(n) == Highest(n) - Lowest(n) + 1

\* The tiles the region covers, as its rows of pixels cross them: those of
\* a row of tiles from the left, once for each of their rows of pixels.
ReadBy(t) ==
    LET wide == Across(t.at[1])
        high == Across(t.at[2])
    IN  IF t.segment = 1 THEN <<>>
        ELSE [i \in 1 .. RowsOfTile * high * wide |->
                 Tile(t.segment - 1,
                      <<Lowest(t.at[1]) + ((i - 1) % wide),
                        Lowest(t.at[2]) + (((i - 1) \div wide) \div RowsOfTile)>>)]

BeginQuery(q) ==
    /\ doing[q] = "idle"
    /\ \E points \in Points :
          toRead' = [toRead EXCEPT ![q] = [i \in DOMAIN points |-> Tile(Segments, points[i])]]
    /\ Goes(q, "reads")
    /\ UNCHANGED <<counters, store, ask, runs, inFrame, cancelled, fill, heldTiles,
                   evaluated>>

Inner(q) == fill[q][Len(fill[q])]

\* What the innermost evaluation, or else the query itself, reads next.
Wanted(q) == IF fill[q] = <<>> THEN toRead[q] ELSE Inner(q).reads

\* The evaluations under way: a tile that is read is evaluated before those
\* that wait for it, and when it has been, what waited first reads on.
Pushed(stack, t) == Append(stack, [tile |-> t, reads |-> ReadBy(t)])
Popped(stack) == SubSeq(stack, 1, Len(stack) - 1)
ReadOne(stack) ==
    IF stack = <<>> THEN stack ELSE [stack EXCEPT ![Len(stack)].reads = Tail(@)]
ReadOn(stack, reads) == IF stack = <<>> THEN Tail(reads) ELSE reads
Advances(q, stack) ==
    /\ fill' = [fill EXCEPT ![q] = ReadOne(stack)]
    /\ toRead' = [toRead EXCEPT ![q] = ReadOn(stack, @)]

\* rotate_right: the tile just read goes to the front.
Place(s, t) == CHOOSE i \in DOMAIN s : s[i] = t
Refreshed(s, t) ==
    [i \in DOMAIN s |-> IF i = 1 THEN t ELSE IF i <= Place(s, t) THEN s[i - 1] ELSE s[i]]

Hit(q) ==
    /\ doing[q] = "reads" /\ Wanted(q) # <<>>
    /\ LET t == Head(Wanted(q))
       IN  /\ t \in Range(heldTiles[q])
           /\ heldTiles' = [heldTiles EXCEPT ![q] = Refreshed(@, t)]
    /\ Advances(q, fill[q])
    /\ UNCHANGED <<counters, store, doing, ask, runs, inFrame, cancelled, evaluated>>

\* The tile is not held: it is evaluated now, under a reservation of its
\* own beside those of the evaluations that wait for it.
Miss(q) ==
    /\ doing[q] = "reads" /\ Wanted(q) # <<>>
    /\ LET t == Head(Wanted(q))
       IN  /\ t \notin Range(heldTiles[q])
           /\ fill' = [fill EXCEPT ![q] = Pushed(@, t)]
    /\ Asks(q, WorkingBytes[q], 1)
    /\ Goes(q, "reserves")
    /\ UNCHANGED <<counters, store, runs, inFrame, cancelled, toRead, heldTiles, evaluated>>

Run(q) ==
    /\ q \in Queries /\ doing[q] = "runs"
    /\ Goes(q, "reads")
    /\ UNCHANGED <<counters, store, ask, runs, inFrame, cancelled, queryVars>>

\* The region is filled and the chain has run: its reservation is dropped.
Evaluated(q) ==
    /\ doing[q] = "reads" /\ fill[q] # <<>> /\ Wanted(q) = <<>>
    /\ used' = used - WorkingBytes[q]
    /\ evaluated' = [evaluated EXCEPT ![q] = Append(@, Inner(q).tile)]
    /\ Goes(q, "releases")
    /\ UNCHANGED <<peak, highest, store, ask, runs, inFrame, cancelled, fill,
                   toRead, heldTiles>>

Room == Capacity - 1
Truncated(tiles) == SubSeq(tiles, 1, Min({Room, Len(tiles)}))

\* truncate: the least recently read go, and with each its reservation.
MakeRoom(q) ==
    /\ doing[q] = "releases"
    /\ heldTiles' = [heldTiles EXCEPT ![q] = Truncated(@)]
    /\ used' = used - (Len(heldTiles[q]) - Len(heldTiles'[q])) * TileBytes
    /\ ask' = [ask EXCEPT ![q] = [bytes |-> TileBytes, wanted |-> 1, seen |-> used']]
    /\ Goes(q, "charges")
    /\ UNCHANGED <<peak, highest, store, runs, inFrame, cancelled, fill, toRead,
                   evaluated>>

\* The tile is held and the read that missed it is answered from it.
Hold(q) ==
    /\ doing[q] = "stores"
    /\ heldTiles' = [heldTiles EXCEPT ![q] = <<Inner(q).tile>> \o @]
    /\ Advances(q, Popped(fill[q]))
    /\ Goes(q, "reads")
    /\ UNCHANGED <<counters, store, ask, runs, inFrame, cancelled, evaluated>>

\* The query is answered and everything it holds released.
Answered(q) ==
    /\ doing[q] = "reads" /\ fill[q] = <<>> /\ Wanted(q) = <<>>
    /\ used' = used - Len(heldTiles[q]) * TileBytes
    /\ heldTiles' = [heldTiles EXCEPT ![q] = <<>>]
    /\ Goes(q, "done")
    /\ UNCHANGED <<peak, highest, store, ask, runs, inFrame, cancelled, fill,
                   toRead, evaluated>>

Rendering(r) == Look(r) \/ Remember(r) \/ Check(r) \/ BatchWritten(r) \/ BatchFails(r)
Querying(q) ==
    BeginQuery(q) \/ Hit(q) \/ Miss(q) \/ Run(q) \/ Evaluated(q) \/ MakeRoom(q)
    \/ Hold(q) \/ Answered(q)
Working(e) ==
    \/ Swap(e) \/ SwapFails(e) \/ Raise(e)
    \/ e \in Renders /\ Rendering(e)
    \/ e \in Queries /\ Querying(e)

BudgetNext ==
    \/ \E e \in Evaluations : Working(e)
    \/ \E r \in Renders : Cancel(r)
    \/ (\A e \in Evaluations : doing[e] \in Ended) /\ UNCHANGED budgetVars

\* Every thread runs while it can.  Nothing asks that a swap succeeds.
BudgetSpec ==
    /\ BudgetInit /\ [][BudgetNext]_budgetVars
    /\ \A e \in Evaluations : WF_budgetVars(Working(e))

-----------------------------------------------------------------------------
\* Properties

BudgetTypeOK ==
    /\ {used, peak, highest} \subseteq Nat
    /\ store \in Seq(Range(KeyOf))
    /\ doing \in [Evaluations ->
          {"idle", "looks", "remembers", "checks", "reserves", "raises", "runs",
           "reads", "releases", "charges", "holds", "stores"} \union Ended]
    /\ ask \in [Evaluations -> [bytes : Nat, wanted : Nat, seen : Nat]]
    /\ runs \in [Evaluations -> Nat]
    /\ inFrame \in [Renders -> Seq(Nat)]
    /\ cancelled \subseteq Renders
    /\ fill \in [Queries -> Seq([tile : SegmentTiles, reads : Seq(SegmentTiles)])]
    /\ {toRead, heldTiles, evaluated} \subseteq [Queries -> Seq(SegmentTiles)]

\* What is reserved and not given back: a render has its batch, a query
\* one working set for every tile it evaluates and the bytes of those it
\* holds.
BatchOf(r) == IF doing[r] \in {"raises", "runs"} THEN runs[r] * WorkingBytes[r] ELSE 0
Under(q) ==
    Len(fill[q]) - (IF doing[q] \in {"reserves", "releases", "charges", "holds", "stores"}
                    THEN 1 ELSE 0)
HeldBy(q) == Len(heldTiles[q]) + (IF doing[q] \in {"holds", "stores"} THEN 1 ELSE 0)
RunBytes ==
    [e \in Evaluations |-> IF e \in Renders THEN BatchOf(e) ELSE Under(e) * WorkingBytes[e]]
HeldBytes ==
    [e \in Evaluations |-> IF e \in Renders THEN 0 ELSE HeldBy(e) * TileBytes]

\* The sum of what the evaluations have, each of its bytes counted once.
Together(bytes) == Cardinality(UNION {{e} \X (1 .. bytes[e]) : e \in Evaluations})

\* No reservation is lost or given back twice, whatever fails, is stopped,
\* or swaps at the same time: the use is exactly what the evaluations have.
UsedIsReserved == used = Together(RunBytes) + Together(HeldBytes)

\* Whenever no reservation is between its swap and its raise, the peak is
\* the most that was ever reserved: not less by a raise that was lost, not
\* more than was reserved at one time.
PeakIsHighest ==
    (\A e \in Evaluations : doing[e] \notin {"raises", "holds"}) => peak = highest

\* What runs passes the target by at most one working set for each render
\* and each tile a query evaluates: what is promised of evaluations that
\* overlap, without the tiles that queries hold.
PacedByTarget ==
    used - Together(HeldBytes)
      <= TargetBytes + Together([e \in Evaluations |->
                     IF e \in Renders THEN WorkingBytes[e] ELSE Segments * WorkingBytes[e]])

\* A render's tiles are written once each and in order, however many every
\* batch was given; and one that is done has written all.
TilesInOrder ==
    \A r \in Renders :
        /\ inFrame[r] = [i \in 1 .. Len(inFrame[r]) |-> i]
        /\ doing[r] = "done" => Len(inFrame[r]) = TileCount[r]

\* The store keeps one estimate for a key, and no more than its entries,
\* when evaluations miss the same key at the same time.
StoreSound ==
    /\ IsInjective(store)
    /\ Len(store) <= StoreEntries

\* While what a query reads fits, it evaluates each tile once.
EvaluatedOnce ==
    \A q \in Queries :
        Cardinality(Range(evaluated[q])) <= Capacity => IsInjective(evaluated[q])

\* One point through so many segments reads at most that many tiles: one
\* of the last, nine of the one before, 25 of the one before that.
Cells == UNION {{d} \X ((-d .. d) \X (-d .. d)) : d \in 0 .. Segments - 1}
PointCost ==
    \A q \in Queries : \E p \in Points :
        Cardinality(Range(evaluated[q])) <= Cardinality(Range(p)) * Cardinality(Cells)

\* A reduction reads the whole stage of the last segment, tile by tile.
\* While three rows of tiles of the segment before and the row being
\* walked fit, each tile of either is evaluated once all the same.
WalkedOnce ==
    Segments <= 2 /\ 4 * GridSide <= Capacity =>
        \A q \in Queries : IsInjective(evaluated[q])

\* What a query holds is bounded and holds no tile twice, also when the
\* tiles its evaluations wait for push each other out.
HeldWithinCapacity ==
    \A q \in Queries : Len(heldTiles[q]) <= Capacity /\ IsInjective(heldTiles[q])

\* What the budget promises, whatever the target, the tiles and whoever
\* runs: the use is exactly what the evaluations have, the peak the most
\* that was ever used, and what runs passes the target by a working set
\* each; tiles are written in order, the store keeps a key once, and a
\* query holds no more than it may, reads within the cone of its points
\* and evaluates a tile once while what it reads fits.
BudgetSound ==
    /\ BudgetTypeOK /\ UsedIsReserved /\ PeakIsHighest /\ PacedByTarget
    /\ TilesInOrder /\ StoreSound
    /\ EvaluatedOnce /\ PointCost /\ HeldWithinCapacity

\* Nothing here refuses work: every evaluation ends, though the target is
\* taken, the swaps of others come between and a tile needs more than all.
EvaluationsEnd == \A e \in Evaluations : []<>(doing[e] \in Ended)

=============================================================================
