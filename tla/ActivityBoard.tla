---------------------------- MODULE ActivityBoard ----------------------------
(***************************************************************************)
(* The host's board of long-running work (activity.rs): the entries of the *)
(* work that runs now, those of work that ended recently, and a sequence   *)
(* that tells a poller whether anything changed.                           *)
(*                                                                         *)
(* Many threads publish.  A thread reads the clock BEFORE it takes the     *)
(* board's lock, when its work begins and when it ends, so other threads   *)
(* may take the lock in between; what happens under the lock is one action.*)
(*                                                                         *)
(* Instants are counted in ticks.  A phase stands for the phase and the    *)
(* progress an entry last reported, which change it alike.                 *)
(***************************************************************************)
EXTENDS Integers, Sequences, FiniteSets

CONSTANTS
    Works,        \* threads, each with one piece of work at a time
    Phases,       \* what an entry can report; one of them is Unreported
    Unreported,   \* an entry that reported nothing
    MaxActive,    \* MAX_ACTIVE
    MaxRecent,    \* MAX_RECENT
    Threshold,    \* RECENT_THRESHOLD, in ticks
    MaxClock,     \* bound: ticks
    MaxChanges    \* bound: changes of the board

ActivityAssumption ==
    /\ MaxActive \in Nat \ {0}
    /\ MaxRecent \in Nat \ {0}
    /\ {Threshold, MaxClock, MaxChanges} \subseteq Nat
    /\ Unreported \in Phases

VARIABLES
    clock,
    nextId, sequence, untracked,
    active,    \* the entries of work that runs, in the order of the list
    recent,    \* the entries of work that ended, the newest first
    work,      \* per thread, where its work stands
    \* history
    finished   \* every entry that left the active list, in that order

board == <<nextId, sequence, untracked, active, recent>>
boardVars == <<clock, board, work, finished>>

NoEntry == 0
Ticks == 0 .. MaxClock
Ids == 1 .. MaxChanges + 1

\* An entry, and the instants it is kept with (Running, Finished).
Entry == [id : Ids, of : Works, phase : Phases, started : Ticks]
Ended == [entry : Entry, ended : Ticks]

\* A guard names its entry, or none when the board was full.
Guard == Ids \union {NoEntry}
Idle == [at |-> "idle", guard |-> NoEntry, read |-> 0]

BoardInit ==
    /\ clock = 0
    /\ nextId = 1 /\ sequence = 0 /\ untracked = 0
    /\ active = <<>> /\ recent = <<>>
    /\ work = [w \in Works |-> Idle]
    /\ finished = <<>>

Tick ==
    /\ clock < MaxClock
    /\ clock' = clock + 1
    /\ UNCHANGED <<board, work, finished>>

\* Board::changed
Changed ==
    /\ sequence < MaxChanges
    /\ sequence' = sequence + 1

Move(w, state) == work' = [work EXCEPT ![w] = state]

-----------------------------------------------------------------------------
\* ActivityBoard::begin: the clock, then the lock.

BeginReads(w) ==
    /\ work[w].at = "idle"
    /\ Move(w, [Idle EXCEPT !.at = "beginning", !.read = clock])
    /\ UNCHANGED <<clock, board, finished>>

BeginTracked(w) ==
    /\ work[w].at = "beginning"
    /\ Len(active) < MaxActive
    /\ active' = Append(active,
         [id |-> nextId, of |-> w, phase |-> Unreported,
          started |-> work[w].read])
    /\ nextId' = nextId + 1
    /\ Changed
    /\ Move(w, [at |-> "running", guard |-> nextId, read |-> 0])
    /\ UNCHANGED <<clock, untracked, recent, finished>>

\* A bug for the mutants: the guard of untracked work names the next entry.
FaultyUntrackedGuard == nextId

UntrackedGuard == NoEntry

BeginUntracked(w) ==
    /\ work[w].at = "beginning"
    /\ Len(active) >= MaxActive
    /\ untracked' = untracked + 1
    /\ Changed
    /\ Move(w, [at |-> "running", guard |-> UntrackedGuard, read |-> 0])
    /\ UNCHANGED <<clock, nextId, active, recent, finished>>

-----------------------------------------------------------------------------
\* Activity::phase and progress, which say nothing for untracked work.

Place(id) == {i \in DOMAIN active : active[i].id = id}

ReportChanges == Changed

Report(w, phase) ==
    /\ work[w].at = "running"
    /\ \E i \in Place(work[w].guard) :
          /\ active[i].phase # phase
          /\ active' = [active EXCEPT ![i].phase = phase]
    /\ ReportChanges
    /\ UNCHANGED <<clock, nextId, untracked, recent, work, finished>>

-----------------------------------------------------------------------------
\* Activity::end, by finish or by a drop of the guard, with an outcome no
\* property depends on; the guard is taken, so there is one end.
\* Untracked work ends without the board.

EndReads(w) ==
    /\ work[w].at = "running" /\ work[w].guard # NoEntry
    /\ Move(w, [work[w] EXCEPT !.at = "ending", !.read = clock])
    /\ UNCHANGED <<clock, board, finished>>

EndUntracked(w) ==
    /\ work[w].at = "running" /\ work[w].guard = NoEntry
    /\ Move(w, Idle)
    /\ UNCHANGED <<clock, board, finished>>

Without(i) == SubSeq(active, 1, i - 1) \o SubSeq(active, i + 1, Len(active))

FirstRecent(list) ==
    IF Len(list) > MaxRecent THEN SubSeq(list, 1, MaxRecent) ELSE list

End(w) ==
    /\ work[w].at = "ending"
    /\ \E i \in Place(work[w].guard) :
         LET gone == [entry |-> active[i], ended |-> work[w].read]
         IN  /\ active' = Without(i)
             /\ recent' = IF gone.ended - gone.entry.started >= Threshold
                          THEN FirstRecent(<<gone>> \o recent) ELSE recent
             /\ finished' = Append(finished, gone)
    /\ Changed
    /\ Move(w, Idle)
    /\ UNCHANGED <<clock, nextId, untracked>>

BoardNext ==
    \/ Tick
    \/ \E w \in Works :
          \/ BeginReads(w) \/ BeginTracked(w) \/ BeginUntracked(w)
          \/ \E phase \in Phases \ {Unreported} : Report(w, phase)
          \/ EndReads(w) \/ EndUntracked(w) \/ End(w)
    \/ /\ sequence = MaxChanges      \* the bound: the board is left alone
       /\ UNCHANGED boardVars

BoardSpec == BoardInit /\ [][BoardNext]_boardVars

-----------------------------------------------------------------------------
\* Properties

BoardTypeOK ==
    /\ clock \in Ticks
    /\ nextId \in Ids
    /\ sequence \in 0 .. MaxChanges /\ untracked \in 0 .. MaxChanges
    /\ active \in Seq(Entry) /\ Len(active) <= MaxActive
    /\ recent \in Seq(Ended) /\ Len(recent) <= MaxRecent
    /\ work \in [Works -> [at : {"idle", "beginning", "running", "ending"},
                           guard : Guard, read : Ticks]]
    /\ finished \in Seq(Ended)

\* The board shows exactly the work that runs and was tracked: one entry
\* for each guard that names one, its own, until that guard ends; an
\* entry never outlives its work, and no end takes another's entry away.
EntriesAreGuards ==
    /\ \A i \in DOMAIN active : work[active[i].of].guard = active[i].id
    /\ \A w \in Works : work[w].guard # NoEntry =>
          \E i \in DOMAIN active :
             active[i].id = work[w].guard /\ active[i].of = w

RanLong(e) == e.ended - e.entry.started >= Threshold

\* The work that ran long enough, in the order it left the board.
\* (SelectSeq, written as a function that a proof can unfold.)
LongOf(list) ==
    LET kept[i \in 0 .. Len(list)] ==
            IF i = 0 THEN << >>
            ELSE IF RanLong(list[i]) THEN Append(kept[i - 1], list[i])
            ELSE kept[i - 1]
    IN  kept[Len(list)]

\* The recent list is the work that ran long enough and ended last, in the
\* order it left the board: short work evicts nothing from it.
RecentIsTheLast ==
    LET long == LongOf(finished)
        n == Len(recent)
    IN  /\ n = IF Len(long) < MaxRecent THEN Len(long) ELSE MaxRecent
        /\ \A i \in 1 .. n : recent[i] = long[Len(long) + 1 - i]

\* A snapshot with the sequence of an earlier one holds what that held: a
\* poller that skips it misses nothing.
SequenceTellsChange ==
    [][sequence' = sequence <=> <<active, recent, untracked>>' =
                                <<active, recent, untracked>>]_boardVars

\* The board shows exactly the work that runs and was tracked, its recent
\* list the long work that ended last, and its sequence tells a poller
\* whether anything changed.
BoardTells ==
    /\ [](BoardTypeOK /\ EntriesAreGuards /\ RecentIsTheLast)
    /\ SequenceTellsChange

\* The comments and the panel's document say the recent list is newest
\* first, the time since each ended never falling along it.
NewestFirst ==
    \A i, j \in DOMAIN recent : i < j => recent[i].ended >= recent[j].ended

=============================================================================
