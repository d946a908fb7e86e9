--------------------------------- MODULE Owner ---------------------------------
(***************************************************************************)
(* The catalog owner's thread as its clients see it (api/owner.rs): one    *)
(* message at a time, an event for every change, a wake for every watcher  *)
(* but the one whose call made it, and a table of first answers so that a  *)
(* mutation sent again is answered and not repeated.                       *)
(*                                                                         *)
(* A client follows the log by asking for the events after the last it     *)
(* read, when it is woken or whenever it likes, and sends a mutation again *)
(* when it did not hear the answer.  What a handler does is its outcome:   *)
(* how many changes it announced and whether it succeeded.                 *)
(***************************************************************************)
EXTENDS EventLog, FiniteSets

CONSTANTS
    Clients,
    Nobody,       \* the origin of a change no call made
    Requests,     \* mutations the table remembers: records of id and input
    Bytes,        \* the size of the answer to each
    REQUESTS,      \* most answers the table keeps
    REQUEST_BYTES, \* most bytes of answers it keeps
    MaxSequence,  \* bound: events recorded
    MaxSends      \* bound: successful runs of a request

OwnerAssumption ==
    /\ Nobody \notin Clients
    /\ Requests \subseteq [id : {r.id : r \in Requests}, input : {r.input : r \in Requests}]
    /\ Bytes \in [Requests -> Nat]
    /\ {MaxSequence, MaxSends} \subseteq Nat

TableAssumption == REQUESTS \in Nat \ {0} /\ REQUEST_BYTES \in Nat

-------------------------------------------------------------------------------
\* The request table (api/owner/requests.rs): the first answers of the
\* mutations the catalog does not deduplicate itself, oldest first,
\* bounded in number and in bytes.  A request is a record of its identity
\* (scope and request_id) and its input (a hash of method and parameters
\* in the code); an answer is the number the handler gave it.

EmptyTable == [answered |-> << >>, bytes |-> 0]

Named(table, request) ==
    {i \in DOMAIN table.answered : table.answered[i].request.id = request.id}

\* RequestTable::answered: nothing, a conflict, or the first answer.
Answered(table, request) ==
    IF Named(table, request) = {} THEN [kind |-> "new"]
    ELSE LET first == table.answered[CHOOSE i \in Named(table, request) : TRUE]
         IN  IF first.request.input # request.input THEN [kind |-> "conflict"]
             ELSE [kind |-> "first", answer |-> first.answer]

Over(table) == Len(table.answered) > REQUESTS \/ table.bytes > REQUEST_BYTES

DropOldest(table) ==
    [answered |-> Tail(table.answered),
     bytes    |-> table.bytes - Head(table.answered).bytes]

\* Dropping one at a time until neither bound is passed: each answer adds
\* to both, so as many drops as there are answers are always enough.
Trimmed(table) ==
    LET after[n \in 0 .. Len(table.answered)] ==
            IF n = 0 THEN table
            ELSE IF Over(after[n - 1]) /\ after[n - 1].answered # << >>
                 THEN DropOldest(after[n - 1]) ELSE after[n - 1]
    IN  after[Len(table.answered)]

\* RequestTable::record: keep a first answer, unless it alone is too big.
Keep(table, request, answer, bytes) ==
    IF bytes > REQUEST_BYTES THEN table
    ELSE Trimmed([answered |-> Append(table.answered,
                                      [request |-> request, answer |-> answer,
                                       bytes |-> bytes]),
                  bytes    |-> table.bytes + bytes])

-------------------------------------------------------------------------------
VARIABLES
    log,        \* the owner's event log
    notified,   \* the newest sequence the watchers have been woken for
    table,      \* the owner's request table
    watchers,   \* clients that asked to be woken
    wake,       \* a wake each client has not yet acted on
    connected,  \* clients that have not gone
    \* each client's reading
    cursor,     \* the sequence it reads after
    read,       \* events it was given
    lost,       \* events it was told it missed
    watched,    \* the newest event when it began to watch
    \* what happened, for the properties
    ran,        \* successful runs of each request
    forgot      \* times an answer to each was dropped or not kept

owner == <<log, notified, table, watchers, connected>>
reading == <<cursor, read, lost, watched>>
past == <<ran, forgot>>
vars == <<owner, wake, reading, past>>

Init ==
    /\ log = EmptyLog
    /\ notified = 0
    /\ table = EmptyTable
    /\ watchers = {}
    /\ wake = [c \in Clients |-> FALSE]
    /\ connected = Clients
    /\ cursor = [c \in Clients |-> 0]
    /\ read = [c \in Clients |-> {}]
    /\ lost = [c \in Clients |-> {}]
    /\ watched = [c \in Clients |-> 0]
    /\ ran = [r \in Requests |-> 0]
    /\ forgot = [r \in Requests |-> 0]

\* record_announced, then notify_watchers: the events of one message, and
\* one wake for each watcher but the caller.
Announce(by, changes) ==
    LET recorded[n \in 0 .. changes] ==
            IF n = 0 THEN log
            ELSE RecordEvent(recorded[n - 1], [sequence |-> 0, by |-> by])
    IN  /\ log' = recorded[changes]
        /\ notified' = log'.sequence
        /\ wake' = [c \in Clients |->
                      \/ wake[c]
                      \/ log'.sequence # notified /\ c \in watchers /\ c # by]

Changes == 0 .. (IF MaxSequence - log.sequence < 2 THEN MaxSequence - log.sequence ELSE 2)

\* Requests whose first answer is kept.
Remembered(t) == {t.answered[i].request : i \in DOMAIN t.answered}

\* A bug for the mutants: a retry runs the handler again.
ForgetfulMutate(c, r) ==
    /\ c \in connected
    /\ \E changes \in Changes :
          /\ Announce(c, changes)
          /\ UNCHANGED <<watchers, connected>>
          /\ ran[r] < MaxSends
          /\ ran' = [ran EXCEPT ![r] = @ + 1]
          /\ table' = Keep(table, r, ran'[r], Bytes[r])
          /\ UNCHANGED forgot
    /\ UNCHANGED reading

\* Owner::call of a mutation the table remembers: the first answer again,
\* a conflict, or the handler, whose answer is kept when it succeeds.
Mutate(c, r) ==
    /\ c \in connected
    /\ LET answered == Answered(table, r)
       IN  IF answered.kind # "new"
           THEN UNCHANGED <<owner, wake, past>>
           ELSE \E changes \in Changes, succeeds \in BOOLEAN :
                  /\ Announce(c, changes)
                  /\ UNCHANGED <<watchers, connected>>
                  /\ IF ~succeeds THEN UNCHANGED <<table, past>>
                     ELSE /\ ran[r] < MaxSends
                          /\ ran' = [ran EXCEPT ![r] = @ + 1]
                          /\ table' = Keep(table, r, ran'[r], Bytes[r])
                          /\ forgot' = [q \in Requests |->
                                IF q \in (Remembered(table) \union {r}) \ Remembered(table')
                                THEN ran'[q] ELSE forgot[q]]
    /\ UNCHANGED reading

\* Owner::call of anything else: an edit, whose retry the catalog answers,
\* or a read.  It may announce changes and may fail after some of them.
CallOther(c) ==
    /\ c \in connected
    /\ \E changes \in Changes : Announce(c, changes)
    /\ UNCHANGED <<table, watchers, connected, reading, past>>

\* A message no client sent: a finished capability job or source job.
Finished ==
    /\ \E changes \in Changes : Announce(Nobody, changes)
    /\ UNCHANGED <<table, watchers, connected, reading, past>>

\* OwnerHandle::watch_events.
WatchEvents(c) ==
    /\ c \in connected \ watchers
    /\ watchers' = watchers \union {c}
    /\ watched' = [watched EXCEPT ![c] = log.sequence]
    /\ UNCHANGED <<log, notified, table, connected, wake, cursor, read, lost, past>>

\* events.since: the client takes the answer's sequence as its next place,
\* and has missed what a gap says lies before the oldest event given.
ReadEvents(c) ==
    LET answer == Since(log, cursor[c])
        given  == {answer.events[i].sequence : i \in DOMAIN answer.events}
        missed == {s \in 1 .. answer.sequence : s > cursor[c] /\ \A g \in given : s < g}
    IN  /\ c \in connected
        /\ wake' = [wake EXCEPT ![c] = FALSE]
        /\ cursor' = [cursor EXCEPT ![c] = answer.sequence]
        /\ read' = [read EXCEPT ![c] = @ \union given]
        /\ lost' = [lost EXCEPT ![c] = IF answer.gap THEN @ \union missed ELSE @]
        /\ UNCHANGED <<owner, watched, past>>

\* Owner::disconnect, of what this module holds.
Disconnect(c) ==
    /\ c \in connected
    /\ connected' = connected \ {c}
    /\ watchers' = watchers \ {c}
    /\ UNCHANGED <<log, notified, table, wake, reading, past>>

Next ==
    \/ \E c \in Clients :
         \/ \E r \in Requests : Mutate(c, r)
         \/ CallOther(c)
         \/ WatchEvents(c)
         \/ ReadEvents(c)
         \/ Disconnect(c)
    \/ Finished

Spec == Init /\ [][Next]_vars

-------------------------------------------------------------------------------
Events == [sequence : 1 .. MaxSequence, by : Clients \union {Nobody}]

TypeOK ==
    /\ log.sequence \in 0 .. MaxSequence
    /\ log.events \in Seq(Events)
    /\ Len(log.events) <= EVENT_CAPACITY
    /\ notified \in 0 .. MaxSequence
    /\ watchers \subseteq connected /\ connected \subseteq Clients
    /\ wake \in [Clients -> BOOLEAN]
    /\ cursor \in [Clients -> 0 .. MaxSequence]
    /\ watched \in [Clients -> 0 .. MaxSequence]
    /\ read \in [Clients -> SUBSET (1 .. MaxSequence)]
    /\ lost \in [Clients -> SUBSET (1 .. MaxSequence)]
    /\ Remembered(table) \subseteq Requests
    /\ ran \in [Requests -> 0 .. MaxSends]
    /\ forgot \in [Requests -> 0 .. MaxSends]

\* A client that follows the log has, for every event at or before its
\* place, been given that event once or been told that it missed it: the
\* gap is announced at the first event dropped, neither later nor earlier.
EveryEventAccounted ==
    \A c \in Clients :
        /\ read[c] \union lost[c] = 1 .. cursor[c]
        /\ read[c] \intersect lost[c] = {}

\* While a watcher has not read an event of somebody else's recorded since
\* it began to watch, a wake is waiting for it: waking once per message
\* and leaving out the caller loses nobody's change.
WatchersWoken ==
    \A c \in watchers : \A i \in DOMAIN log.events :
        LET e == log.events[i]
        IN  e.sequence > cursor[c] /\ e.sequence > watched[c] /\ e.by # c => wake[c]

\* A mutation runs again only after the answer to every earlier run was
\* forgotten, and two inputs under one identity are never both remembered.
RunOncePerAnswer ==
    /\ \A r \in Requests :
         ran[r] = forgot[r] + (IF r \in Remembered(table) THEN 1 ELSE 0)
    /\ \A i, j \in DOMAIN table.answered :
         table.answered[i].request.id = table.answered[j].request.id => i = j

\* The bytes of a list of answers.
BytesOf(answers) ==
    LET sum[i \in 0 .. Len(answers)] ==
            IF i = 0 THEN 0 ELSE sum[i - 1] + answers[i].bytes
    IN  sum[Len(answers)]

\* The table's count of bytes is that of the answers it holds, and both
\* bounds hold whenever the owner is between two messages.
TableWithinBounds ==
    /\ table.bytes = BytesOf(table.answered)
    /\ ~Over(table)
\* The four together: what the owner's log, watchers and table promise of
\* every state, whoever calls, repeats, reads and leaves.
LogAndAnswers ==
    /\ TypeOK /\ EveryEventAccounted /\ WatchersWoken
    /\ RunOncePerAnswer /\ TableWithinBounds
===============================================================================
