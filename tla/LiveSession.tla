----------------------------- MODULE LiveSession -----------------------------
(***************************************************************************)
(* The live session (api/transport.rs): the file beside the catalog that   *)
(* names a listener, the thread that accepts connections, the threads that *)
(* serve them and the counter they share; and the processes that come and  *)
(* go on one catalog (app/lifecycle.rs).                                   *)
(*                                                                         *)
(* A process dies at any point: the system closes its sockets and frees    *)
(* its catalog, and its session file stays.                                *)
(*                                                                         *)
(* The Faulty... variants are used by no action: each is a plausible slip  *)
(* in the definition after it, and a run must notice it.                   *)
(***************************************************************************)
EXTENDS Naturals, Sequences, FiniteSets

CONSTANTS Processes, Peers,
    NoProcess,      \* no process: a free catalog, no session file
    Waker,          \* the connection a listener that stops makes to itself
    MaxClients

LiveSessionAssumption ==
    /\ NoProcess \notin Processes /\ Waker \notin Peers
    /\ MaxClients \in Nat \ {0}

VARIABLES
    stage,          \* where each process is in its life
    catalog,        \* the process that owns the catalog
    file,           \* the process whose listener the session file names
    accepting,      \* each listener's thread
    stopping,       \* its flag
    held,           \* the connection that the thread has in hand
    backlog,        \* connections not accepted yet
    count,          \* its clients
    connection,     \* how far each client's connection got
    server          \* the process it is to

processes == <<stage, catalog, file>>
clients == <<connection, server>>
sessionVars == <<stage, catalog, file, accepting, stopping, held, backlog, count, connection, server>>

SessionInit ==
    /\ stage = [p \in Processes |-> "new"] /\ catalog = NoProcess /\ file = NoProcess
    /\ accepting = [p \in Processes |-> "none"] /\ stopping = [p \in Processes |-> FALSE]
    /\ held = [p \in Processes |-> Waker] /\ backlog = [p \in Processes |-> <<>>]
    /\ count = [p \in Processes |-> 0]
    /\ connection = [c \in Peers |-> "none"] /\ server = [c \in Peers |-> NoProcess]

Goes(p, from, to) == stage[p] = from /\ stage' = [stage EXCEPT ![p] = to]
Listens(p) == accepting[p] \notin {"none", "done"}

\* A socket that closes ends the connections that were not served.
Reset(p, ended) ==
    connection' = [c \in Peers |->
        IF server[c] = p /\ connection[c] \in ended THEN "gone" ELSE connection[c]]

---------------------------------------------------------------------------
\* A process starts: it owns the catalog or leaves; a file it finds was
\* left by a process that died, and removing it may fail; its own file is
\* created or there is no live session.

Own(p) ==
    /\ Goes(p, "new", IF catalog = NoProcess THEN "owner" ELSE "over")
    /\ catalog' = IF catalog = NoProcess THEN p ELSE catalog
    /\ UNCHANGED <<file, accepting, stopping, held, backlog, count, clients>>

Clear(p) ==
    /\ Goes(p, "owner", "cleared") /\ file' \in {NoProcess, file}
    /\ UNCHANGED <<catalog, accepting, stopping, held, backlog, count, clients>>

Start(p) ==
    /\ Goes(p, "cleared", "serving")
    /\ IF file = NoProcess
       THEN file' = p /\ accepting' = [accepting EXCEPT ![p] = "waiting"]
       ELSE UNCHANGED <<file, accepting>>
    /\ UNCHANGED <<catalog, stopping, held, backlog, count, clients>>

---------------------------------------------------------------------------
\* A client reads the file, later connects, and waits to be accepted.

Read(c) ==
    /\ connection[c] = "none" /\ file # NoProcess
    /\ connection' = [connection EXCEPT ![c] = "read"]
    /\ server' = [server EXCEPT ![c] = file]
    /\ UNCHANGED <<processes, accepting, stopping, held, backlog, count>>

Connect(c) ==
    LET p == server[c] IN
    /\ connection[c] = "read"
    /\ IF Listens(p)
       THEN /\ connection' = [connection EXCEPT ![c] = "waiting"]
            /\ backlog' = [backlog EXCEPT ![p] = Append(@, c)]
       ELSE connection' = [connection EXCEPT ![c] = "gone"] /\ UNCHANGED backlog
    /\ UNCHANGED <<processes, accepting, stopping, held, count, server>>

---------------------------------------------------------------------------
\* The accept loop: the flag is looked at after a connection is taken, the
\* counter is raised before it is compared, and lowered again by whoever
\* raised it.

Accept(p) ==
    /\ accepting[p] = "waiting" /\ backlog[p] # <<>>
    /\ held' = [held EXCEPT ![p] = Head(backlog[p])]
    /\ backlog' = [backlog EXCEPT ![p] = Tail(@)]
    /\ accepting' = [accepting EXCEPT ![p] = "taken"]
    /\ UNCHANGED <<processes, stopping, count, clients>>

Leaves(p, ended) ==
    /\ accepting' = [accepting EXCEPT ![p] = "done"]
    /\ backlog' = [backlog EXCEPT ![p] = <<>>]
    /\ Reset(p, ended)

Check(p) ==
    /\ accepting[p] = "taken"
    /\ IF stopping[p]
       THEN Leaves(p, {"waiting"})
       ELSE accepting' = [accepting EXCEPT ![p] = "checked"] /\ UNCHANGED <<backlog, connection>>
    /\ UNCHANGED <<processes, stopping, held, count, server>>

AcceptFails(p) ==
    /\ accepting[p] = "waiting"
    /\ Leaves(p, {"waiting"})
    /\ UNCHANGED <<processes, stopping, held, count, server>>

Full(p) == count[p] >= MaxClients

Moved(c, to) ==
    IF c = Waker THEN UNCHANGED connection ELSE connection' = [connection EXCEPT ![c] = to]

Admit(p) ==
    /\ accepting[p] = "checked"
    /\ count' = [count EXCEPT ![p] = @ + 1]
    /\ IF Full(p)
       THEN accepting' = [accepting EXCEPT ![p] = "over"] /\ UNCHANGED connection
       ELSE accepting' = [accepting EXCEPT ![p] = "waiting"] /\ Moved(held[p], "started")
    /\ UNCHANGED <<processes, stopping, held, backlog, server>>

Lowered(p) == count[p] - 1

TurnAway(p) ==
    /\ accepting[p] = "over"
    /\ count' = [count EXCEPT ![p] = Lowered(p)]
    /\ accepting' = [accepting EXCEPT ![p] = "waiting"] /\ Moved(held[p], "gone")
    /\ UNCHANGED <<processes, stopping, held, backlog, server>>

---------------------------------------------------------------------------
\* A served connection: registered with the owner, forgotten when it ends,
\* and only then is its place free.

Advances(c, from, to) ==
    /\ connection[c] = from /\ connection' = [connection EXCEPT ![c] = to]
    /\ UNCHANGED <<processes, accepting, stopping, held, backlog, server>>

Register(c) == Advances(c, "started", "registered") /\ UNCHANGED count
Depart(c) == Advances(c, "registered", "left") /\ UNCHANGED count
FaultyRelease(c) == Advances(c, "left", "gone") /\ UNCHANGED count
Release(c) ==
    /\ Advances(c, "left", "gone")
    /\ count' = [count EXCEPT ![server[c]] = @ - 1]

---------------------------------------------------------------------------
\* The window closes: the flag, a connection to wake the accept loop, its
\* end, the file, and the catalog last.  The connection can time out when
\* the backlog is full; the thread is then left to itself.

Flag(p) ==
    /\ Goes(p, "serving", "flagged") /\ stopping' = [stopping EXCEPT ![p] = TRUE]
    /\ UNCHANGED <<catalog, file, accepting, held, backlog, count, clients>>

Wake(p) ==
    /\ Listens(p) /\ Goes(p, "flagged", "joining")
    /\ backlog' = [backlog EXCEPT ![p] = Append(@, Waker)]
    /\ UNCHANGED <<catalog, file, accepting, stopping, held, count, clients>>

WakeFails(p) ==
    /\ ~Listens(p) \/ backlog[p] # <<>>
    /\ Goes(p, "flagged", "joined")
    /\ UNCHANGED <<catalog, file, accepting, stopping, held, backlog, count, clients>>

Join(p) ==
    /\ accepting[p] = "done" /\ Goes(p, "joining", "joined")
    /\ UNCHANGED <<catalog, file, accepting, stopping, held, backlog, count, clients>>

\* A process without a live session has no file to remove.
RemoveFile(p) ==
    /\ Goes(p, "joined", "removed")
    /\ file' = IF accepting[p] = "none" THEN file ELSE NoProcess
    /\ UNCHANGED <<catalog, accepting, stopping, held, backlog, count, clients>>

\* The owner stops and its thread ends; the process exits.
Dies(p) ==
    /\ stage' = [stage EXCEPT ![p] = "over"]
    /\ catalog' = IF catalog = p THEN NoProcess ELSE catalog
    /\ accepting' = [accepting EXCEPT ![p] = IF Listens(p) THEN "done" ELSE @]
    /\ backlog' = [backlog EXCEPT ![p] = <<>>]
    /\ Reset(p, {"waiting", "started", "registered", "left"})
    /\ count' = [count EXCEPT ![p] = 0]
    /\ UNCHANGED <<file, stopping, held, server>>

Exit(p) == stage[p] = "removed" /\ Dies(p)
Crash(p) == stage[p] \notin {"new", "over"} /\ Dies(p)

AllOver == (\A p \in Processes : stage[p] = "over") /\ UNCHANGED sessionVars

Listener(p) == Accept(p) \/ Check(p) \/ Admit(p) \/ TurnAway(p)
Closing(p) == Wake(p) \/ WakeFails(p) \/ Join(p) \/ RemoveFile(p) \/ Exit(p)

SessionNext ==
    \/ \E p \in Processes :
          \/ Own(p) \/ Clear(p) \/ Start(p) \/ Flag(p) \/ Crash(p)
          \/ Listener(p) \/ AcceptFails(p) \/ Closing(p)
    \/ \E c \in Peers : Read(c) \/ Connect(c) \/ Register(c) \/ Depart(c) \/ Release(c)
    \/ AllOver

SessionSpec == SessionInit /\ [][SessionNext]_sessionVars

\* The threads of a process run; a client may stay silent for ever.
FairSession == SessionSpec /\ \A p \in Processes : WF_sessionVars(Listener(p)) /\ WF_sessionVars(Closing(p))

---------------------------------------------------------------------------
Served(p) == {c \in Peers : server[c] = p /\ connection[c] \in {"started", "registered", "left"}}

\* The types of the variables.
SessionTypeOK ==
    /\ stage \in [Processes -> {"new", "owner", "cleared", "serving", "flagged", "joining",
                               "joined", "removed", "over"}]
    /\ {catalog, file} \subseteq Processes \union {NoProcess}
    /\ accepting \in [Processes -> {"none", "waiting", "taken", "checked", "over", "done"}]
    /\ stopping \in [Processes -> BOOLEAN] /\ held \in [Processes -> Peers \union {Waker}]
    /\ backlog \in [Processes -> Seq(Peers \union {Waker})]
    /\ count \in [Processes -> 0 .. MaxClients + 1]
    /\ connection \in [Peers -> {"none", "read", "waiting", "started", "registered",
                                  "left", "gone"}]
    /\ server \in [Peers -> Processes \union {NoProcess}]

\* No more than MAX_CLIENTS connections are served or known to the owner at
\* once, however they come, end and are turned away.
WithinMax == \A p \in Processes : Cardinality(Served(p)) <= MaxClients

\* The counter that the status bar shows is the number of connections that
\* are served, but for the one that is being turned away: no place is lost.
CountTrue ==
    \A p \in Processes : stage[p] # "over" =>
        count[p] = Cardinality(Served(p)) + (IF accepting[p] = "over" THEN 1 ELSE 0)

\* The session file of a process that serves is there and names it: no
\* earlier process removes it when it closes, no later one replaces it.
FileNamesServer ==
    \A p \in Processes : stage[p] = "serving" /\ accepting[p] # "none" => file = p

\* The window serves no more connections than MAX_CLIENTS and counts them,
\* and its session file names it while it serves.
SessionServed == SessionTypeOK /\ WithinMax /\ CountTrue /\ FileNamesServer

\* A window that closes takes its listener, its file and its process with
\* it, although the accept loop sleeps and clients keep their connections.
CloseEnds == \A p \in Processes : []<>(stage[p] \notin {"flagged", "joining", "joined", "removed"})

\* While a process serves, the listener its session file names accepts
\* (docs/user-guide.md:540: "That session accepts the same ... requests").
Advertised ==
    \A p \in Processes : stage[p] = "serving" /\ file = p => accepting[p] # "done"
=============================================================================
