------------------------------ MODULE Transport ------------------------------
(***************************************************************************)
(* One request of the host's HTTP transport (capabilities/transport): its  *)
(* resolution and connection, the exchange read in slices of time, and the *)
(* redirects it follows.                                                   *)
(*                                                                         *)
(* Time is counted in steps of the clock that blocking calls let pass: a   *)
(* lookup as long as the resolver takes, a connection attempt up to its    *)
(* timeout, a read or write up to one slice.  The server answers anything; *)
(* its bytes are counted, and of a response's framing only what decides    *)
(* where its body ends is kept: one read brings a piece of the body, of a  *)
(* head or of the framing.  Over https a call is one of the TLS session,   *)
(* which uses the socket as often as its handshake and its records need.   *)
(*                                                                         *)
(* The Faulty... variants are used by no action: each is a plausible slip  *)
(* in the definition after it, and a run must notice it.                   *)
(***************************************************************************)
EXTENDS Integers, Sequences, FiniteSets, SequencesExt

CONSTANTS
    Origins,        \* the origins a URL may name
    First,          \* the one the request is for
    ClassOf,        \* each origin's class, "remote" or "loopback"
    Secure,         \* the origins reached by https
    Allowed,        \* the origins a redirect may lead to
    MaxRedirects,
    LookupAnswers,  \* what a lookup may answer: sequences of addresses
    MaxAddresses,   \* a bound on how many addresses it answers
    AddressClass,   \* the class each address belongs to, if any
    Total, IdleTime, ConnectTimeout, Slice,
    LongestLookup,  \* a bound on how long the resolver takes
    HeadLimit,      \* MAX_HEAD_BYTES, in reads
    Limit,          \* max_response_bytes
    Lengths,        \* the body lengths a server may declare or send
    MaxInner        \* a bound on the uses of the socket counted in one call

TransportAssumption ==
    /\ First \in Origins /\ Allowed \subseteq Origins /\ Secure \subseteq Origins
    /\ {MaxRedirects, MaxAddresses, LongestLookup, HeadLimit, Limit, MaxInner} \subseteq Nat
    /\ \A answer \in LookupAnswers :
          answer \in Seq(DOMAIN AddressClass) /\ Len(answer) <= MaxAddresses
    /\ {Total, IdleTime, ConnectTimeout, Slice} \subseteq Nat \ {0}
    /\ Lengths \subseteq Nat

VARIABLES
    now, cancelled, since,      \* the clock; the token and when it was raised
    to, post, credentials,      \* the endpoint, whether a body and an
                                \* Authorization header are sent to it
    followed,                   \* redirects
    step, addresses,            \* addresses still to try
    toWrite, blocked,           \* writes left; inside one blocking call
    inner,                      \* the times the last call used the socket and
                                \* went on, seen by nobody outside of it
    progressed,                 \* when the exchange last got on
    head, framing,              \* reads spent on heads, on a body's framing
    body,                       \* how the body is delimited, and its length
    received, outcome,
    log                         \* history: what was sent, and where

time == <<now, cancelled, since>>
hop == <<to, post, credentials, followed>>
reading == <<head, framing, body, received>>
transportVars == <<now, cancelled, since, to, post, credentials, followed, step, addresses,
                   toWrite, blocked, inner, progressed, head, framing, body, received,
                   outcome, log>>

NoBody == [kind |-> "none", length |-> 0]
Bodies == [kind : {"length", "chunked", "close"}, length : Lengths]
Exchanging == {"write", "head", "body"}

TransportInit ==
    /\ now = 0 /\ cancelled = FALSE /\ since = 0
    /\ to = First /\ post \in BOOLEAN /\ credentials = TRUE /\ followed = 0
    /\ step = "prepare" /\ addresses = <<>> /\ toWrite = 0 /\ blocked = FALSE /\ inner = 0
    /\ progressed = 0 /\ head = 0 /\ framing = 0 /\ body = NoBody
    /\ received = 0 /\ outcome = "none" /\ log = <<>>

End(why) == step' = "over" /\ outcome' = why

Cancel ==
    /\ ~cancelled /\ step # "over"
    /\ cancelled' = TRUE /\ since' = now
    /\ UNCHANGED <<now, hop, step, addresses, toWrite, blocked, inner, progressed, reading,
                   outcome, log>>

---------------------------------------------------------------------------
\* A hop: the token is looked at, the host resolved, an address connected.

Prepare ==
    /\ step = "prepare"
    /\ IF cancelled THEN End("cancelled") ELSE step' = "resolve" /\ UNCHANGED outcome
    /\ UNCHANGED <<time, hop, addresses, toWrite, blocked, inner, progressed, reading, log>>

CheckedAddresses(answer) ==
    \A i \in DOMAIN answer : AddressClass[answer[i]] = ClassOf[to]

Resolve ==
    /\ step = "resolve"
    /\ \E answer \in LookupAnswers, d \in 0 .. LongestLookup :
          /\ now' = now + d
          /\ IF answer # <<>> /\ CheckedAddresses(answer)
             THEN step' = "connect" /\ addresses' = answer /\ UNCHANGED outcome
             ELSE End("failed") /\ UNCHANGED addresses
    /\ UNCHANGED <<cancelled, since, hop, toWrite, blocked, inner, progressed, reading, log>>

Lesser(a, b) == IF a < b THEN a ELSE b
Attempt == Lesser(ConnectTimeout, Total - now)

\* An attempt is refused at once or takes until its time is over.
ConnectFails ==
    /\ step = "connect" /\ addresses # <<>> /\ now < Total
    /\ \E d \in {0, Attempt} : now' = now + d
    /\ addresses' = Tail(addresses)
    /\ UNCHANGED <<cancelled, since, hop, step, toWrite, blocked, inner, progressed, reading,
                   outcome, log>>

NoAddress ==
    /\ step = "connect" /\ (addresses = <<>> \/ now >= Total)
    /\ End("failed")
    /\ UNCHANGED <<time, hop, addresses, toWrite, blocked, inner, progressed, reading, log>>

Sent == [origin |-> to, credentials |-> credentials, post |-> post,
         address |-> Head(addresses)]

Connected ==
    /\ step = "connect" /\ addresses # <<>> /\ now < Total
    /\ \E d \in 0 .. Attempt :
          now' = now + d /\ progressed' = now + d
    /\ step' = "write" /\ toWrite' = IF post THEN 2 ELSE 1
    /\ head' = 0
    /\ log' = Append(log, Sent)
    /\ UNCHANGED <<cancelled, since, hop, addresses, blocked, inner, framing, body, received,
                   outcome>>

---------------------------------------------------------------------------
\* The exchange: before every read and write the token and the deadlines
\* are checked; the socket's part in a call ends with a slice.

TimedOut == now >= Total \/ now - progressed >= IdleTime

MustStop == cancelled \/ TimedOut

StopsHere ==
    /\ step \in Exchanging /\ ~blocked /\ MustStop
    /\ End(IF cancelled THEN "cancelled" ELSE "timed out")
    /\ UNCHANGED <<time, hop, addresses, toWrite, blocked, inner, progressed, reading, log>>

Block ==
    /\ step \in Exchanging /\ ~blocked /\ ~MustStop
    /\ blocked' = TRUE /\ inner' = 0
    /\ UNCHANGED <<time, hop, step, addresses, toWrite, progressed, reading, outcome, log>>

\* The session reads or writes the socket again before it returns: no
\* token, deadline or idle time is looked at in between.
HeldByTls ==
    /\ blocked /\ to \in Secure /\ inner < MaxInner
    /\ \E d \in 0 .. Slice - 1 : now' = now + d
    /\ inner' = inner + 1
    /\ UNCHANGED <<cancelled, since, hop, step, addresses, toWrite, blocked, progressed,
                   reading, outcome, log>>

SliceEnds ==
    /\ blocked
    /\ blocked' = FALSE /\ now' = now + Slice /\ UNCHANGED inner
    /\ UNCHANGED <<cancelled, since, hop, step, addresses, toWrite, progressed, reading,
                   outcome, log>>

\* The call returns, within a slice of the last time it used the socket.
Returns ==
    /\ blocked /\ blocked' = FALSE /\ UNCHANGED inner
    /\ \E d \in 0 .. Slice - 1 : now' = now + d
Progresses == Returns /\ progressed' = now'

Broken ==
    /\ Returns /\ End("failed")
    /\ UNCHANGED <<cancelled, since, hop, addresses, toWrite, progressed, reading, log>>

Writes ==
    /\ step = "write" /\ toWrite > 0 /\ Progresses
    /\ toWrite' = toWrite - 1
    /\ UNCHANGED <<cancelled, since, hop, step, addresses, reading, outcome, log>>

Flushes ==
    /\ step = "write" /\ toWrite = 0 /\ Returns
    /\ step' = "head"
    /\ UNCHANGED <<cancelled, since, hop, addresses, toWrite, progressed, reading, outcome,
                   log>>

RoomForHead == head < HeadLimit

\* Part of a head, or an interim response: both are charged to the budget.
ReadsHead ==
    /\ step = "head" /\ Progresses
    /\ IF RoomForHead
       THEN head' = head + 1 /\ UNCHANGED <<step, outcome>>
       ELSE End("failed") /\ UNCHANGED head
    /\ UNCHANGED <<cancelled, since, hop, addresses, toWrite, framing, body, received, log>>

MayFollow(o) ==
    /\ followed < MaxRedirects
    /\ ClassOf[o] = ClassOf[to] /\ (to \in Secure => o \in Secure)
    /\ o \in Allowed

\* The header is gone for good once the origin changes.
FaultyKeepsHeader(o) == o = First
KeepsHeader(o) == credentials /\ o = to

Redirected ==
    /\ step = "head" /\ Progresses
    /\ \E o \in Origins :
          IF MayFollow(o)
          THEN /\ step' = "prepare" /\ to' = o /\ followed' = followed + 1
               /\ credentials' = KeepsHeader(o) /\ post' = FALSE
               /\ UNCHANGED outcome
          ELSE End("failed") /\ UNCHANGED hop
    /\ UNCHANGED <<cancelled, since, addresses, toWrite, reading, log>>

\* The last byte of a declared length ends the request without a read.
Proceeds(b, count) ==
    IF b.kind = "length" /\ b.length = count
    THEN End("ok")
    ELSE step' = "body" /\ UNCHANGED outcome

\* The final response: a length that is declared too large is refused.
Answered ==
    /\ step = "head" /\ Progresses
    /\ \E b \in Bodies :
          IF b.kind = "length" /\ b.length > Limit
          THEN End("too large") /\ UNCHANGED body
          ELSE Proceeds(b, 0) /\ body' = b
    /\ framing' = 0
    /\ UNCHANGED <<cancelled, since, hop, addresses, toWrite, head, received, log>>

Complete == received = body.length

\* A piece reaches the sink unless it crosses the limit.
Crosses(piece) == piece > Limit - received

Piece ==
    /\ step = "body" /\ ~Complete /\ Progresses
    /\ \E piece \in 1 .. Lesser(2, body.length - received) :
          IF Crosses(piece)
          THEN End("too large") /\ UNCHANGED received
          ELSE Proceeds(body, received + piece) /\ received' = received + piece
    /\ framing' = 0
    /\ UNCHANGED <<cancelled, since, hop, addresses, toWrite, head, body, log>>

\* Chunk lines and trailers, without a byte of the body.
Framing ==
    /\ step = "body" /\ body.kind = "chunked" /\ Progresses
    /\ IF framing < HeadLimit
       THEN framing' = framing + 1 /\ UNCHANGED <<step, outcome>>
       ELSE End("failed") /\ UNCHANGED framing
    /\ UNCHANGED <<cancelled, since, hop, addresses, toWrite, head, body, received, log>>

LastChunk ==
    /\ step = "body" /\ body.kind = "chunked" /\ Complete /\ Progresses
    /\ End("ok")
    /\ UNCHANGED <<cancelled, since, hop, addresses, toWrite, reading, log>>

MayEnd == body.kind = "close"

\* The server closes: the end of a body only when nothing else delimits it.
ServerCloses ==
    /\ step \in {"head", "body"} /\ Returns
    /\ IF step = "body" /\ MayEnd THEN End("ok") ELSE End("failed")
    /\ UNCHANGED <<cancelled, since, hop, addresses, toWrite, progressed, reading, log>>

TransportOver == step = "over" /\ UNCHANGED transportVars

Exchange ==
    \/ StopsHere \/ Block \/ HeldByTls \/ SliceEnds \/ Broken \/ Writes \/ Flushes
    \/ ReadsHead \/ Redirected \/ Answered
    \/ Piece \/ Framing \/ LastChunk \/ ServerCloses

SenderWorks == Prepare \/ Resolve \/ ConnectFails \/ NoAddress \/ Connected \/ Exchange

TransportNext == Cancel \/ SenderWorks \/ TransportOver

TransportSpec == TransportInit /\ [][TransportNext]_transportVars

\* The thread that sends keeps running, the resolver answers and a call on
\* a plain socket returns with its slice; nothing is asked of the server,
\* and so not that a TLS session it keeps busy returns.
Own ==
    \/ Prepare \/ Resolve \/ ConnectFails \/ NoAddress \/ StopsHere \/ Block
    \/ to \notin Secure /\ SliceEnds

TransportFairSpec == TransportSpec /\ WF_transportVars(Own)

---------------------------------------------------------------------------
\* The types of the variables.
TransportTypeOK ==
    /\ now \in Nat /\ since \in 0 .. now /\ progressed \in 0 .. now
    /\ to \in Origins /\ {cancelled, post, credentials, blocked} \subseteq BOOLEAN
    /\ inner \in 0 .. MaxInner
    /\ followed \in 0 .. MaxRedirects
    /\ step \in {"prepare", "resolve", "connect", "over"} \union Exchanging
    /\ toWrite \in 0 .. 2 /\ head \in 0 .. HeadLimit /\ framing \in 0 .. HeadLimit
    /\ body \in Bodies \union {NoBody}
    /\ blocked => step \in Exchanging
    /\ step = "over" <=> outcome # "none"

\* The Authorization header and a POST's body go to the origin the request
\* is for, the body at most once, and every other origin is one that a
\* redirect may lead to, of the same class and not less secure.
SentWhereMeant ==
    /\ \A i \in DOMAIN log :
          /\ log[i].credentials => log[i].origin = First
          /\ log[i].post => i = 1
          /\ log[i].origin = First \/ log[i].origin \in Allowed
          /\ ClassOf[log[i].origin] = ClassOf[First]
          /\ AddressClass[log[i].address] = ClassOf[First]
          /\ First \in Secure => log[i].origin \in Secure
    /\ Len(log) <= followed + 1

\* What was given up is given up for good: of two exchanges the later one
\* carries the header only when the earlier one did, and it is over TLS
\* when the earlier one was.
DroppedForGood ==
    \A i, j \in DOMAIN log : i < j =>
        /\ log[j].credentials => log[i].credentials
        /\ log[i].origin \in Secure => log[j].origin \in Secure

\* What one blocking call may take: over plain http a slice, over https a
\* slice for each time its TLS session used the socket.
Slices(n) == Slice * n
OneCall == Slices(inner + 1)

\* Nothing runs past the deadline by more than the one call that was begun
\* before it, which over plain http is one slice whatever the server does,
\* except a lookup.
EndsInTime ==
    /\ to \notin Secure => inner = 0
    /\ step \in Exchanging \union {"connect"} =>
          now < Total + (IF step \in Exchanging THEN OneCall ELSE LongestLookup + OneCall)

\* A stalled server is left one call after the idle time at the latest,
\* and a cancel is honoured once the lookup and the attempts to connect
\* are over and the call that was begun before it has returned.
StallEnds ==
    step \in Exchanging =>
        /\ now - progressed < IdleTime + OneCall
        /\ cancelled => now - since <= LongestLookup + MaxAddresses * ConnectTimeout + OneCall

\* The sink never gets more than the limit.
WithinLimit == received <= Limit

\* A request that succeeds has the whole body, unless nothing but the close
\* of the connection delimits it.
NeverTruncated == outcome = "ok" /\ body.kind # "close" => Complete

\* A request goes only where it was allowed, by the class of address its
\* origin has, its credentials only to the first origin; it outlasts its
\* time by no more than one blocking call, an answer is within its limit,
\* and never taken for whole when it was cut.
ExchangesBound ==
    /\ TransportTypeOK
    /\ SentWhereMeant /\ DroppedForGood
    /\ EndsInTime /\ StallEnds
    /\ WithinLimit /\ NeverTruncated

\* Whatever the server sends or withholds, a request ends, unless a single
\* call over TLS never returns: that alone no deadline and no cancel ends.
RequestEnds == []<>(step = "over") \/ <>[](blocked /\ to \in Secure)
=============================================================================
