------------------------------- MODULE EventLog -------------------------------
(***************************************************************************)
(* The owner's event log (EventLog in api/owner.rs) as operators on one    *)
(* value: the last EVENT_CAPACITY changes and the sequence of the newest.  *)
(* An event is a record with the fields its module needs and `sequence`.   *)
(***************************************************************************)
EXTENDS Naturals, Sequences

CONSTANT EVENT_CAPACITY

CapacityAssumption == EVENT_CAPACITY \in Nat \ {0}

EmptyLog == [events |-> << >>, sequence |-> 0]

\* The events still held once there is room for one more.
Room(events) ==
    IF Len(events) = EVENT_CAPACITY THEN Tail(events) ELSE events

\* EventLog::record: one more change, the oldest dropped at the capacity.
RecordEvent(log, event) ==
    LET next == log.sequence + 1
    IN  [events   |-> Append(Room(log.events), [event EXCEPT !.sequence = next]),
         sequence |-> next]

\* The sequence of the oldest event held; of the next one when none is.
Oldest(log) ==
    IF log.events = << >> THEN log.sequence + 1 ELSE log.events[1].sequence

Gap(log, after) == after + 1 < Oldest(log)

\* The events after a sequence, in their order.  (SelectSeq, written as a
\* function that a proof can unfold.)
After(events, after) ==
    LET kept[i \in 0 .. Len(events)] ==
            IF i = 0 THEN << >>
            ELSE IF events[i].sequence > after THEN Append(kept[i - 1], events[i])
            ELSE kept[i - 1]
    IN  kept[Len(events)]

\* EventLog::since: the events after `after`, the sequence of the newest
\* event, and whether the log no longer holds some of them.
Since(log, after) ==
    [events   |-> After(log.events, after),
     sequence |-> log.sequence,
     gap      |-> Gap(log, after)]
===============================================================================
