---------------------------- MODULE ServiceProofs -----------------------------
(***************************************************************************)
(* What is proved of the catalog owner's services: the owner's thread      *)
(* (Owner, with the log of EventLog), the live session (LiveSession) and   *)
(* the activity board (ActivityBoard).  They share no state; each has its  *)
(* own specification, invariant and theorem.                               *)
(*                                                                         *)
(* Owner: the events a client is given or told it missed, the wakes of     *)
(* watchers, and the table of first answers, for every number of clients,  *)
(* requests, events and bytes.  The invariant adds to the properties that  *)
(* the events held are the last ones and numbered without a break, that    *)
(* the watchers were woken for the newest of them, and that the table      *)
(* holds well-formed answers.                                              *)
(*                                                                         *)
(* LiveSession: for any number of processes and connections, with a crash  *)
(* anywhere.  The invariant says where each connection that waits can be,  *)
(* so that the one in hand is counted once and served once.                *)
(*                                                                         *)
(* ActivityBoard: for any number of threads and any limits.  The invariant *)
(* says that identities are used once, so that an end finds its own entry. *)
(***************************************************************************)
EXTENDS Owner, LiveSession, ActivityBoard, FiniteSetTheorems, SequenceTheorems,
    TLAPS

Callers == Clients \union {Nobody}
Event == [sequence : Nat, by : Callers]

-----------------------------------------------------------------------------
\* Recursion.

\* Induction over the naturals.
LEMMA Induction ==
    ASSUME NEW S, 0 \in S, \A n \in Nat : n \in S => n + 1 \in S
    PROVE  Nat \subseteq S
<1> SUFFICES ASSUME NEW n \in Nat, n \notin S PROVE FALSE
  OBVIOUS
<1> DEFINE T == {m \in 0 .. n : m \notin S}
           f == [m \in T |-> m - 1]
           U == {m - 1 : m \in T}
<1>1. IsFiniteSet(T)
  <2>1. IsFiniteSet(0 .. n)
    BY FS_Interval
  <2>2. T \in SUBSET (0 .. n)
    OBVIOUS
  <2> QED BY <2>1, <2>2, FS_Subset
<1>2. \A m \in T : m - 1 \in T
  <2> SUFFICES ASSUME NEW m \in T PROVE m - 1 \in T
    OBVIOUS
  <2>1. m # 0 /\ m \in Nat /\ m - 1 \in Nat /\ m = (m - 1) + 1
    OBVIOUS
  <2>2. m - 1 \notin S
    BY <2>1
  <2> QED BY <2>1, <2>2
<1>3. U \subseteq T
  BY <1>2
<1>4. f \in Bijection(T, U)
  BY DEF Bijection, Injection, Surjection, IsInjective
<1>5. Cardinality(U) = Cardinality(T) /\ IsFiniteSet(U)
  BY <1>1, <1>4, FS_Bijection DEF ExistsBijection
<1>6. U = T
  BY <1>1, <1>3, <1>5, FS_Subset
<1>7. n \in U
  BY <1>6
<1> QED BY <1>7

\* A function on 0 .. n that is given by its first value and its steps.
Runs(f, n, first, step) ==
    f[0] = first /\ \A i \in 1 .. n : f[i] = step[i][f[i - 1]]

LEMMA Recursion ==
    ASSUME NEW n \in Nat, NEW V, NEW first \in V, NEW step \in [1 .. n -> [V -> V]]
    PROVE  \E f \in [0 .. n -> V] : Runs(f, n, first, step)
<1> DEFINE S == {k \in Nat : k <= n => \E f \in [0 .. k -> V] : Runs(f, k, first, step)}
<1>1. 0 \in S
  <2> DEFINE f == [i \in 0 .. 0 |-> first]
  <2>1. f \in [0 .. 0 -> V] /\ f[0] = first
    OBVIOUS
  <2>2. Runs(f, 0, first, step)
    BY <2>1 DEF Runs
  <2> QED BY <2>1, <2>2
<1>2. ASSUME NEW k \in Nat, k \in S PROVE k + 1 \in S
  <2> SUFFICES ASSUME k + 1 <= n
               PROVE  \E f \in [0 .. k + 1 -> V] : Runs(f, k + 1, first, step)
    OBVIOUS
  <2>1. PICK f \in [0 .. k -> V] : Runs(f, k, first, step)
    BY <1>2
  <2> DEFINE last == step[k + 1][f[k]]
             g == [i \in 0 .. k + 1 |-> IF i = k + 1 THEN last ELSE f[i]]
  <2>2. last \in V
    <3>1. k + 1 \in 1 .. n /\ f[k] \in V
      OBVIOUS
    <3>2. step[k + 1] \in [V -> V]
      BY <3>1
    <3> QED BY <3>1, <3>2
  <2>3. g \in [0 .. k + 1 -> V]
    <3>1. \A i \in 0 .. k + 1 : i # k + 1 => i \in 0 .. k
      OBVIOUS
    <3> QED BY <2>2, <3>1
  <2>4. \A i \in 0 .. k + 1 : g[i] = IF i = k + 1 THEN last ELSE f[i]
    OBVIOUS
  <2> HIDE DEF g
  <2>5. g[0] = first
    BY <2>1, <2>4 DEF Runs
  <2>6. ASSUME NEW i \in 1 .. k + 1 PROVE g[i] = step[i][g[i - 1]]
    <3>1. i \in 0 .. k + 1 /\ i - 1 \in 0 .. k + 1 /\ i - 1 # k + 1 /\ i - 1 \in 0 .. k
      OBVIOUS
    <3>2. g[i - 1] = f[i - 1]
      BY <2>4, <3>1
    <3>3. CASE i = k + 1
      <4>1. i - 1 = k /\ g[i] = last
        BY <2>4, <3>1, <3>3
      <4> QED BY <3>2, <3>3, <4>1
    <3>4. CASE i # k + 1
      <4>1. i \in 1 .. k /\ g[i] = f[i]
        BY <2>4, <3>1, <3>4
      <4> QED BY <2>1, <3>2, <4>1 DEF Runs
    <3> QED BY <3>3, <3>4
  <2>7. Runs(g, k + 1, first, step)
    BY <2>5, <2>6 DEF Runs
  <2> QED BY <2>3, <2>7
<1> HIDE DEF S
<1>3. n \in S
  <2>1. Nat \subseteq S
    BY <1>1, <1>2, Induction
  <2> QED BY <2>1
<1> QED BY <1>3 DEF S

-----------------------------------------------------------------------------
\* The log.

\* The events held are the newest ones and numbered without a break.
LogOk(l) ==
    /\ l \in [events : Seq(Event), sequence : Nat]
    /\ Len(l.events) <= EVENT_CAPACITY /\ Len(l.events) <= l.sequence
    /\ \A i \in 1 .. Len(l.events) :
          l.events[i].sequence = l.sequence - Len(l.events) + i

\* What recording leaves: the events held before, or ones of this caller
\* that are newer than all of them.
Grown(l, m, by) ==
    \A i \in 1 .. Len(m.events) :
        \/ \E j \in 1 .. Len(l.events) : m.events[i] = l.events[j]
        \/ m.events[i].sequence > l.sequence /\ m.events[i].by = by

LEMMA RoomFor ==
    ASSUME CapacityAssumption, NEW events \in Seq(Event), Len(events) <= EVENT_CAPACITY
    PROVE  \E d \in {0, 1} :
              /\ Room(events) \in Seq(Event) /\ Len(Room(events)) = Len(events) - d
              /\ Len(Room(events)) \in Nat /\ Len(Room(events)) < EVENT_CAPACITY
              /\ \A i \in 1 .. Len(Room(events)) : Room(events)[i] = events[i + d]
<1>1. Len(events) \in Nat /\ EVENT_CAPACITY \in Nat \ {0}
  BY LenProperties DEF CapacityAssumption
<1>2. CASE Len(events) = EVENT_CAPACITY
  <2>1. events # <<>>
    BY <1>1, <1>2, EmptySeq
  <2>2. /\ Tail(events) \in Seq(Event) /\ Len(Tail(events)) = Len(events) - 1
        /\ \A i \in 1 .. Len(Tail(events)) : Tail(events)[i] = events[i + 1]
    BY <2>1, HeadTailProperties
  <2>3. Room(events) = Tail(events)
    BY <1>2 DEF Room
  <2> QED BY <1>1, <1>2, <2>2, <2>3
<1>3. CASE Len(events) # EVENT_CAPACITY
  <2>1. Room(events) = events
    BY <1>3 DEF Room
  <2>2. \A i \in 1 .. Len(events) : i + 0 = i
    BY <1>1
  <2> QED BY <1>1, <1>3, <2>1, <2>2
<1> QED BY <1>2, <1>3

LEMMA RecordOk ==
    ASSUME CapacityAssumption, NEW l, LogOk(l), NEW by \in Callers
    PROVE  LET r == RecordEvent(l, [sequence |-> 0, by |-> by]) IN
           /\ LogOk(r) /\ r.sequence = l.sequence + 1 /\ Grown(l, r, by)
<1> DEFINE new == [sequence |-> l.sequence + 1, by |-> by]
           room == Room(l.events)
           r == RecordEvent(l, [sequence |-> 0, by |-> by])
           es == Append(room, new)
<1>1. /\ l.events \in Seq(Event) /\ l.sequence \in Nat
      /\ Len(l.events) \in Nat /\ Len(l.events) <= l.sequence
      /\ Len(l.events) <= EVENT_CAPACITY /\ EVENT_CAPACITY \in Nat
  BY LenProperties DEF LogOk, CapacityAssumption
<1>2. PICK d \in {0, 1} :
          /\ room \in Seq(Event) /\ Len(room) = Len(l.events) - d
          /\ Len(room) \in Nat /\ Len(room) < EVENT_CAPACITY
          /\ \A i \in 1 .. Len(room) : room[i] = l.events[i + d]
  BY <1>1, RoomFor
<1>3. r = [events |-> es, sequence |-> l.sequence + 1]
  <2>1. [[sequence |-> 0, by |-> by] EXCEPT !.sequence = l.sequence + 1] = new
    OBVIOUS
  <2> QED BY <2>1 DEF RecordEvent
<1>4. new \in Event /\ new.sequence = l.sequence + 1 /\ new.by = by
  BY <1>1 DEF Event
<1> HIDE DEF r, new, room
<1>5. /\ es \in Seq(Event) /\ Len(es) = Len(room) + 1
      /\ \A i \in 1 .. Len(room) : es[i] = room[i]
      /\ es[Len(room) + 1] = new
  BY <1>2, <1>4, AppendProperties
<1> HIDE DEF es
<1>6. /\ Len(es) \in Nat /\ Len(room) \in Nat /\ Len(l.events) \in Nat /\ d \in {0, 1}
      /\ Len(es) = Len(room) + 1 /\ Len(room) = Len(l.events) - d /\ l.sequence \in Nat
  BY <1>1, <1>2, <1>5, LenProperties
<1>7. ASSUME NEW i \in 1 .. Len(es)
      PROVE  /\ es[i].sequence = (l.sequence + 1) - Len(es) + i
             /\ \/ \E j \in 1 .. Len(l.events) : es[i] = l.events[j]
                \/ es[i].sequence > l.sequence /\ es[i].by = by
  <2>1. CASE i = Len(room) + 1
    <3>1. es[i] = new
      BY <1>5, <2>1
    <3>2. (l.sequence + 1) - Len(es) + i = l.sequence + 1
      BY <1>6, <2>1
    <3>3. l.sequence + 1 > l.sequence
      BY <1>6
    <3> QED BY <1>4, <3>1, <3>2, <3>3
  <2>2. CASE i # Len(room) + 1
    <3>1. i \in 1 .. Len(room) /\ i + d \in 1 .. Len(l.events)
      BY <1>6, <2>2
    <3>2. es[i] = l.events[i + d]
      BY <1>2, <1>5, <3>1
    <3>3. l.events[i + d].sequence = l.sequence - Len(l.events) + (i + d)
      BY <3>1 DEF LogOk
    <3>4. l.sequence - Len(l.events) + (i + d) = (l.sequence + 1) - Len(es) + i
      BY <1>6, <3>1
    <3> QED BY <3>1, <3>2, <3>3, <3>4
  <2> QED BY <2>1, <2>2
<1>8. Len(es) <= EVENT_CAPACITY /\ Len(es) <= l.sequence + 1
  <2>1. /\ Len(room) < EVENT_CAPACITY /\ EVENT_CAPACITY \in Nat
        /\ Len(l.events) <= l.sequence
    BY <1>1, <1>2
  <2> QED BY <1>6, <2>1
<1>9. r.events = es /\ r.sequence = l.sequence + 1
      /\ r \in [events : Seq(Event), sequence : Nat]
  <2>1. l.sequence + 1 \in Nat
    BY <1>6
  <2> QED BY <1>3, <1>5, <2>1
<1>10. LogOk(r)
  BY <1>7, <1>8, <1>9 DEF LogOk
<1>11. Grown(l, r, by)
  BY <1>7, <1>9 DEF Grown
<1> QED BY <1>9, <1>10, <1>11 DEF r

LEMMA GrownTwice ==
    ASSUME NEW l, NEW m, NEW r, NEW by, LogOk(l), LogOk(m), LogOk(r),
           l.sequence <= m.sequence, Grown(l, m, by), Grown(m, r, by)
    PROVE  Grown(l, r, by)
<1> SUFFICES ASSUME NEW i \in 1 .. Len(r.events)
             PROVE  \/ \E j \in 1 .. Len(l.events) : r.events[i] = l.events[j]
                    \/ r.events[i].sequence > l.sequence /\ r.events[i].by = by
  BY DEF Grown
<1>1. l.sequence \in Nat /\ m.sequence \in Nat /\ r.events \in Seq(Event)
  BY DEF LogOk
<1>2. r.events[i].sequence \in Nat
  <2>1. r.events[i] \in Event
    BY <1>1, ElementOfSeq
  <2> QED BY <2>1 DEF Event
<1>3. CASE \E j \in 1 .. Len(m.events) : r.events[i] = m.events[j]
  BY <1>3 DEF Grown
<1>4. CASE r.events[i].sequence > m.sequence /\ r.events[i].by = by
  BY <1>1, <1>2, <1>4
<1> QED BY <1>3, <1>4 DEF Grown

\* The logs that k events recorded one by one leave.
Recordings(l, by, k) ==
    CHOOSE f : f = [n \in 0 .. k |->
                      IF n = 0 THEN l
                      ELSE RecordEvent(f[n - 1], [sequence |-> 0, by |-> by])]

LEMMA RecordingsOk ==
    ASSUME CapacityAssumption, NEW l, LogOk(l), NEW by \in Callers, NEW k \in Nat
    PROVE  LET m == Recordings(l, by, k)[k] IN
           /\ LogOk(m) /\ m.sequence = l.sequence + k /\ Grown(l, m, by)
           /\ k = 0 => m = l
<1> DEFINE V == {m \in [events : Seq(Event), sequence : Nat] : LogOk(m)}
           new == [sequence |-> 0, by |-> by]
           step == [i \in 1 .. k |-> [m \in V |-> RecordEvent(m, new)]]
           t == Recordings(l, by, k)
<1>1. l \in V
  BY DEF LogOk
<1>2. \A m \in V : RecordEvent(m, new) \in V
  <2> SUFFICES ASSUME NEW m \in V PROVE RecordEvent(m, new) \in V
    OBVIOUS
  <2>1. LogOk(RecordEvent(m, new))
    BY RecordOk
  <2> QED BY <2>1 DEF LogOk
<1> HIDE DEF V
<1>3. /\ step \in [1 .. k -> [V -> V]]
      /\ \A i \in 1 .. k, m \in V : step[i][m] = RecordEvent(m, new)
  BY <1>2
<1> HIDE DEF step
<1>4. PICK f \in [0 .. k -> V] : Runs(f, k, l, step)
  BY <1>1, <1>3, Recursion
<1>5. \A i \in 1 .. k : f[i] = RecordEvent(f[i - 1], new)
  <2> SUFFICES ASSUME NEW i \in 1 .. k PROVE f[i] = RecordEvent(f[i - 1], new)
    OBVIOUS
  <2>1. i - 1 \in 0 .. k
    OBVIOUS
  <2>2. f[i - 1] \in V
    BY <2>1
  <2> QED BY <1>3, <1>4, <2>2 DEF Runs
<1>6. f = [n \in 0 .. k |-> IF n = 0 THEN l ELSE RecordEvent(f[n - 1], new)]
  <2>1. \A n \in 0 .. k : n # 0 => n \in 1 .. k
    OBVIOUS
  <2> QED BY <1>4, <1>5, <2>1 DEF Runs
<1>7. t = [n \in 0 .. k |-> IF n = 0 THEN l ELSE RecordEvent(t[n - 1], new)]
  BY <1>6 DEF Recordings
<1> HIDE DEF t, new
<1> DEFINE Good(n) == LogOk(t[n]) /\ t[n].sequence = l.sequence + n /\ Grown(l, t[n], by)
           S == {n \in Nat : n <= k => Good(n)}
<1>8. l.sequence \in Nat
  BY DEF LogOk
<1>9. t[0] = l
  BY <1>7
<1>10. 0 \in S
  <2>1. Grown(l, l, by)
    BY DEF Grown
  <2> QED BY <1>8, <1>9, <2>1
<1>11. ASSUME NEW n \in Nat, n \in S PROVE n + 1 \in S
  <2> SUFFICES ASSUME n + 1 <= k PROVE Good(n + 1)
    OBVIOUS
  <2>1. Good(n) /\ n + 1 \in 0 .. k /\ n + 1 # 0 /\ (n + 1) - 1 = n
    BY <1>11
  <2>2. t[n + 1] = RecordEvent(t[n], new)
    BY <1>7, <2>1
  <2>3. LogOk(t[n + 1]) /\ t[n + 1].sequence = t[n].sequence + 1 /\ Grown(t[n], t[n + 1], by)
    BY <2>1, <2>2, RecordOk DEF new
  <2>4. t[n + 1].sequence = l.sequence + (n + 1) /\ l.sequence <= t[n].sequence
    BY <1>8, <2>1, <2>3
  <2>5. Grown(l, t[n + 1], by)
    BY <2>1, <2>3, <2>4, GrownTwice
  <2> QED BY <2>3, <2>4, <2>5
<1> HIDE DEF S
<1>12. k \in S
  <2>1. Nat \subseteq S
    BY <1>10, <1>11, Induction
  <2> QED BY <2>1
<1>13. Good(k)
  <2> HIDE DEF Good
  <2> QED BY <1>12 DEF S
<1> QED BY <1>9, <1>13 DEF t

\* The announcement of one message's changes.
LEMMA AnnounceGives ==
    ASSUME CapacityAssumption, LogOk(log), NEW by \in Callers, NEW changes \in Nat,
           Announce(by, changes)
    PROVE  /\ LogOk(log') /\ log'.sequence = log.sequence + changes
           /\ Grown(log, log', by)
           /\ changes = 0 => log' = log
           /\ notified' = log'.sequence
           /\ wake' = [c \in Clients |->
                         \/ wake[c]
                         \/ log'.sequence # notified /\ c \in watchers /\ c # by]
<1>1. log' = Recordings(log, by, changes)[changes]
  BY DEF Announce, Recordings
<1>2. /\ notified' = log'.sequence
      /\ wake' = [c \in Clients |->
                    \/ wake[c]
                    \/ log'.sequence # notified /\ c \in watchers /\ c # by]
  BY DEF Announce
<1>3. LET m == Recordings(log, by, changes)[changes] IN
      /\ LogOk(m) /\ m.sequence = log.sequence + changes /\ Grown(log, m, by)
      /\ changes = 0 => m = log
  BY RecordingsOk
<1> QED BY <1>1, <1>2, <1>3

\* The events after a sequence, as they are collected.
Collected(events, after) ==
    CHOOSE f : f = [i \in 0 .. Len(events) |->
                      IF i = 0 THEN << >>
                      ELSE IF events[i].sequence > after THEN Append(f[i - 1], events[i])
                      ELSE f[i - 1]]

SequencesOf(events) == {events[i].sequence : i \in DOMAIN events}

LEMMA SequencesAppend ==
    ASSUME NEW s \in Seq(Event), NEW e \in Event
    PROVE  SequencesOf(Append(s, e)) = SequencesOf(s) \union {e.sequence}
<1> DEFINE t == Append(s, e)
<1>1. /\ t \in Seq(Event) /\ Len(t) = Len(s) + 1 /\ Len(s) \in Nat
      /\ \A i \in 1 .. Len(s) : t[i] = s[i]
      /\ t[Len(s) + 1] = e
      /\ DOMAIN s = 1 .. Len(s)
  BY AppendProperties, LenProperties
<1>2. DOMAIN t = 1 .. Len(t)
  BY <1>1, LenProperties
<1> HIDE DEF t
<1>3. \A i \in 1 .. Len(t) : i \in 1 .. Len(s) \/ i = Len(s) + 1
  BY <1>1
<1>4. Len(s) + 1 \in 1 .. Len(t) /\ \A i \in 1 .. Len(s) : i \in 1 .. Len(t)
  BY <1>1
<1>5. SequencesOf(t) \subseteq SequencesOf(s) \union {e.sequence}
  BY <1>1, <1>2, <1>3 DEF SequencesOf
<1>6. SequencesOf(s) \union {e.sequence} \subseteq SequencesOf(t)
  BY <1>1, <1>2, <1>4 DEF SequencesOf
<1> QED BY <1>5, <1>6 DEF t

LEMMA AfterGives ==
    ASSUME NEW events \in Seq(Event), NEW after \in Nat
    PROVE  SequencesOf(After(events, after)) = {s \in SequencesOf(events) : s > after}
<1> DEFINE k == Len(events)
           V == Seq(Event)
           Taken(i, s) == IF events[i].sequence > after THEN Append(s, events[i]) ELSE s
           step == [i \in 1 .. k |-> [s \in V |-> Taken(i, s)]]
           t == Collected(events, after)
<1>1. k \in Nat /\ DOMAIN events = 1 .. k /\ \A i \in 1 .. k : events[i] \in Event
  BY LenProperties
<1>2. \A i \in 1 .. k, s \in V : Taken(i, s) \in V
  BY <1>1, AppendProperties
<1> HIDE DEF Taken
<1>3. /\ step \in [1 .. k -> [V -> V]]
      /\ \A i \in 1 .. k, s \in V : step[i][s] = Taken(i, s)
  BY <1>2
<1>4. <<>> \in V
  BY EmptySeq
<1> HIDE DEF step, V
<1>5. PICK f \in [0 .. k -> V] : Runs(f, k, <<>>, step)
  BY <1>1, <1>3, <1>4, Recursion
<1>6. \A i \in 1 .. k : f[i] = Taken(i, f[i - 1])
  <2> SUFFICES ASSUME NEW i \in 1 .. k PROVE f[i] = Taken(i, f[i - 1])
    OBVIOUS
  <2>1. i - 1 \in 0 .. k
    BY <1>1
  <2>2. f[i - 1] \in V
    BY <2>1
  <2> QED BY <1>3, <1>5, <2>2 DEF Runs
<1>7. f = [i \in 0 .. k |-> IF i = 0 THEN <<>>
             ELSE IF events[i].sequence > after THEN Append(f[i - 1], events[i])
             ELSE f[i - 1]]
  <2>1. \A i \in 0 .. k : i # 0 => i \in 1 .. k
    BY <1>1
  <2> QED BY <1>5, <1>6, <2>1 DEF Taken, Runs
<1>8. t = [i \in 0 .. k |-> IF i = 0 THEN <<>>
             ELSE IF events[i].sequence > after THEN Append(t[i - 1], events[i])
             ELSE t[i - 1]]
  BY <1>7 DEF Collected
<1> HIDE DEF t
<1> DEFINE First(i) == {s \in {events[j].sequence : j \in 1 .. i} : s > after}
           Good(i) == t[i] \in Seq(Event) /\ SequencesOf(t[i]) = First(i)
           S == {i \in Nat : i <= k => Good(i)}
<1>9. 0 \in S
  <2>1. t[0] = <<>> /\ <<>> \in Seq(Event) /\ DOMAIN <<>> = {}
    BY <1>1, <1>8, EmptySeq
  <2>2. SequencesOf(<<>>) = {} /\ First(0) = {}
    BY <2>1 DEF SequencesOf
  <2>3. SequencesOf(t[0]) = First(0)
    BY <2>1, <2>2
  <2> QED BY <2>1, <2>3
<1>10. ASSUME NEW i \in Nat, i \in S PROVE i + 1 \in S
  <2> SUFFICES ASSUME i + 1 <= k PROVE Good(i + 1)
    OBVIOUS
  <2>1. Good(i) /\ i + 1 \in 1 .. k /\ i + 1 \in 0 .. k /\ i + 1 # 0 /\ (i + 1) - 1 = i
    BY <1>1, <1>10
  <2>2. t[i + 1] = IF events[i + 1].sequence > after THEN Append(t[i], events[i + 1])
                   ELSE t[i]
    BY <1>8, <2>1
  <2>3. \A j \in 1 .. i + 1 : j \in 1 .. i \/ j = i + 1
    OBVIOUS
  <2>4. i + 1 \in 1 .. i + 1 /\ \A j \in 1 .. i : j \in 1 .. i + 1
    OBVIOUS
  <2>5. CASE events[i + 1].sequence > after
    <3>1. First(i + 1) = First(i) \union {events[i + 1].sequence}
      BY <2>3, <2>4, <2>5
    <3> HIDE DEF First
    <3>2. /\ Append(t[i], events[i + 1]) \in Seq(Event)
          /\ SequencesOf(Append(t[i], events[i + 1])) =
                SequencesOf(t[i]) \union {events[i + 1].sequence}
      BY <1>1, <2>1, SequencesAppend, AppendProperties
    <3> QED BY <2>1, <2>2, <2>5, <3>1, <3>2
  <2>6. CASE ~(events[i + 1].sequence > after)
    <3>1. First(i + 1) = First(i)
      BY <2>3, <2>4, <2>6
    <3> HIDE DEF First
    <3> QED BY <2>1, <2>2, <2>6, <3>1
  <2> QED BY <2>5, <2>6
<1> HIDE DEF S
<1>11. k \in S
  <2>1. Nat \subseteq S
    BY <1>9, <1>10, Induction
  <2> QED BY <1>1, <2>1
<1>12. Good(k)
  <2> HIDE DEF Good
  <2> QED BY <1>1, <1>11 DEF S
<1>13. After(events, after) = t[k]
  BY DEF After, Collected, t
<1>14. First(k) = {s \in SequencesOf(events) : s > after}
  BY <1>1 DEF SequencesOf
<1> HIDE DEF First
<1> QED BY <1>12, <1>13, <1>14

-----------------------------------------------------------------------------
\* The table of first answers.

AnswerKept == [request : Requests, answer : Nat, bytes : Nat]

\* The sums that BytesOf ends with.
Sums(s) ==
    CHOOSE f : f = [i \in 0 .. Len(s) |-> IF i = 0 THEN 0 ELSE f[i - 1] + s[i].bytes]

LEMMA SumsAre ==
    ASSUME NEW s \in Seq(AnswerKept)
    PROVE  /\ BytesOf(s) = Sums(s)[Len(s)]
           /\ Sums(s)[0] = 0
           /\ \A i \in 1 .. Len(s) : Sums(s)[i] = Sums(s)[i - 1] + s[i].bytes
           /\ \A i \in 0 .. Len(s) : Sums(s)[i] \in Nat
<1> DEFINE k == Len(s)
           step == [i \in 1 .. k |-> [n \in Nat |-> n + s[i].bytes]]
           t == Sums(s)
<1>1. k \in Nat /\ \A i \in 1 .. k : s[i].bytes \in Nat
  <2>1. k \in Nat /\ \A i \in 1 .. k : s[i] \in AnswerKept
    BY LenProperties
  <2> QED BY <2>1 DEF AnswerKept
<1>2. /\ step \in [1 .. k -> [Nat -> Nat]]
      /\ \A i \in 1 .. k, n \in Nat : step[i][n] = n + s[i].bytes
  BY <1>1
<1>3. 0 \in Nat
  OBVIOUS
<1> HIDE DEF step
<1>4. PICK f \in [0 .. k -> Nat] : Runs(f, k, 0, step)
  BY <1>1, <1>2, <1>3, Recursion
<1>5. \A i \in 1 .. k : f[i] = f[i - 1] + s[i].bytes
  <2> SUFFICES ASSUME NEW i \in 1 .. k PROVE f[i] = f[i - 1] + s[i].bytes
    OBVIOUS
  <2>1. i - 1 \in 0 .. k
    BY <1>1
  <2>2. f[i - 1] \in Nat
    BY <2>1
  <2> QED BY <1>2, <1>4, <2>2 DEF Runs
<1>6. f = [i \in 0 .. k |-> IF i = 0 THEN 0 ELSE f[i - 1] + s[i].bytes]
  <2>1. \A i \in 0 .. k : i # 0 => i \in 1 .. k
    BY <1>1
  <2> QED BY <1>4, <1>5, <2>1 DEF Runs
<1>7. t = [i \in 0 .. k |-> IF i = 0 THEN 0 ELSE t[i - 1] + s[i].bytes]
  BY <1>6 DEF Sums
<1>8. BytesOf(s) = t[k]
  BY DEF BytesOf, Sums
<1> HIDE DEF t
<1>9. t[0] = 0
  BY <1>1, <1>7
<1>10. \A i \in 1 .. k : t[i] = t[i - 1] + s[i].bytes
  <2>1. \A i \in 1 .. k : i \in 0 .. k /\ i # 0
    BY <1>1
  <2> QED BY <1>7, <2>1
<1> DEFINE S == {i \in Nat : i <= k => t[i] \in Nat}
<1>11. 0 \in S
  BY <1>9
<1>12. ASSUME NEW i \in Nat, i \in S PROVE i + 1 \in S
  <2> SUFFICES ASSUME i + 1 <= k PROVE t[i + 1] \in Nat
    OBVIOUS
  <2>1. t[i] \in Nat /\ i + 1 \in 1 .. k /\ (i + 1) - 1 = i
    BY <1>1, <1>12
  <2>2. t[i + 1] = t[i] + s[i + 1].bytes
    BY <1>10, <2>1
  <2> QED BY <1>1, <2>1, <2>2
<1> HIDE DEF S
<1>13. Nat \subseteq S
  BY <1>11, <1>12, Induction
<1>14. \A i \in 0 .. k : t[i] \in Nat
  <2> SUFFICES ASSUME NEW i \in 0 .. k PROVE t[i] \in Nat
    OBVIOUS
  <2>1. i \in S /\ i <= k
    BY <1>1, <1>13
  <2> QED BY <2>1 DEF S
<1> QED BY <1>8, <1>9, <1>10, <1>14 DEF t

LEMMA BytesEmpty == BytesOf(<<>>) = 0
<1>1. <<>> \in Seq(AnswerKept) /\ Len(<<>>) = 0
  BY EmptySeq
<1> QED BY <1>1, SumsAre

LEMMA BytesTyped ==
    ASSUME NEW s \in Seq(AnswerKept)
    PROVE  BytesOf(s) \in Nat
<1>1. Len(s) \in Nat /\ Len(s) \in 0 .. Len(s)
  BY LenProperties
<1> QED BY <1>1, SumsAre

LEMMA BytesAppend ==
    ASSUME NEW s \in Seq(AnswerKept), NEW e \in AnswerKept
    PROVE  BytesOf(Append(s, e)) = BytesOf(s) + e.bytes
<1> DEFINE t == Append(s, e)
           k == Len(s)
           S == {i \in Nat : i <= k => Sums(t)[i] = Sums(s)[i]}
<1>1. /\ t \in Seq(AnswerKept) /\ Len(t) = k + 1 /\ k \in Nat
      /\ \A i \in 1 .. k : t[i] = s[i]
      /\ t[k + 1] = e
  BY AppendProperties, LenProperties
<1> HIDE DEF t
<1>2. /\ BytesOf(s) = Sums(s)[k] /\ Sums(s)[0] = 0
      /\ \A i \in 1 .. k : Sums(s)[i] = Sums(s)[i - 1] + s[i].bytes
  BY SumsAre
<1>3. /\ BytesOf(t) = Sums(t)[k + 1] /\ Sums(t)[0] = 0
      /\ \A i \in 1 .. k + 1 : Sums(t)[i] = Sums(t)[i - 1] + t[i].bytes
  BY <1>1, SumsAre
<1>4. 0 \in S
  BY <1>2, <1>3
<1>5. ASSUME NEW i \in Nat, i \in S PROVE i + 1 \in S
  <2> SUFFICES ASSUME i + 1 <= k PROVE Sums(t)[i + 1] = Sums(s)[i + 1]
    OBVIOUS
  <2>1. Sums(t)[i] = Sums(s)[i] /\ i + 1 \in 1 .. k /\ i + 1 \in 1 .. k + 1
        /\ (i + 1) - 1 = i
    BY <1>1, <1>5
  <2> QED BY <1>1, <1>2, <1>3, <2>1
<1> HIDE DEF S
<1>6. Nat \subseteq S
  BY <1>4, <1>5, Induction
<1>7. Sums(t)[k] = Sums(s)[k]
  BY <1>1, <1>6 DEF S
<1>8. Sums(t)[k + 1] = Sums(t)[k] + e.bytes
  <2>1. k + 1 \in 1 .. k + 1 /\ (k + 1) - 1 = k
    BY <1>1
  <2> QED BY <1>1, <1>3, <2>1
<1> QED BY <1>2, <1>3, <1>7, <1>8 DEF t

LEMMA BytesTail ==
    ASSUME NEW s \in Seq(AnswerKept), s # <<>>
    PROVE  /\ Head(s) \in AnswerKept /\ Tail(s) \in Seq(AnswerKept) /\ Len(Tail(s)) = Len(s) - 1
           /\ BytesOf(s) = BytesOf(Tail(s)) + Head(s).bytes
<1> DEFINE t == Tail(s)
           h == Head(s)
           k == Len(t)
           S == {i \in Nat : i <= k => Sums(s)[i + 1] = Sums(t)[i] + h.bytes}
<1>1. /\ h \in AnswerKept /\ t \in Seq(AnswerKept) /\ Len(s) \in Nat \ {0} /\ k = Len(s) - 1
      /\ k \in Nat /\ Len(s) = k + 1
      /\ \A i \in 1 .. k : t[i] = s[i + 1]
      /\ h = s[1]
  BY HeadTailProperties, LenProperties, EmptySeq
<1>2. /\ BytesOf(s) = Sums(s)[k + 1] /\ Sums(s)[0] = 0
      /\ \A i \in 1 .. k + 1 : Sums(s)[i] = Sums(s)[i - 1] + s[i].bytes
  BY <1>1, SumsAre
<1> HIDE DEF t, h
<1>3. /\ BytesOf(t) = Sums(t)[k] /\ Sums(t)[0] = 0
      /\ \A i \in 1 .. k : Sums(t)[i] = Sums(t)[i - 1] + t[i].bytes
      /\ \A i \in 0 .. k : Sums(t)[i] \in Nat
  BY <1>1, SumsAre
<1>4. h.bytes \in Nat /\ \A i \in 1 .. k : t[i].bytes \in Nat
  <2>1. \A i \in 1 .. k : t[i] \in AnswerKept
    BY <1>1, LenProperties
  <2> QED BY <1>1, <2>1 DEF AnswerKept
<1>5. 0 \in S
  <2>1. 1 \in 1 .. k + 1 /\ 1 - 1 = 0 /\ 0 + 1 = 1
    BY <1>1
  <2>2. Sums(s)[1] = Sums(s)[0] + s[1].bytes
    BY <1>2, <2>1
  <2> QED BY <1>1, <1>2, <1>3, <1>4, <2>1, <2>2
<1>6. ASSUME NEW i \in Nat, i \in S PROVE i + 1 \in S
  <2> SUFFICES ASSUME i + 1 <= k PROVE Sums(s)[(i + 1) + 1] = Sums(t)[i + 1] + h.bytes
    OBVIOUS
  <2>1. /\ Sums(s)[i + 1] = Sums(t)[i] + h.bytes
        /\ i + 1 \in 1 .. k /\ (i + 1) - 1 = i /\ i \in 0 .. k
        /\ (i + 1) + 1 \in 1 .. k + 1 /\ ((i + 1) + 1) - 1 = i + 1
    BY <1>1, <1>6
  <2>2. Sums(s)[(i + 1) + 1] = Sums(s)[i + 1] + s[(i + 1) + 1].bytes
    BY <1>2, <2>1
  <2>3. s[(i + 1) + 1] = t[i + 1] /\ Sums(t)[i + 1] = Sums(t)[i] + t[i + 1].bytes
    BY <1>1, <1>3, <2>1
  <2>4. Sums(t)[i] \in Nat /\ t[i + 1].bytes \in Nat
    BY <1>3, <1>4, <2>1
  <2> QED BY <1>4, <2>1, <2>2, <2>3, <2>4
<1> HIDE DEF S
<1>7. Nat \subseteq S
  BY <1>5, <1>6, Induction
<1>8. Sums(s)[k + 1] = Sums(t)[k] + h.bytes
  BY <1>1, <1>7 DEF S
<1> QED BY <1>1, <1>2, <1>3, <1>8 DEF t, h

\* A table counts the bytes of its answers, whose identities differ.
TableOk(t) ==
    /\ t \in [answered : Seq(AnswerKept), bytes : Nat]
    /\ t.bytes = BytesOf(t.answered)
    /\ \A i, j \in DOMAIN t.answered :
          t.answered[i].request.id = t.answered[j].request.id => i = j

LEMMA DropOldestOk ==
    ASSUME NEW t, TableOk(t), t.answered # <<>>
    PROVE  /\ TableOk(DropOldest(t))
           /\ Len(DropOldest(t).answered) = Len(t.answered) - 1
           /\ Remembered(DropOldest(t)) \subseteq Remembered(t)
<1> DEFINE s == t.answered
           u == DropOldest(t)
<1>1. s \in Seq(AnswerKept) /\ t.bytes = BytesOf(s)
  BY DEF TableOk
<1>2. /\ Head(s) \in AnswerKept /\ Tail(s) \in Seq(AnswerKept) /\ Len(Tail(s)) = Len(s) - 1
      /\ BytesOf(s) = BytesOf(Tail(s)) + Head(s).bytes
  BY <1>1, BytesTail
<1>3. \A i \in 1 .. Len(Tail(s)) : Tail(s)[i] = s[i + 1]
  BY <1>1, HeadTailProperties
<1>4. /\ Len(s) \in Nat /\ DOMAIN s = 1 .. Len(s) /\ Len(Tail(s)) \in Nat
      /\ DOMAIN Tail(s) = 1 .. Len(Tail(s))
  BY <1>1, <1>2, LenProperties
<1>5. \A i \in 1 .. Len(Tail(s)) : i + 1 \in 1 .. Len(s)
  BY <1>2, <1>4
<1>6. u = [answered |-> Tail(s), bytes |-> BytesOf(Tail(s))]
  <2>1. Head(s).bytes \in Nat /\ BytesOf(Tail(s)) \in Nat
    BY <1>2, BytesTyped DEF AnswerKept
  <2>2. t.bytes - Head(s).bytes = BytesOf(Tail(s))
    BY <1>1, <1>2, <2>1
  <2> QED BY <2>2 DEF DropOldest
<1> HIDE DEF u
<1>7. u \in [answered : Seq(AnswerKept), bytes : Nat] /\ u.answered = Tail(s)
  <2>1. BytesOf(Tail(s)) \in Nat
    BY <1>2, BytesTyped
  <2> QED BY <1>2, <1>6, <2>1
<1>8. \A i, j \in 1 .. Len(Tail(s)) :
         Tail(s)[i].request.id = Tail(s)[j].request.id => i = j
  <2> SUFFICES ASSUME NEW i \in 1 .. Len(Tail(s)), NEW j \in 1 .. Len(Tail(s)),
                      Tail(s)[i].request.id = Tail(s)[j].request.id
               PROVE  i = j
    OBVIOUS
  <2>1. i + 1 = j + 1
    BY <1>3, <1>4, <1>5 DEF TableOk
  <2> QED BY <2>1
<1>9. TableOk(u)
  BY <1>4, <1>6, <1>7, <1>8 DEF TableOk
<1>10. Remembered(u) \subseteq Remembered(t)
  BY <1>3, <1>4, <1>5, <1>6 DEF Remembered
<1> QED BY <1>2, <1>7, <1>9, <1>10 DEF u

\* The tables that dropping the oldest answers one by one leaves.
Trimmings(t) ==
    CHOOSE f : f = [n \in 0 .. Len(t.answered) |->
                      IF n = 0 THEN t
                      ELSE IF Over(f[n - 1]) /\ f[n - 1].answered # << >>
                           THEN DropOldest(f[n - 1]) ELSE f[n - 1]]

LEMMA TrimmedOk ==
    ASSUME TableAssumption, NEW t, TableOk(t)
    PROVE  /\ TableOk(Trimmed(t)) /\ ~Over(Trimmed(t))
           /\ Remembered(Trimmed(t)) \subseteq Remembered(t)
<1> DEFINE k == Len(t.answered)
           V == {u \in [answered : Seq(AnswerKept), bytes : Nat] :
                   TableOk(u) /\ Remembered(u) \subseteq Remembered(t)}
           Dropped(u) == IF Over(u) /\ u.answered # <<>> THEN DropOldest(u) ELSE u
           step == [i \in 1 .. k |-> [u \in V |-> Dropped(u)]]
           f == Trimmings(t)
<1>1. k \in Nat
  BY LenProperties DEF TableOk
<1>2. t \in V
  BY DEF TableOk
<1>3. \A u \in V : Dropped(u) \in V
  <2> SUFFICES ASSUME NEW u \in V, Over(u), u.answered # <<>> PROVE DropOldest(u) \in V
    OBVIOUS
  <2>1. TableOk(DropOldest(u)) /\ Remembered(DropOldest(u)) \subseteq Remembered(u)
    BY DropOldestOk
  <2> QED BY <2>1 DEF TableOk
<1>4. \A u \in V : TableOk(u) /\ Remembered(u) \subseteq Remembered(t)
  OBVIOUS
<1> HIDE DEF V, Dropped
<1>5. /\ step \in [1 .. k -> [V -> V]]
      /\ \A i \in 1 .. k, u \in V : step[i][u] = Dropped(u)
  BY <1>3
<1> HIDE DEF step
<1>6. PICK g \in [0 .. k -> V] : Runs(g, k, t, step)
  BY <1>1, <1>2, <1>5, Recursion
<1>7. \A i \in 1 .. k : g[i] = Dropped(g[i - 1])
  <2> SUFFICES ASSUME NEW i \in 1 .. k PROVE g[i] = Dropped(g[i - 1])
    OBVIOUS
  <2>1. i - 1 \in 0 .. k
    BY <1>1
  <2>2. g[i - 1] \in V
    BY <2>1
  <2> QED BY <1>5, <1>6, <2>2 DEF Runs
<1>8. g = [n \in 0 .. k |-> IF n = 0 THEN t
             ELSE IF Over(g[n - 1]) /\ g[n - 1].answered # <<>>
                  THEN DropOldest(g[n - 1]) ELSE g[n - 1]]
  <2>1. \A n \in 0 .. k : n # 0 => n \in 1 .. k
    BY <1>1
  <2> QED BY <1>6, <1>7, <2>1 DEF Runs, Dropped
<1>9. f = [n \in 0 .. k |-> IF n = 0 THEN t
             ELSE IF Over(f[n - 1]) /\ f[n - 1].answered # <<>>
                  THEN DropOldest(f[n - 1]) ELSE f[n - 1]]
  BY <1>8 DEF Trimmings
<1>10. Trimmed(t) = f[k]
  BY DEF Trimmed, Trimmings
<1> HIDE DEF f
<1> DEFINE Good(n) == f[n] \in V /\ (Over(f[n]) => Len(f[n].answered) = k - n)
           S == {n \in Nat : n <= k => Good(n)}
<1>11. 0 \in S
  <2>1. f[0] = t
    BY <1>1, <1>9
  <2>2. Len(t.answered) = k - 0
    BY <1>1
  <2> QED BY <1>2, <2>1, <2>2
<1>12. ASSUME NEW n \in Nat, n \in S PROVE n + 1 \in S
  <2> SUFFICES ASSUME n + 1 <= k PROVE Good(n + 1)
    OBVIOUS
  <2>1. Good(n) /\ n + 1 \in 0 .. k /\ n + 1 # 0 /\ (n + 1) - 1 = n
    BY <1>1, <1>12
  <2>2. f[n + 1] = IF Over(f[n]) /\ f[n].answered # <<>> THEN DropOldest(f[n]) ELSE f[n]
    BY <1>9, <2>1
  <2>3. f[n + 1] \in V
    BY <1>3, <2>1, <2>2 DEF Dropped
  <2>4. ASSUME Over(f[n + 1]) PROVE Len(f[n + 1].answered) = k - (n + 1)
    <3>1. CASE Over(f[n]) /\ f[n].answered # <<>>
      <4>1. Len(f[n + 1].answered) = Len(f[n].answered) - 1
        BY <1>4, <2>1, <2>2, <3>1, DropOldestOk
      <4>2. Len(f[n].answered) = k - n
        BY <2>1, <3>1
      <4> QED BY <1>1, <4>1, <4>2
    <3>2. CASE ~(Over(f[n]) /\ f[n].answered # <<>>)
      <4>1. f[n + 1] = f[n]
        BY <2>2, <3>2
      <4>2. Over(f[n]) /\ f[n].answered = <<>>
        BY <2>4, <3>2, <4>1
      <4>3. Len(f[n].answered) = k - n /\ Len(f[n].answered) = 0
        BY <2>1, <4>2
      <4> QED BY <1>1, <2>1, <4>3
    <3> QED BY <3>1, <3>2
  <2> QED BY <2>3, <2>4
<1> HIDE DEF S
<1>13. k \in S
  <2>1. Nat \subseteq S
    BY <1>11, <1>12, Induction
  <2> QED BY <1>1, <2>1
<1>14. Good(k)
  <2> HIDE DEF Good
  <2> QED BY <1>1, <1>13 DEF S
<1>15. TableOk(f[k]) /\ Remembered(f[k]) \subseteq Remembered(t)
  BY <1>4, <1>14
<1>16. ~Over(f[k])
  <2> SUFFICES ASSUME Over(f[k]) PROVE FALSE
    OBVIOUS
  <2>1. Len(f[k].answered) = 0
    BY <1>1, <1>14
  <2>2. f[k].answered \in Seq(AnswerKept) /\ f[k].bytes = BytesOf(f[k].answered)
    BY <1>15 DEF TableOk
  <2>3. f[k].answered = <<>>
    BY <2>1, <2>2
  <2>4. f[k].bytes = 0
    BY <2>2, <2>3, BytesEmpty
  <2> QED BY <2>1, <2>4 DEF Over, TableAssumption
<1> QED BY <1>10, <1>15, <1>16

LEMMA KeepOk ==
    ASSUME TableAssumption, NEW t, TableOk(t), ~Over(t),
           NEW request \in Requests, Named(t, request) = {},
           NEW answer \in Nat, NEW bytes \in Nat
    PROVE  /\ TableOk(Keep(t, request, answer, bytes))
           /\ ~Over(Keep(t, request, answer, bytes))
           /\ Remembered(Keep(t, request, answer, bytes)) \subseteq
                 Remembered(t) \union {request}
<1>1. CASE bytes > REQUEST_BYTES
  BY <1>1 DEF Keep
<1>2. CASE ~(bytes > REQUEST_BYTES)
  <2> DEFINE s == t.answered
             e == [request |-> request, answer |-> answer, bytes |-> bytes]
             u == [answered |-> Append(s, e), bytes |-> t.bytes + bytes]
  <2>1. Keep(t, request, answer, bytes) = Trimmed(u)
    BY <1>2 DEF Keep
  <2>2. e \in AnswerKept /\ e.bytes = bytes /\ e.request = request
    BY DEF AnswerKept
  <2>3. s \in Seq(AnswerKept) /\ t.bytes = BytesOf(s) /\ t.bytes \in Nat
    BY DEF TableOk
  <2> HIDE DEF e
  <2>4. /\ Append(s, e) \in Seq(AnswerKept) /\ Len(Append(s, e)) = Len(s) + 1 /\ Len(s) \in Nat
        /\ \A i \in 1 .. Len(s) : Append(s, e)[i] = s[i]
        /\ Append(s, e)[Len(s) + 1] = e
        /\ DOMAIN s = 1 .. Len(s)
    BY <2>2, <2>3, AppendProperties, LenProperties
  <2>5. DOMAIN Append(s, e) = 1 .. Len(Append(s, e))
    BY <2>4, LenProperties
  <2>6. BytesOf(Append(s, e)) = t.bytes + bytes
    BY <2>2, <2>3, BytesAppend
  <2>7. \A i \in 1 .. Len(Append(s, e)) : i \in 1 .. Len(s) \/ i = Len(s) + 1
    BY <2>4
  <2>8. \A i \in 1 .. Len(s) : s[i].request.id # request.id
    BY <2>4 DEF Named
  <2>9. u.answered = Append(s, e) /\ u.bytes = t.bytes + bytes
    OBVIOUS
  <2> HIDE DEF s
  <2>10. \A i, j \in 1 .. Len(Append(s, e)) :
            Append(s, e)[i].request.id = Append(s, e)[j].request.id => i = j
    <3> SUFFICES ASSUME NEW i \in 1 .. Len(Append(s, e)), NEW j \in 1 .. Len(Append(s, e)),
                        Append(s, e)[i].request.id = Append(s, e)[j].request.id
                 PROVE  i = j
      OBVIOUS
    <3>1. CASE i \in 1 .. Len(s) /\ j \in 1 .. Len(s)
      BY <2>4, <3>1 DEF TableOk, s
    <3>2. CASE i = Len(s) + 1 /\ j \in 1 .. Len(s)
      BY <2>2, <2>4, <2>8, <3>2
    <3>3. CASE i \in 1 .. Len(s) /\ j = Len(s) + 1
      BY <2>2, <2>4, <2>8, <3>3
    <3>4. CASE i = Len(s) + 1 /\ j = Len(s) + 1
      BY <3>4
    <3> QED BY <2>7, <3>1, <3>2, <3>3, <3>4
  <2>11. u \in [answered : Seq(AnswerKept), bytes : Nat]
    BY <2>3, <2>4
  <2>12. TableOk(u)
    BY <2>5, <2>6, <2>9, <2>10, <2>11 DEF TableOk
  <2>13. Remembered(u) \subseteq Remembered(t) \union {request}
    BY <2>2, <2>4, <2>5, <2>7, <2>9 DEF Remembered, s
  <2> HIDE DEF u
  <2> QED BY <2>1, <2>12, <2>13, TrimmedOk
<1> QED BY <1>1, <1>2

-----------------------------------------------------------------------------
\* The invariant.

LogTyped ==
    /\ LogOk(log) /\ log.sequence <= MaxSequence /\ notified = log.sequence
    /\ watchers \subseteq connected /\ connected \subseteq Clients
    /\ wake \in [Clients -> BOOLEAN]

ReadingTyped ==
    /\ cursor \in [Clients -> 0 .. log.sequence]
    /\ watched \in [Clients -> 0 .. log.sequence]
    /\ read \in [Clients -> SUBSET (1 .. MaxSequence)]
    /\ lost \in [Clients -> SUBSET (1 .. MaxSequence)]

LogInv == LogTyped /\ ReadingTyped /\ EveryEventAccounted /\ WatchersWoken

TableInv ==
    /\ TableOk(table) /\ ~Over(table)
    /\ ran \in [Requests -> 0 .. MaxSends] /\ forgot \in [Requests -> 0 .. MaxSends]
    /\ \A r \in Requests :
          ran[r] = forgot[r] + (IF r \in Remembered(table) THEN 1 ELSE 0)

IInv == LogInv /\ TableInv

Assumed == OwnerAssumption /\ CapacityAssumption /\ TableAssumption

LEMMA Initially == ASSUME Assumed, Init PROVE IInv
<1>1. MaxSequence \in Nat /\ MaxSends \in Nat /\ EVENT_CAPACITY \in Nat
      /\ REQUESTS \in Nat /\ REQUEST_BYTES \in Nat
  BY DEF Assumed, OwnerAssumption, CapacityAssumption, TableAssumption
<1>2. <<>> \in Seq(Event) /\ <<>> \in Seq(AnswerKept) /\ Len(<<>>) = 0 /\ DOMAIN <<>> = {}
  BY EmptySeq
<1>3. log = [events |-> <<>>, sequence |-> 0] /\ table = [answered |-> <<>>, bytes |-> 0]
  BY DEF Init, EmptyLog, EmptyTable
<1>4. log.events = <<>> /\ log.sequence = 0 /\ table.answered = <<>> /\ table.bytes = 0
  BY <1>3
<1>5. LogOk(log)
  <2>1. log \in [events : Seq(Event), sequence : Nat]
    BY <1>2, <1>3
  <2> QED BY <1>1, <1>2, <1>4, <2>1 DEF LogOk
<1>6. TableOk(table) /\ ~Over(table)
  <2>1. table \in [answered : Seq(AnswerKept), bytes : Nat]
    BY <1>2, <1>3
  <2>2. TableOk(table)
    BY <1>2, <1>4, <2>1, BytesEmpty DEF TableOk
  <2> QED BY <1>1, <1>2, <1>4, <2>2 DEF Over
<1>7. LogTyped /\ ReadingTyped
  BY <1>1, <1>4, <1>5 DEF Init, LogTyped, ReadingTyped
<1>8. EveryEventAccounted
  <2>1. 1 .. 0 = {}
    OBVIOUS
  <2> QED BY <2>1 DEF Init, EveryEventAccounted
<1>9. WatchersWoken
  BY DEF Init, WatchersWoken
<1>10. Remembered(table) = {}
  BY <1>2, <1>4 DEF Remembered
<1>11. TableInv
  BY <1>1, <1>6, <1>10 DEF Init, TableInv
<1> QED BY <1>7, <1>8, <1>9, <1>11 DEF IInv, LogInv

-----------------------------------------------------------------------------
\* The steps.

\* A message's changes: what was held stays accounted for, and every
\* watcher but the caller is woken for what is new.
LEMMA Announced ==
    ASSUME Assumed, LogInv, NEW by \in Callers, NEW changes \in Changes,
           Announce(by, changes), UNCHANGED <<watchers, connected, reading>>
    PROVE  LogInv'
<1>1. log.sequence \in Nat /\ MaxSequence \in Nat /\ log.sequence <= MaxSequence
      /\ notified = log.sequence
  BY DEF LogInv, LogTyped, LogOk, Assumed, OwnerAssumption
<1>2. changes \in Nat /\ log.sequence + changes <= MaxSequence
  BY <1>1 DEF Changes
<1>3. /\ LogOk(log') /\ log'.sequence = log.sequence + changes
      /\ Grown(log, log', by)
      /\ changes = 0 => log' = log
      /\ notified' = log'.sequence
      /\ wake' = [c \in Clients |->
                    \/ wake[c]
                    \/ log'.sequence # notified /\ c \in watchers /\ c # by]
  BY <1>2, AnnounceGives DEF LogInv, LogTyped, Assumed
<1>4. UNCHANGED <<watchers, connected, cursor, read, lost, watched>>
  BY DEF reading
<1>5. wake' \in [Clients -> BOOLEAN]
  BY <1>3
<1>6. LogTyped'
  BY <1>1, <1>2, <1>3, <1>4, <1>5 DEF LogInv, LogTyped
<1>7. ReadingTyped'
  <2>1. 0 .. log.sequence \subseteq 0 .. log'.sequence
    BY <1>1, <1>2, <1>3
  <2> QED BY <1>4, <2>1 DEF LogInv, ReadingTyped
<1>8. EveryEventAccounted'
  BY <1>4 DEF LogInv, EveryEventAccounted
<1>9. WatchersWoken'
  <2> SUFFICES ASSUME NEW c \in watchers, NEW i \in DOMAIN log'.events,
                      log'.events[i].sequence > cursor[c],
                      log'.events[i].sequence > watched[c],
                      log'.events[i].by # c
               PROVE  wake'[c]
    BY <1>4 DEF WatchersWoken
  <2>1. c \in Clients
    BY DEF LogInv, LogTyped
  <2>2. i \in 1 .. Len(log'.events)
    BY <1>3, LenProperties DEF LogOk
  <2>3. DOMAIN log.events = 1 .. Len(log.events)
    BY LenProperties DEF LogInv, LogTyped, LogOk
  <2>4. CASE \E j \in 1 .. Len(log.events) : log'.events[i] = log.events[j]
    <3>1. wake[c]
      BY <2>3, <2>4 DEF LogInv, WatchersWoken
    <3> QED BY <1>3, <2>1, <3>1
  <2>5. CASE log'.events[i].sequence > log.sequence /\ log'.events[i].by = by
    <3>1. c # by
      BY <2>5
    <3>2. log'.sequence # notified
      <4>1. log'.events[i].sequence = log'.sequence - Len(log'.events) + i
        BY <1>3, <2>2 DEF LogOk
      <4>2. Len(log'.events) \in Nat /\ i <= Len(log'.events)
        BY <1>3, <2>2, LenProperties DEF LogOk
      <4> QED BY <1>1, <1>2, <1>3, <2>2, <2>5, <4>1, <4>2
    <3> QED BY <1>3, <2>1, <3>1, <3>2
  <2> QED BY <1>3, <2>2, <2>4, <2>5 DEF Grown
<1> QED BY <1>6, <1>7, <1>8, <1>9 DEF LogInv

LEMMA WatchStep ==
    ASSUME LogInv, NEW c \in Clients, WatchEvents(c)
    PROVE  LogInv'
<1>1. /\ c \in connected /\ watchers' = watchers \union {c}
      /\ watched' = [watched EXCEPT ![c] = log.sequence]
      /\ UNCHANGED <<log, notified, connected, wake, cursor, read, lost>>
  BY DEF WatchEvents
<1>2. log.sequence \in Nat
  BY DEF LogInv, LogTyped, LogOk
<1>3. LogTyped' /\ ReadingTyped' /\ EveryEventAccounted'
  BY <1>1, <1>2 DEF LogInv, LogTyped, ReadingTyped, EveryEventAccounted
<1>4. WatchersWoken'
  <2> SUFFICES ASSUME NEW d \in watchers', NEW i \in DOMAIN log.events,
                      log.events[i].sequence > cursor[d],
                      log.events[i].sequence > watched'[d],
                      log.events[i].by # d
               PROVE  wake[d]
    BY <1>1 DEF WatchersWoken
  <2>1. CASE d # c
    <3>1. d \in watchers /\ watched'[d] = watched[d]
      BY <1>1, <2>1 DEF LogInv, LogTyped, ReadingTyped
    <3> QED BY <3>1 DEF LogInv, WatchersWoken
  <2>2. CASE d = c
    <3>1. watched'[d] = log.sequence
      BY <1>1, <2>2 DEF LogInv, ReadingTyped
    <3>2. log.events \in Seq(Event)
      BY DEF LogInv, LogTyped, LogOk
    <3>3. i \in 1 .. Len(log.events) /\ Len(log.events) \in Nat
      BY <3>2, LenProperties
    <3>4. log.events[i].sequence = log.sequence - Len(log.events) + i
      BY <3>3 DEF LogInv, LogTyped, LogOk
    <3> QED BY <1>2, <3>1, <3>3, <3>4
  <2> QED BY <2>1, <2>2
<1> QED BY <1>3, <1>4 DEF LogInv

LEMMA HeldAre ==
    ASSUME LogOk(log)
    PROVE  /\ log.sequence \in Nat /\ Len(log.events) \in Nat
           /\ Len(log.events) <= log.sequence
           /\ SequencesOf(log.events) = log.sequence - Len(log.events) + 1 .. log.sequence
           /\ Oldest(log) = log.sequence - Len(log.events) + 1
<1> DEFINE n == Len(log.events)
           q == log.sequence
<1>1. q \in Nat /\ n \in Nat /\ n <= q /\ DOMAIN log.events = 1 .. n
  BY LenProperties DEF LogOk
<1>2. \A i \in 1 .. n : log.events[i].sequence = q - n + i
  BY DEF LogOk
<1>3. SequencesOf(log.events) = q - n + 1 .. q
  <2>1. \A i \in 1 .. n : q - n + i \in q - n + 1 .. q
    BY <1>1
  <2>2. ASSUME NEW s \in q - n + 1 .. q
        PROVE  s - (q - n) \in 1 .. n /\ q - n + (s - (q - n)) = s
    BY <1>1
  <2>3. SequencesOf(log.events) \subseteq q - n + 1 .. q
    BY <1>1, <1>2, <2>1 DEF SequencesOf
  <2>4. ASSUME NEW s \in q - n + 1 .. q PROVE s \in SequencesOf(log.events)
    <3>1. log.events[s - (q - n)].sequence = s
      BY <1>2, <2>2
    <3> QED BY <1>1, <2>2, <3>1 DEF SequencesOf
  <2> QED BY <2>3, <2>4
<1>4. Oldest(log) = q - n + 1
  <2>1. CASE log.events = <<>>
    <3>1. n = 0
      BY <2>1, EmptySeq
    <3> QED BY <1>1, <2>1, <3>1 DEF Oldest
  <2>2. CASE log.events # <<>>
    <3>1. n # 0
      BY <2>2, EmptySeq DEF LogOk
    <3>2. 1 \in 1 .. n
      BY <1>1, <3>1
    <3> QED BY <1>2, <2>2, <3>2 DEF Oldest
  <2> QED BY <2>1, <2>2
<1> QED BY <1>1, <1>3, <1>4

LEMMA ReadStep ==
    ASSUME Assumed, LogInv, NEW c \in Clients, ReadEvents(c)
    PROVE  LogInv'
<1> DEFINE answer == Since(log, cursor[c])
           given == {answer.events[i].sequence : i \in DOMAIN answer.events}
           missed == {s \in 1 .. answer.sequence : s > cursor[c] /\ \A g \in given : s < g}
           q == log.sequence
           n == Len(log.events)
           a == cursor[c]
<1>1. /\ wake' = [wake EXCEPT ![c] = FALSE]
      /\ cursor' = [cursor EXCEPT ![c] = answer.sequence]
      /\ read' = [read EXCEPT ![c] = @ \union given]
      /\ lost' = [lost EXCEPT ![c] = IF answer.gap THEN @ \union missed ELSE @]
      /\ UNCHANGED <<log, notified, watchers, connected, watched>>
  BY DEF ReadEvents, owner
<1>2. /\ q \in Nat /\ n \in Nat /\ n <= q /\ q <= MaxSequence /\ MaxSequence \in Nat
      /\ SequencesOf(log.events) = q - n + 1 .. q
      /\ Oldest(log) = q - n + 1
      /\ log.events \in Seq(Event)
  BY HeldAre DEF LogInv, LogTyped, LogOk, Assumed, OwnerAssumption
<1>3. a \in Nat /\ a <= q
  BY <1>2 DEF LogInv, ReadingTyped
<1>4. answer.sequence = q /\ answer.gap = (a + 1 < q - n + 1)
      /\ answer.events = After(log.events, a)
  BY <1>2 DEF Since, Gap
<1>5. given = {s \in q - n + 1 .. q : s > a}
  <2>1. given = SequencesOf(After(log.events, a))
    BY <1>4 DEF SequencesOf
  <2>2. SequencesOf(After(log.events, a)) = {s \in SequencesOf(log.events) : s > a}
    BY <1>2, <1>3, AfterGives
  <2> QED BY <1>2, <2>1, <2>2
<1>6. missed = {s \in 1 .. q : s > a /\ \A g \in given : s < g}
  BY <1>4
<1> HIDE DEF answer, given, missed
<1> DEFINE gone == IF answer.gap THEN missed ELSE {}
<1>7. /\ given \subseteq a + 1 .. q /\ gone \subseteq a + 1 .. q
      /\ given \union gone = a + 1 .. q /\ given \intersect gone = {}
  <2>1. CASE answer.gap
    <3>1. a + 1 < q - n + 1
      BY <1>4, <2>1
    <3>2. given = q - n + 1 .. q
      BY <1>2, <1>3, <1>5, <3>1
    <3>3. missed = a + 1 .. q - n
      <4>1. ASSUME NEW s \in a + 1 .. q - n PROVE s \in missed
        <5>1. s \in 1 .. q /\ s > a /\ \A g \in q - n + 1 .. q : s < g
          BY <1>2, <1>3
        <5> QED BY <1>6, <3>2, <5>1
      <4>2. ASSUME NEW s \in missed PROVE s \in a + 1 .. q - n
        <5>1. s \in 1 .. q /\ s > a /\ \A g \in q - n + 1 .. q : s < g
          BY <1>6, <3>2
        <5>2. ~(s \in q - n + 1 .. q)
          <6> SUFFICES ASSUME s \in q - n + 1 .. q PROVE FALSE
            OBVIOUS
          <6>1. s < s
            BY <5>1
          <6> QED BY <1>2, <5>1, <6>1
        <5> QED BY <1>2, <1>3, <5>1, <5>2
      <4> QED BY <4>1, <4>2
    <3>4. gone = a + 1 .. q - n
      BY <2>1, <3>3
    <3> HIDE DEF gone
    <3> QED BY <1>2, <1>3, <3>1, <3>2, <3>4
  <2>2. CASE ~answer.gap
    <3>1. ~(a + 1 < q - n + 1)
      BY <1>4, <2>2
    <3>2. given = a + 1 .. q
      BY <1>2, <1>3, <1>5, <3>1
    <3>3. gone = {}
      BY <2>2
    <3> HIDE DEF gone
    <3> QED BY <3>2, <3>3
  <2> QED BY <2>1, <2>2
<1>8. lost' = [lost EXCEPT ![c] = @ \union gone]
  BY <1>1 DEF LogInv, ReadingTyped
<1> HIDE DEF gone
<1>9. /\ read'[c] = read[c] \union given /\ lost'[c] = lost[c] \union gone
      /\ cursor'[c] = q /\ ~wake'[c]
      /\ \A d \in Clients \ {c} : /\ read'[d] = read[d] /\ lost'[d] = lost[d]
                                  /\ cursor'[d] = cursor[d] /\ wake'[d] = wake[d]
  BY <1>1, <1>4, <1>8 DEF LogInv, LogTyped, ReadingTyped
<1>10. LogTyped'
  BY <1>1 DEF LogInv, LogTyped
<1>11. ReadingTyped'
  <2>1. a + 1 .. q \subseteq 1 .. MaxSequence /\ q \in 0 .. q
    BY <1>2, <1>3
  <2>2. given \subseteq 1 .. MaxSequence /\ gone \subseteq 1 .. MaxSequence
    BY <1>7, <2>1
  <2>3. cursor' \in [Clients -> 0 .. q]
    BY <1>1, <1>4, <2>1 DEF LogInv, ReadingTyped
  <2>4. read' \in [Clients -> SUBSET (1 .. MaxSequence)]
    BY <1>1, <2>2 DEF LogInv, ReadingTyped
  <2>5. lost' \in [Clients -> SUBSET (1 .. MaxSequence)]
    BY <1>8, <2>2 DEF LogInv, ReadingTyped
  <2> QED BY <1>1, <2>3, <2>4, <2>5 DEF LogInv, ReadingTyped
<1>12. EveryEventAccounted'
  <2>1. ASSUME NEW d \in Clients, d # c
        PROVE  read'[d] \union lost'[d] = 1 .. cursor'[d] /\ read'[d] \intersect lost'[d] = {}
    BY <1>9, <2>1 DEF LogInv, EveryEventAccounted
  <2>2. read[c] \union lost[c] = 1 .. a /\ read[c] \intersect lost[c] = {}
    BY DEF LogInv, EveryEventAccounted
  <2>3. (1 .. a) \union (a + 1 .. q) = 1 .. q /\ (1 .. a) \intersect (a + 1 .. q) = {}
    BY <1>2, <1>3
  <2>4. read'[c] \union lost'[c] = 1 .. q /\ read'[c] \intersect lost'[c] = {}
    <3> HIDE DEF a, q
    <3> QED BY <1>7, <1>9, <2>2, <2>3
  <2>5. read'[c] \union lost'[c] = 1 .. cursor'[c] /\ read'[c] \intersect lost'[c] = {}
    BY <1>9, <2>4
  <2> QED BY <2>1, <2>5 DEF EveryEventAccounted
<1>13. WatchersWoken'
  <2> SUFFICES ASSUME NEW d \in watchers, NEW i \in DOMAIN log.events,
                      log.events[i].sequence > cursor'[d],
                      log.events[i].sequence > watched[d],
                      log.events[i].by # d
               PROVE  wake'[d]
    BY <1>1 DEF WatchersWoken
  <2>1. d \in Clients
    BY DEF LogInv, LogTyped
  <2>2. CASE d # c
    BY <1>9, <2>1, <2>2 DEF LogInv, WatchersWoken
  <2>3. CASE d = c
    <3>1. log.events[i].sequence \in SequencesOf(log.events)
      BY DEF SequencesOf
    <3> QED BY <1>2, <1>9, <2>3, <3>1
  <2> QED BY <2>2, <2>3
<1> QED BY <1>10, <1>11, <1>12, <1>13 DEF LogInv

LEMMA DisconnectStep ==
    ASSUME LogInv, NEW c \in Clients, Disconnect(c)
    PROVE  LogInv'
<1>1. /\ connected' = connected \ {c} /\ watchers' = watchers \ {c}
      /\ UNCHANGED <<log, notified, wake, cursor, read, lost, watched>>
  BY DEF Disconnect, reading
<1>2. LogTyped' /\ ReadingTyped' /\ EveryEventAccounted' /\ WatchersWoken'
  BY <1>1 DEF LogInv, LogTyped, ReadingTyped, EveryEventAccounted, WatchersWoken
<1> QED BY <1>2 DEF LogInv

\* A mutation the table does not name runs, and its answer is kept, or
\* counts as forgotten with the ones that made room for it.
LEMMA MutateStep ==
    ASSUME Assumed, IInv, NEW c \in Clients, NEW r \in Requests, Mutate(c, r)
    PROVE  IInv'
<1>1. CASE UNCHANGED <<owner, wake, past>> /\ UNCHANGED reading
  <2>1. UNCHANGED vars
    BY <1>1 DEF vars
  <2> QED BY <2>1 DEF IInv, LogInv, LogTyped, ReadingTyped, EveryEventAccounted,
         WatchersWoken, TableInv, vars, owner, reading, past
<1>2. CASE Named(table, r) = {} /\ \E changes \in Changes, succeeds \in BOOLEAN :
             /\ Announce(c, changes)
             /\ UNCHANGED <<watchers, connected>>
             /\ IF ~succeeds THEN UNCHANGED <<table, past>>
                ELSE /\ ran[r] < MaxSends
                     /\ ran' = [ran EXCEPT ![r] = @ + 1]
                     /\ table' = Keep(table, r, ran'[r], Bytes[r])
                     /\ forgot' = [q \in Requests |->
                           IF q \in (Remembered(table) \union {r}) \ Remembered(table')
                           THEN ran'[q] ELSE forgot[q]]
  <2>1. PICK changes \in Changes, succeeds \in BOOLEAN :
             /\ Announce(c, changes)
             /\ UNCHANGED <<watchers, connected>>
             /\ IF ~succeeds THEN UNCHANGED <<table, past>>
                ELSE /\ ran[r] < MaxSends
                     /\ ran' = [ran EXCEPT ![r] = @ + 1]
                     /\ table' = Keep(table, r, ran'[r], Bytes[r])
                     /\ forgot' = [q \in Requests |->
                           IF q \in (Remembered(table) \union {r}) \ Remembered(table')
                           THEN ran'[q] ELSE forgot[q]]
    BY <1>2
  <2>2. LogInv'
    <3>1. UNCHANGED reading /\ c \in Callers
      BY DEF Mutate, Callers
    <3>2. UNCHANGED <<watchers, connected, reading>>
      BY <2>1, <3>1
    <3> QED BY <2>1, <3>1, <3>2, Announced DEF IInv
  <2>3. CASE ~succeeds
    <3>1. TableInv'
      BY <2>1, <2>3 DEF IInv, TableInv, past
    <3> QED BY <2>2, <3>1 DEF IInv
  <2>4. CASE succeeds
    <3>1. /\ ran[r] < MaxSends
          /\ ran' = [ran EXCEPT ![r] = @ + 1]
          /\ table' = Keep(table, r, ran'[r], Bytes[r])
          /\ forgot' = [q \in Requests |->
                IF q \in (Remembered(table) \union {r}) \ Remembered(table')
                THEN ran'[q] ELSE forgot[q]]
      BY <2>1, <2>4
    <3>2. /\ TableOk(table) /\ ~Over(table)
          /\ ran \in [Requests -> 0 .. MaxSends] /\ forgot \in [Requests -> 0 .. MaxSends]
          /\ \A q \in Requests :
                ran[q] = forgot[q] + (IF q \in Remembered(table) THEN 1 ELSE 0)
      BY DEF IInv, TableInv
    <3>3. MaxSends \in Nat /\ Bytes[r] \in Nat
      BY DEF Assumed, OwnerAssumption
    <3>4. ran' \in [Requests -> 0 .. MaxSends] /\ ran'[r] = ran[r] + 1 /\ ran'[r] \in Nat
          /\ \A q \in Requests \ {r} : ran'[q] = ran[q]
      BY <3>1, <3>2, <3>3
    <3>5. TableOk(table') /\ ~Over(table')
          /\ Remembered(table') \subseteq Remembered(table) \union {r}
      <4>1. LET k == Keep(table, r, ran'[r], Bytes[r]) IN
            /\ TableOk(k) /\ ~Over(k)
            /\ Remembered(k) \subseteq Remembered(table) \union {r}
        BY <1>2, <3>2, <3>3, <3>4, KeepOk DEF Assumed
      <4> QED BY <3>1, <4>1
    <3>6. r \notin Remembered(table)
      BY <1>2 DEF Named, Remembered
    <3>7. forgot' \in [Requests -> 0 .. MaxSends]
      BY <3>1, <3>2, <3>4
    <3>8. ASSUME NEW q \in Requests
          PROVE  ran'[q] = forgot'[q] + (IF q \in Remembered(table') THEN 1 ELSE 0)
      <4>1. ran'[q] \in Nat /\ forgot[q] \in Nat /\ ran[q] \in Nat
        BY <3>2, <3>3, <3>4
      <4>2. CASE q = r
        <5>1. ran[q] = forgot[q]
          BY <3>2, <3>6, <4>1, <4>2
        <5>2. forgot'[q] = IF q \in Remembered(table') THEN forgot[q] ELSE ran'[q]
          BY <3>1, <4>2
        <5> QED BY <3>4, <4>1, <4>2, <5>1, <5>2
      <4>3. CASE q # r
        <5>1. ran'[q] = ran[q] /\ ran[q] = forgot[q] + (IF q \in Remembered(table) THEN 1 ELSE 0)
          BY <3>2, <3>4, <4>3
        <5>2. CASE q \in Remembered(table')
          <6>1. q \in Remembered(table) /\ forgot'[q] = forgot[q]
            BY <3>1, <3>5, <4>3, <5>2
          <6> QED BY <5>1, <5>2, <6>1
        <5>3. CASE q \notin Remembered(table') /\ q \in Remembered(table)
          <6>1. forgot'[q] = ran'[q]
            BY <3>1, <5>3
          <6> QED BY <4>1, <5>3, <6>1
        <5>4. CASE q \notin Remembered(table') /\ q \notin Remembered(table)
          <6>1. forgot'[q] = forgot[q]
            BY <3>1, <4>3, <5>4
          <6> QED BY <5>1, <5>4, <6>1
        <5> QED BY <5>2, <5>3, <5>4
      <4> QED BY <4>2, <4>3
    <3>9. TableInv'
      BY <3>4, <3>5, <3>7, <3>8 DEF TableInv
    <3> QED BY <2>2, <3>9 DEF IInv
  <2> QED BY <2>3, <2>4
<1>3. Answered(table, r).kind # "new" \/ Named(table, r) = {}
  BY DEF Answered
<1> QED BY <1>1, <1>2, <1>3 DEF Mutate

LEMMA Step == ASSUME Assumed, IInv, [Next]_vars PROVE IInv'
<1>1. ASSUME NEW by \in Callers, NEW changes \in Changes, Announce(by, changes),
             UNCHANGED <<table, watchers, connected, reading, past>>
      PROVE  IInv'
  <2>1. LogInv'
    <3>1. UNCHANGED <<watchers, connected, reading>>
      BY <1>1
    <3> QED BY <1>1, <3>1, Announced DEF IInv
  <2>2. TableInv'
    BY <1>1 DEF IInv, TableInv, past
  <2> QED BY <2>1, <2>2 DEF IInv
<1>2. CASE Finished
  <2>1. Nobody \in Callers
    BY DEF Callers
  <2> QED BY <1>1, <1>2, <2>1 DEF Finished
<1>3. ASSUME NEW c \in Clients, CallOther(c) PROVE IInv'
  <2>1. c \in Callers
    BY DEF Callers
  <2> QED BY <1>1, <1>3, <2>1 DEF CallOther
<1>4. ASSUME NEW c \in Clients, WatchEvents(c) \/ ReadEvents(c) \/ Disconnect(c) PROVE IInv'
  <2>1. LogInv'
    BY <1>4, WatchStep, ReadStep, DisconnectStep DEF IInv
  <2>2. UNCHANGED <<table, past>>
    BY <1>4 DEF WatchEvents, ReadEvents, Disconnect, owner
  <2>3. TableInv'
    BY <2>2 DEF IInv, TableInv, past
  <2> QED BY <2>1, <2>3 DEF IInv
<1>5. ASSUME NEW c \in Clients, NEW r \in Requests, Mutate(c, r) PROVE IInv'
  BY <1>5, MutateStep
<1>6. CASE UNCHANGED vars
  BY <1>6 DEF IInv, LogInv, LogTyped, ReadingTyped, EveryEventAccounted,
     WatchersWoken, TableInv, vars, owner, reading, past
<1> QED BY <1>2, <1>3, <1>4, <1>5, <1>6 DEF Next

LEMMA Promised == ASSUME Assumed, IInv PROVE LogAndAnswers
<1>1. MaxSequence \in Nat
  BY DEF Assumed, OwnerAssumption
<1>2. /\ log.sequence \in Nat /\ Len(log.events) \in Nat /\ Len(log.events) <= log.sequence
      /\ log.sequence <= MaxSequence /\ notified = log.sequence
      /\ Len(log.events) <= EVENT_CAPACITY /\ log.events \in Seq(Event)
  BY HeldAre DEF IInv, LogInv, LogTyped, LogOk
<1>3. log.events \in Seq(Events)
  <2>1. \A i \in 1 .. Len(log.events) : log.events[i] \in Events
    <3> SUFFICES ASSUME NEW i \in 1 .. Len(log.events) PROVE log.events[i] \in Events
      OBVIOUS
    <3>1. log.events[i] \in Event
      BY <1>2, ElementOfSeq
    <3>2. log.events[i].sequence = log.sequence - Len(log.events) + i
      BY DEF IInv, LogInv, LogTyped, LogOk
    <3>3. log.events[i].sequence \in 1 .. MaxSequence
      BY <1>1, <1>2, <3>2
    <3> QED BY <3>1, <3>3 DEF Event, Events, Callers
  <2>2. log.events \in [1 .. Len(log.events) -> Events]
    BY <1>2, <2>1, LenProperties
  <2> QED BY <1>2, <2>2, SeqDef
<1>4. table.answered \in Seq(AnswerKept)
  BY DEF IInv, TableInv, TableOk
<1>5. Remembered(table) \subseteq Requests
  <2>1. \A i \in DOMAIN table.answered : table.answered[i] \in AnswerKept
    BY <1>4, LenProperties
  <2> QED BY <2>1 DEF Remembered, AnswerKept
<1>6. TypeOK
  <2>1. 0 .. log.sequence \subseteq 0 .. MaxSequence
    BY <1>1, <1>2
  <2>2. log.sequence \in 0 .. MaxSequence
    BY <1>1, <1>2
  <2> QED BY <1>2, <1>3, <1>5, <2>1, <2>2
          DEF TypeOK, IInv, LogInv, LogTyped, ReadingTyped, TableInv
<1>7. RunOncePerAnswer /\ TableWithinBounds
  BY DEF IInv, TableInv, TableOk, RunOncePerAnswer, TableWithinBounds
<1> QED BY <1>6, <1>7 DEF LogAndAnswers, IInv, LogInv

\* Every event is given to a client or announced as missed, exactly one of
\* the two; no watcher is left asleep over another's change; a mutation
\* runs again only after its answer was forgotten; and the table keeps its
\* bounds (owner.rs, requests.rs).
THEOREM OwnerCorrect ==
    ASSUME OwnerAssumption, CapacityAssumption, TableAssumption
    PROVE  Spec => []LogAndAnswers
<1>1. Assumed
  BY DEF Assumed
<1>2. Init => IInv
  BY <1>1, Initially
<1>3. IInv /\ [Next]_vars => IInv'
  BY <1>1, Step
<1>4. IInv => LogAndAnswers
  BY <1>1, Promised
<1> QED BY <1>2, <1>3, <1>4, PTL DEF Spec

-----------------------------------------------------------------------------
\* The live session.

\* Where a process is while its listener may run, and the listener while
\* its thread has a connection in hand.
Serving == {"serving", "flagged", "joining", "joined"}
Hands == {"taken", "checked", "over"}

Alive(p) == stage[p] \notin {"new", "over"}

\* A connection the thread of p has still to decide on.
Waits(c, p) == c \in Peers /\ server[c] = p /\ connection[c] = "waiting"

\* Only the process that owns the catalog is alive.
OneOwner == \A p \in Processes : catalog = p <=> Alive(p)

\* The listener and its flag follow the process's life; a file that names
\* it stays until it is removed by its own process.
Lives ==
    \A p \in Processes :
       /\ stage[p] \in {"new", "owner", "cleared"} => accepting[p] = "none"
       /\ stage[p] = "over" => ~Listens(p)
       /\ stage[p] \in {"flagged", "joining", "joined", "removed"} => stopping[p]
       /\ stage[p] \in Serving /\ accepting[p] # "none" => file = p

\* A backlog is a listener's own: connections that wait for it, each once,
\* and the waker only after the flag.
Queued(p) ==
    /\ ~Listens(p) => backlog[p] = <<>>
    /\ \A i \in 1 .. Len(backlog[p]) :
          /\ backlog[p][i] = Waker => stopping[p]
          /\ backlog[p][i] # Waker => Waits(backlog[p][i], p)
    /\ \A i, j \in 1 .. Len(backlog[p]) :
          (i < j /\ backlog[p][i] = backlog[p][j]) => backlog[p][i] = Waker

InLine == \A p \in Processes : Queued(p)

\* The connection in hand is out of the backlog and waits, unless it is
\* the waker, which goes no further than the look at the flag.
Absent(d, p) == \A i \in 1 .. Len(backlog[p]) : backlog[p][i] # d

Handled(p) ==
    accepting[p] \in Hands =>
       \/ accepting[p] = "taken" /\ held[p] = Waker /\ stopping[p]
       \/ Waits(held[p], p) /\ Absent(held[p], p)

InHand == \A p \in Processes : Handled(p)

\* A connection that was opened is to a process.
Known == \A c \in Peers : connection[c] # "none" => server[c] \in Processes

\* The counter is the connections served and the one being turned away.
Turning(p) == IF accepting[p] = "over" THEN 1 ELSE 0

Counts(p) ==
    /\ IsFiniteSet(Served(p)) /\ Cardinality(Served(p)) <= MaxClients
    /\ count[p] = Cardinality(Served(p)) + Turning(p)

Counted == \A p \in Processes : Counts(p)

SessionInv == SessionTypeOK /\ OneOwner /\ Lives /\ InLine /\ InHand /\ Known /\ Counted

\* A step of the session is one of these.
LEMMA Steps ==
    ASSUME [SessionNext]_sessionVars
    PROVE  \/ UNCHANGED sessionVars
           \/ \E p \in Processes :
                 \/ Own(p) \/ Clear(p) \/ Start(p) \/ Flag(p) \/ (Dies(p) /\ Alive(p))
                 \/ Accept(p) \/ Check(p) \/ Admit(p) \/ TurnAway(p) \/ AcceptFails(p)
                 \/ Wake(p) \/ WakeFails(p) \/ Join(p) \/ RemoveFile(p)
           \/ \E c \in Peers :
                 Read(c) \/ Connect(c) \/ Register(c) \/ Depart(c) \/ Release(c)
<1>1. ASSUME NEW p \in Processes, Exit(p) \/ Crash(p)
      PROVE  Dies(p) /\ Alive(p)
  BY <1>1 DEF Exit, Crash, Alive
<1>2. CASE \E p \in Processes :
              \/ Own(p) \/ Clear(p) \/ Start(p) \/ Flag(p) \/ Crash(p)
              \/ Listener(p) \/ AcceptFails(p) \/ Closing(p)
  BY <1>1, <1>2 DEF Listener, Closing
<1> QED BY <1>2 DEF SessionNext, AllOver

\* One lemma for each part of the invariant.
LEMMA StepOwned ==
    ASSUME LiveSessionAssumption, SessionInv, [SessionNext]_sessionVars
    PROVE  OneOwner'
<1> USE DEF SessionInv, SessionTypeOK, OneOwner, Alive
<1>1. CASE \E p \in Processes :
              Own(p) \/ Clear(p) \/ Start(p) \/ Flag(p) \/ (Dies(p) /\ Alive(p))
              \/ Wake(p) \/ WakeFails(p) \/ Join(p) \/ RemoveFile(p)
  <2> SUFFICES ASSUME NEW p \in Processes,
                      \/ Own(p) \/ Clear(p) \/ Start(p) \/ Flag(p) \/ (Dies(p) /\ Alive(p))
                      \/ Wake(p) \/ WakeFails(p) \/ Join(p) \/ RemoveFile(p),
                      NEW q \in Processes
               PROVE  (catalog = q <=> Alive(q))'
    BY <1>1
  <2>1. CASE Own(p)
    BY <2>1 DEF Own, Goes, LiveSessionAssumption
  <2>2. CASE Clear(p) \/ Start(p) \/ Flag(p)
    BY <2>2 DEF Clear, Start, Flag, Goes
  <2>3. CASE Wake(p) \/ WakeFails(p) \/ Join(p) \/ RemoveFile(p)
    BY <2>3 DEF Wake, WakeFails, Join, RemoveFile, Goes
  <2>4. CASE Dies(p) /\ Alive(p)
    BY <2>4 DEF Dies, LiveSessionAssumption
  <2> QED BY <2>1, <2>2, <2>3, <2>4
<1>2. CASE UNCHANGED <<stage, catalog>>
  BY <1>2
<1> QED
  BY <1>1, <1>2, Steps DEF sessionVars, processes, Accept, Check, Admit, TurnAway,
     AcceptFails, Read, Connect, Register, Depart, Release, Advances

LEMMA StepLives ==
    ASSUME LiveSessionAssumption, SessionInv, [SessionNext]_sessionVars
    PROVE  Lives'
<1> USE DEF SessionInv, SessionTypeOK, OneOwner, Alive, Lives, Listens, Serving
<1>1. CASE \E p \in Processes :
              Own(p) \/ Clear(p) \/ Start(p) \/ Flag(p) \/ (Dies(p) /\ Alive(p))
              \/ Wake(p) \/ WakeFails(p) \/ Join(p) \/ RemoveFile(p)
  <2> SUFFICES ASSUME NEW p \in Processes,
                      \/ Own(p) \/ Clear(p) \/ Start(p) \/ Flag(p) \/ (Dies(p) /\ Alive(p))
                      \/ Wake(p) \/ WakeFails(p) \/ Join(p) \/ RemoveFile(p)
               PROVE  Lives'
    BY <1>1
  <2>1. CASE Own(p)
    BY <2>1 DEF Own, Goes
  <2>2. CASE Clear(p)
    BY <2>2 DEF Clear, Goes
  <2>3. CASE Start(p)
    BY <2>3 DEF Start, Goes
  <2>4. CASE Flag(p)
    BY <2>4 DEF Flag, Goes
  <2>5. CASE Wake(p) \/ WakeFails(p) \/ Join(p)
    BY <2>5 DEF Wake, WakeFails, Join, Goes
  <2>6. CASE RemoveFile(p)
    BY <2>6 DEF RemoveFile, Goes
  <2>7. CASE Dies(p) /\ Alive(p)
    BY <2>7 DEF Dies
  <2> QED BY <2>1, <2>2, <2>3, <2>4, <2>5, <2>6, <2>7
<1>2. CASE \E p \in Processes :
              Accept(p) \/ Check(p) \/ Admit(p) \/ TurnAway(p) \/ AcceptFails(p)
  BY <1>2 DEF Accept, Check, Admit, TurnAway, AcceptFails, Leaves, processes
<1>3. CASE UNCHANGED <<stage, file, accepting, stopping>>
  BY <1>3
<1> QED
  BY <1>1, <1>2, <1>3, Steps DEF sessionVars, processes,
     Read, Connect, Register, Depart, Release, Advances

LEMMA StepKnown ==
    ASSUME LiveSessionAssumption, SessionInv, [SessionNext]_sessionVars
    PROVE  Known'
<1> USE DEF SessionInv, SessionTypeOK, Known
<1>1. CASE \E c \in Peers : Read(c)
  BY <1>1 DEF Read, LiveSessionAssumption
<1>2. CASE \E c \in Peers : Connect(c) \/ Register(c) \/ Depart(c) \/ Release(c)
  BY <1>2 DEF Connect, Register, Depart, Release, Advances
<1>3. CASE \E p \in Processes : Dies(p) \/ Check(p) \/ AcceptFails(p)
  BY <1>3 DEF Dies, Check, AcceptFails, Leaves, Reset, clients
<1>4. CASE \E p \in Processes : Admit(p) \/ TurnAway(p)
  <2>1. PICK p \in Processes : Admit(p) \/ TurnAway(p)
    BY <1>4
  <2>2. accepting[p] \in Hands /\ accepting[p] # "taken"
    BY <2>1 DEF Admit, TurnAway, Hands
  <2>3. Waits(held[p], p)
    BY <2>1, <2>2 DEF InHand, Handled, Admit, TurnAway
  <2> QED BY <2>1, <2>3 DEF Admit, TurnAway, Moved, Waits
<1>5. CASE UNCHANGED <<connection, server>>
  BY <1>5
<1> QED
  BY <1>1, <1>2, <1>3, <1>4, <1>5, Steps DEF sessionVars, clients, Own, Clear, Start, Flag,
     Accept, Wake, WakeFails, Join, RemoveFile

\* A step that leaves a backlog alone.
LEMMA QueueKept ==
    ASSUME NEW p \in Processes, Queued(p), backlog'[p] = backlog[p],
           Listens(p) => Listens(p)', stopping[p] => stopping'[p],
           \A i \in 1 .. Len(backlog[p]) :
              Waits(backlog[p][i], p) => Waits(backlog[p][i], p)'
    PROVE  Queued(p)'
BY DEF Queued

LEMMA StepInLine ==
    ASSUME LiveSessionAssumption, SessionInv, [SessionNext]_sessionVars
    PROVE  InLine'
<1> USE DEF SessionInv, SessionTypeOK
<1>q. \A p \in Processes : Queued(p)
  BY DEF InLine
<1>1. ASSUME NEW p \in Processes, Accept(p)
      PROVE  InLine'
  <2>1. /\ backlog[p] \in Seq(Peers \union {Waker}) /\ backlog[p] # <<>>
        /\ Tail(backlog[p]) = backlog'[p]
        /\ accepting[p] = "waiting" /\ accepting'[p] = "taken"
    BY <1>1 DEF Accept
  <2>2. /\ Len(backlog'[p]) = Len(backlog[p]) - 1 /\ Len(backlog[p]) \in Nat
        /\ \A i \in 1 .. Len(backlog'[p]) : backlog'[p][i] = backlog[p][i + 1]
    <3> DEFINE line == backlog[p]
    <3>1. line \in Seq(Peers \union {Waker}) /\ line # <<>> /\ Tail(line) = backlog'[p]
      BY <2>1
    <3> HIDE DEF line
    <3>2. /\ Len(Tail(line)) = Len(line) - 1 /\ Len(line) \in Nat
          /\ \A i \in 1 .. Len(Tail(line)) : Tail(line)[i] = line[i + 1]
      BY <3>1
    <3> QED BY <3>1, <3>2 DEF line
  <2>3. /\ \A i \in 1 .. Len(backlog'[p]) : i + 1 \in 1 .. Len(backlog[p])
        /\ \A i, j \in 1 .. Len(backlog'[p]) : i < j => i + 1 < j + 1
    BY <2>2
  <2>4. stopping' = stopping /\ connection' = connection /\ server' = server
    BY <1>1 DEF Accept, clients
  <2>5. ASSUME NEW i \in 1 .. Len(backlog'[p])
        PROVE  /\ (backlog[p][i] = Waker => stopping[p])'
               /\ (backlog[p][i] # Waker => Waits(backlog[p][i], p))'
    BY <1>q, <2>2, <2>3, <2>4 DEF Queued, Waits
  <2>6. ASSUME NEW i \in 1 .. Len(backlog'[p]), NEW j \in 1 .. Len(backlog'[p]),
               i < j, backlog'[p][i] = backlog'[p][j]
        PROVE  backlog'[p][i] = Waker
    <3>1. i + 1 \in 1 .. Len(backlog[p]) /\ j + 1 \in 1 .. Len(backlog[p]) /\ i + 1 < j + 1
      BY <2>3, <2>6
    <3>2. backlog[p][i + 1] = backlog[p][j + 1] /\ backlog'[p][i] = backlog[p][i + 1]
      BY <2>2, <2>6
    <3> QED BY <1>q, <3>1, <3>2 DEF Queued
  <2>7. Queued(p)'
    BY <2>1, <2>5, <2>6 DEF Queued, Listens
  <2>8. ASSUME NEW q \in Processes \ {p} PROVE Queued(q)'
    <3>1. backlog'[q] = backlog[q] /\ accepting'[q] = accepting[q]
      BY <1>1 DEF Accept
    <3> QED BY <1>q, <2>4, <3>1, QueueKept DEF Listens, Waits
  <2> QED BY <2>7, <2>8 DEF InLine
<1>2. ASSUME NEW p \in Processes,
             (Check(p) /\ stopping[p]) \/ AcceptFails(p) \/ (Dies(p) /\ Alive(p))
      PROVE  InLine'
  <2>1. backlog'[p] = <<>>
    BY <1>2 DEF Check, AcceptFails, Dies, Leaves
  <2>2. Queued(p)'
    BY <2>1 DEF Queued
  <2>3. ASSUME NEW q \in Processes \ {p} PROVE Queued(q)'
    <3>1. /\ backlog'[q] = backlog[q] /\ accepting'[q] = accepting[q]
          /\ stopping' = stopping
      BY <1>2 DEF Check, AcceptFails, Dies, Leaves
    <3>2. ASSUME NEW c \in Peers, Waits(c, q)
          PROVE  Waits(c, q)'
      BY <1>2, <3>2 DEF Check, AcceptFails, Dies, Leaves, Reset, Waits, clients
    <3>3. \A c : Waits(c, q) => Waits(c, q)'
      BY <3>2 DEF Waits
    <3> QED BY <1>q, <3>1, <3>3, QueueKept DEF Listens
  <2> QED BY <2>2, <2>3 DEF InLine
<1>3. ASSUME NEW p \in Processes,
             (Check(p) /\ ~stopping[p]) \/ Admit(p) \/ TurnAway(p)
      PROVE  InLine'
  <2>1. accepting[p] \in Hands /\ Listens(p)'
    BY <1>3 DEF Check, Admit, TurnAway, Listens, Hands
  <2>2. backlog' = backlog /\ stopping' = stopping /\ server' = server
    BY <1>3 DEF Check, Admit, TurnAway
  <2>3. \A q \in Processes \ {p} : accepting'[q] = accepting[q]
    BY <1>3 DEF Check, Admit, TurnAway
  <2>4. \A c \in Peers : c # held[p] => connection'[c] = connection[c]
    BY <1>3 DEF Check, Admit, TurnAway, Moved
  <2>5. \/ connection' = connection
        \/ /\ Waits(held[p], p)
           /\ \A i \in 1 .. Len(backlog[p]) : backlog[p][i] # held[p]
    BY <1>3, <2>1 DEF Check, Admit, TurnAway, InHand, Handled, Absent
  <2>6. ASSUME NEW q \in Processes, NEW i \in 1 .. Len(backlog[q]), Waits(backlog[q][i], q)
        PROVE  Waits(backlog[q][i], q)'
    <3>1. backlog[q][i] # held[p] \/ connection' = connection
      BY <2>5, <2>6 DEF Waits
    <3> QED BY <2>2, <2>4, <2>6, <3>1 DEF Waits
  <2>7. ASSUME NEW q \in Processes PROVE Queued(q)'
    BY <1>q, <2>1, <2>2, <2>3, <2>6, QueueKept DEF Listens
  <2> QED BY <2>7 DEF InLine
<1>4. ASSUME NEW p \in Processes, Wake(p)
      PROVE  InLine'
  <2>1. /\ backlog[p] \in Seq(Peers \union {Waker})
        /\ backlog'[p] = Append(backlog[p], Waker)
    BY <1>4 DEF Wake
  <2>2. /\ Len(backlog'[p]) = Len(backlog[p]) + 1 /\ Len(backlog[p]) \in Nat
        /\ \A i \in 1 .. Len(backlog[p]) : backlog'[p][i] = backlog[p][i]
        /\ backlog'[p][Len(backlog[p]) + 1] = Waker
    BY <2>1
  <2>3. stopping[p] /\ Listens(p)
    BY <1>4 DEF Wake, Goes, Lives
  <2>4. /\ accepting' = accepting /\ stopping' = stopping
        /\ connection' = connection /\ server' = server
    BY <1>4 DEF Wake, clients
  <2>5. \A i \in 1 .. Len(backlog'[p]) :
           i = Len(backlog[p]) + 1 \/ i \in 1 .. Len(backlog[p])
    BY <2>2
  <2>6. ASSUME NEW i \in 1 .. Len(backlog'[p])
        PROVE  /\ (backlog[p][i] = Waker => stopping[p])'
               /\ (backlog[p][i] # Waker => Waits(backlog[p][i], p))'
    <3>1. CASE i = Len(backlog[p]) + 1
      BY <2>2, <2>3, <2>4, <3>1
    <3>2. CASE i \in 1 .. Len(backlog[p])
      <4>1. backlog'[p][i] = backlog[p][i]
        BY <2>2, <3>2
      <4>2. Queued(p)
        BY <1>q
      <4> QED BY <2>4, <3>2, <4>1, <4>2 DEF Queued, Waits
    <3> QED BY <2>5, <3>1, <3>2
  <2>7. ASSUME NEW i \in 1 .. Len(backlog'[p]), NEW j \in 1 .. Len(backlog'[p]),
               i < j, backlog'[p][i] = backlog'[p][j]
        PROVE  backlog'[p][i] = Waker
    <3>1. CASE j = Len(backlog[p]) + 1
      BY <2>2, <2>7, <3>1
    <3>2. CASE j \in 1 .. Len(backlog[p])
      <4>1. i \in 1 .. Len(backlog[p])
        BY <2>2, <2>7, <3>2
      <4> QED BY <1>q, <2>2, <2>7, <3>2, <4>1 DEF Queued
    <3> QED BY <2>5, <3>1, <3>2
  <2>8. Queued(p)'
    BY <2>3, <2>4, <2>6, <2>7 DEF Queued, Listens
  <2>9. ASSUME NEW q \in Processes \ {p} PROVE Queued(q)'
    <3>1. backlog'[q] = backlog[q]
      BY <1>4 DEF Wake
    <3> QED BY <1>q, <2>4, <3>1, QueueKept DEF Listens, Waits
  <2> QED BY <2>8, <2>9 DEF InLine
<1>5. ASSUME NEW c \in Peers, Connect(c)
      PROVE  InLine'
  <2>0. PICK p \in Processes : p = server[c]
    BY <1>5 DEF Connect, Known
  <2>1. p = server[c] /\ connection[c] = "read"
    BY <1>5, <2>0 DEF Connect
  <2>2. accepting' = accepting /\ stopping' = stopping /\ server' = server
    BY <1>5 DEF Connect
  <2>3. \A d \in Peers : d # c => connection'[d] = connection[d]
    BY <1>5 DEF Connect
  <2>4. \A q \in Processes : \A d : Waits(d, q) => d # c /\ Waits(d, q)'
    BY <2>1, <2>2, <2>3 DEF Waits
  <2>5. CASE ~Listens(p)
    <3>1. backlog' = backlog
      BY <1>5, <2>1, <2>5 DEF Connect
    <3>2. ASSUME NEW q \in Processes PROVE Queued(q)'
      BY <1>q, <2>2, <2>4, <3>1, QueueKept DEF Listens
    <3> QED BY <3>2 DEF InLine
  <2>6. CASE Listens(p)
    <3>1. /\ backlog[p] \in Seq(Peers \union {Waker})
          /\ backlog'[p] = Append(backlog[p], c)
          /\ connection'[c] = "waiting"
      BY <1>5, <2>1, <2>6 DEF Connect
    <3>2. /\ Len(backlog'[p]) = Len(backlog[p]) + 1 /\ Len(backlog[p]) \in Nat
          /\ \A i \in 1 .. Len(backlog[p]) : backlog'[p][i] = backlog[p][i]
          /\ backlog'[p][Len(backlog[p]) + 1] = c
      BY <3>1
    <3>3. \A i \in 1 .. Len(backlog'[p]) :
             i = Len(backlog[p]) + 1 \/ i \in 1 .. Len(backlog[p])
      BY <3>2
    <3>4. Waits(c, p)' /\ c # Waker
      BY <2>1, <2>2, <3>1 DEF Waits, LiveSessionAssumption
    <3>5. ASSUME NEW i \in 1 .. Len(backlog[p]), NEW d, d = backlog[p][i]
          PROVE  /\ d = Waker => stopping'[p]
                 /\ d # Waker => Waits(d, p)'
                 /\ d # c
      <4>1. Queued(p)
        BY <1>q
      <4>2. /\ d = Waker => stopping[p]
            /\ d # Waker => Waits(d, p)
        BY <3>5, <4>1 DEF Queued
      <4> QED BY <2>2, <2>4, <3>4, <4>2
    <3>6. ASSUME NEW i \in 1 .. Len(backlog'[p])
          PROVE  /\ (backlog[p][i] = Waker => stopping[p])'
                 /\ (backlog[p][i] # Waker => Waits(backlog[p][i], p))'
      <4>1. CASE i = Len(backlog[p]) + 1
        BY <3>2, <3>4, <4>1
      <4>2. CASE i \in 1 .. Len(backlog[p])
        <5>1. backlog'[p][i] = backlog[p][i]
          BY <3>2, <4>2
        <5> QED BY <3>5, <4>2, <5>1
      <4> QED BY <3>3, <4>1, <4>2
    <3>7. ASSUME NEW i \in 1 .. Len(backlog'[p]), NEW j \in 1 .. Len(backlog'[p]),
                 i < j, backlog'[p][i] = backlog'[p][j]
          PROVE  backlog'[p][i] = Waker
      <4>1. i \in 1 .. Len(backlog[p])
        BY <3>2, <3>7
      <4>2. CASE j = Len(backlog[p]) + 1
        BY <3>2, <3>5, <3>7, <4>1, <4>2
      <4>3. CASE j \in 1 .. Len(backlog[p])
        <5>1. backlog[p][i] = backlog[p][j] /\ backlog'[p][i] = backlog[p][i]
          BY <3>2, <3>7, <4>1, <4>3
        <5>2. Queued(p)
          BY <1>q
        <5> QED BY <3>7, <4>1, <4>3, <5>1, <5>2 DEF Queued
      <4> QED BY <3>3, <4>2, <4>3
    <3>8. Queued(p)'
      BY <2>2, <2>6, <3>6, <3>7 DEF Queued, Listens
    <3>9. ASSUME NEW q \in Processes \ {p} PROVE Queued(q)'
      <4>1. backlog'[q] = backlog[q]
        BY <1>5, <2>1, <2>6 DEF Connect
      <4> QED BY <1>q, <2>2, <2>4, <4>1, QueueKept DEF Listens
    <3> QED BY <3>8, <3>9 DEF InLine
  <2> QED BY <2>5, <2>6
<1>6. ASSUME NEW c \in Peers, Read(c) \/ Register(c) \/ Depart(c) \/ Release(c)
      PROVE  InLine'
  <2>1. accepting' = accepting /\ stopping' = stopping /\ backlog' = backlog
    BY <1>6 DEF Read, Register, Depart, Release, Advances
  <2>2. \A d : \A q \in Processes : Waits(d, q) => Waits(d, q)'
    BY <1>6 DEF Read, Register, Depart, Release, Advances, Waits
  <2>3. ASSUME NEW q \in Processes PROVE Queued(q)'
    BY <1>q, <2>1, <2>2, QueueKept DEF Listens
  <2> QED BY <2>3 DEF InLine
<1>7. ASSUME NEW p \in Processes,
             \/ Own(p) \/ Clear(p) \/ Start(p) \/ Flag(p)
             \/ WakeFails(p) \/ Join(p) \/ RemoveFile(p)
      PROVE  InLine'
  <2>1. backlog' = backlog /\ connection' = connection /\ server' = server
    BY <1>7 DEF Own, Clear, Start, Flag, WakeFails, Join, RemoveFile, clients
  <2>2. \A q \in Processes : (stopping[q] => stopping'[q]) /\ (Listens(q) => Listens(q)')
    BY <1>7 DEF Own, Clear, Start, Flag, WakeFails, Join, RemoveFile, Listens
  <2>3. ASSUME NEW q \in Processes PROVE Queued(q)'
    BY <1>q, <2>1, <2>2, QueueKept DEF Waits
  <2> QED BY <2>3 DEF InLine
<1>8. CASE UNCHANGED sessionVars
  <2>1. ASSUME NEW q \in Processes PROVE Queued(q)'
    BY <1>8, <1>q, QueueKept DEF sessionVars, Listens, Waits
  <2> QED BY <2>1 DEF InLine
<1>9. ASSUME NEW p \in Processes, Check(p)
      PROVE  InLine'
  BY <1>2, <1>3, <1>9
<1> QED
  BY <1>1, <1>2, <1>3, <1>4, <1>5, <1>6, <1>7, <1>8, <1>9, Steps

\* A step that leaves the connection in hand alone.
LEMMA HandKept ==
    ASSUME NEW p \in Processes, Handled(p),
           accepting'[p] = accepting[p] \/ accepting'[p] \notin Hands,
           held'[p] = held[p], stopping[p] => stopping'[p],
           Waits(held[p], p) => Waits(held[p], p)',
           Waits(held[p], p) /\ Absent(held[p], p) => Absent(held[p], p)'
    PROVE  Handled(p)'
BY DEF Handled

LEMMA StepInHand ==
    ASSUME LiveSessionAssumption, SessionInv, [SessionNext]_sessionVars
    PROVE  InHand'
<1> USE DEF SessionInv, SessionTypeOK
<1>q. \A p \in Processes : Handled(p)
  BY DEF InHand
<1>1. ASSUME NEW p \in Processes, Accept(p)
      PROVE  InHand'
  <2>1. /\ backlog[p] \in Seq(Peers \union {Waker}) /\ backlog[p] # <<>>
        /\ Tail(backlog[p]) = backlog'[p] /\ held'[p] = Head(backlog[p])
        /\ accepting'[p] = "taken"
    BY <1>1 DEF Accept
  <2>2. stopping' = stopping /\ connection' = connection /\ server' = server
    BY <1>1 DEF Accept, clients
  <2>3. /\ held'[p] = backlog[p][1] /\ Len(backlog[p]) \in Nat /\ 1 \in 1 .. Len(backlog[p])
        /\ \A i \in 1 .. Len(backlog'[p]) :
              /\ i + 1 \in 1 .. Len(backlog[p]) /\ 1 < i + 1
              /\ backlog'[p][i] = backlog[p][i + 1]
    <3> DEFINE line == backlog[p]
    <3>1. line \in Seq(Peers \union {Waker}) /\ line # <<>>
      BY <2>1
    <3>2. Tail(line) = backlog'[p] /\ held'[p] = Head(line)
      BY <2>1
    <3> HIDE DEF line
    <3>3. /\ Head(line) = line[1] /\ Len(line) \in Nat /\ 1 \in 1 .. Len(line)
          /\ \A i \in 1 .. Len(Tail(line)) :
                /\ i + 1 \in 1 .. Len(line) /\ 1 < i + 1 /\ Tail(line)[i] = line[i + 1]
      BY <3>1
    <3> QED BY <3>2, <3>3 DEF line
  <2>4. Queued(p)
    BY DEF InLine
  <2>5. ASSUME held'[p] = Waker PROVE Handled(p)'
    BY <2>1, <2>2, <2>3, <2>4, <2>5 DEF Queued, Handled
  <2>6. ASSUME held'[p] # Waker PROVE Handled(p)'
    <3>1. Waits(held[p], p)'
      BY <2>2, <2>3, <2>4, <2>6 DEF Queued, Waits
    <3>2. Absent(held[p], p)'
      BY <2>3, <2>4, <2>6 DEF Queued, Absent
    <3> QED BY <3>1, <3>2 DEF Handled
  <2>7. ASSUME NEW q \in Processes \ {p} PROVE Handled(q)'
    <3>1. backlog'[q] = backlog[q] /\ accepting'[q] = accepting[q] /\ held'[q] = held[q]
      BY <1>1 DEF Accept
    <3> QED BY <1>q, <2>2, <3>1, HandKept DEF Waits, Absent
  <2> QED BY <2>5, <2>6, <2>7 DEF InHand
<1>2. ASSUME NEW p \in Processes,
             (Check(p) /\ stopping[p]) \/ AcceptFails(p) \/ (Dies(p) /\ Alive(p))
      PROVE  InHand'
  <2>1. accepting'[p] \notin Hands
    BY <1>2 DEF Check, AcceptFails, Dies, Leaves, Listens, Hands
  <2>2. ASSUME NEW q \in Processes \ {p} PROVE Handled(q)'
    <3>1. /\ backlog'[q] = backlog[q] /\ accepting'[q] = accepting[q]
          /\ stopping' = stopping /\ held' = held
      BY <1>2 DEF Check, AcceptFails, Dies, Leaves
    <3>2. Waits(held[q], q) => Waits(held[q], q)'
      BY <1>2, <3>1 DEF Check, AcceptFails, Dies, Leaves, Reset, Waits, clients
    <3> QED BY <1>q, <3>1, <3>2, HandKept DEF Absent
  <2> QED BY <2>1, <2>2 DEF InHand, Handled
<1>3. ASSUME NEW p \in Processes, Check(p), ~stopping[p]
      PROVE  InHand'
  <2>1. /\ backlog' = backlog /\ stopping' = stopping /\ server' = server
        /\ held' = held /\ connection' = connection /\ accepting[p] = "taken"
        /\ accepting' = [accepting EXCEPT ![p] = "checked"]
    BY <1>3 DEF Check
  <2>2. Handled(p)'
    BY <1>q, <1>3, <2>1 DEF Handled, Waits, Absent, Hands
  <2>3. ASSUME NEW q \in Processes \ {p} PROVE Handled(q)'
    BY <1>q, <2>1, HandKept DEF Waits, Absent
  <2> QED BY <2>2, <2>3 DEF InHand
<1>4. ASSUME NEW p \in Processes, Admit(p) \/ TurnAway(p)
      PROVE  InHand'
  <2>1. /\ backlog' = backlog /\ stopping' = stopping /\ server' = server /\ held' = held
        /\ accepting[p] \in {"checked", "over"}
    BY <1>4 DEF Admit, TurnAway
  <2>2. \A q \in Processes \ {p} : accepting'[q] = accepting[q]
    BY <1>4 DEF Admit, TurnAway
  <2>3. \A c \in Peers : c # held[p] => connection'[c] = connection[c]
    BY <1>4 DEF Admit, TurnAway, Moved
  <2>4. \/ accepting'[p] \notin Hands
        \/ accepting'[p] = "over" /\ connection' = connection
    BY <1>4 DEF Admit, TurnAway, Hands
  <2>5. Waits(held[p], p) /\ Absent(held[p], p)
    BY <1>q, <2>1 DEF Handled, Hands
  <2>6. Handled(p)'
    BY <2>1, <2>4, <2>5 DEF Handled, Waits, Absent
  <2>7. ASSUME NEW q \in Processes \ {p} PROVE Handled(q)'
    <3>1. Waits(held[q], q) => Waits(held[q], q)'
      BY <2>1, <2>3, <2>5 DEF Waits
    <3> QED BY <1>q, <2>1, <2>2, <3>1, HandKept DEF Absent
  <2> QED BY <2>6, <2>7 DEF InHand
<1>5. ASSUME NEW p \in Processes, Wake(p)
      PROVE  InHand'
  <2>1. /\ backlog[p] \in Seq(Peers \union {Waker})
        /\ backlog'[p] = Append(backlog[p], Waker)
    BY <1>5 DEF Wake
  <2>2. \A i \in 1 .. Len(backlog'[p]) :
           backlog'[p][i] = Waker \/ (i \in 1 .. Len(backlog[p])
                                      /\ backlog'[p][i] = backlog[p][i])
    BY <2>1
  <2>3. /\ accepting' = accepting /\ stopping' = stopping
        /\ connection' = connection /\ server' = server /\ held' = held
    BY <1>5 DEF Wake, clients
  <2>4. ASSUME NEW q \in Processes, Waits(held[q], q) /\ Absent(held[q], q)
        PROVE  Absent(held[q], q)'
    <3>1. held[q] # Waker
      BY <2>4 DEF Waits, LiveSessionAssumption
    <3>2. CASE q = p
      BY <2>2, <2>3, <2>4, <3>1, <3>2 DEF Absent
    <3>3. CASE q # p
      <4>1. backlog'[q] = backlog[q]
        BY <1>5, <3>3 DEF Wake
      <4> QED BY <2>3, <2>4, <4>1 DEF Absent
    <3> QED BY <3>2, <3>3
  <2>5. ASSUME NEW q \in Processes PROVE Handled(q)'
    BY <1>q, <2>3, <2>4, HandKept DEF Waits
  <2> QED BY <2>5 DEF InHand
<1>6. ASSUME NEW c \in Peers, Connect(c)
      PROVE  InHand'
  <2>0. PICK p \in Processes : p = server[c]
    BY <1>6 DEF Connect, Known
  <2>1. p = server[c] /\ connection[c] = "read"
    BY <1>6, <2>0 DEF Connect
  <2>2. /\ accepting' = accepting /\ stopping' = stopping
        /\ server' = server /\ held' = held
    BY <1>6 DEF Connect
  <2>3. \A d \in Peers : d # c => connection'[d] = connection[d]
    BY <1>6 DEF Connect
  <2>4. \A q \in Processes : \A d : Waits(d, q) => d # c /\ Waits(d, q)'
    BY <2>1, <2>2, <2>3 DEF Waits
  <2>5. \/ backlog' = backlog
        \/ backlog' = [backlog EXCEPT ![p] = Append(@, c)]
    BY <1>6, <2>1 DEF Connect
  <2>6. \A i \in 1 .. Len(backlog'[p]) :
           backlog'[p][i] = c \/ (i \in 1 .. Len(backlog[p])
                                  /\ backlog'[p][i] = backlog[p][i])
    <3>1. /\ backlog[p] \in Seq(Peers \union {Waker})
          /\ backlog'[p] = backlog[p] \/ backlog'[p] = Append(backlog[p], c)
      BY <2>5
    <3>2. CASE backlog'[p] = backlog[p]
      BY <3>2
    <3>3. CASE backlog'[p] = Append(backlog[p], c)
      <4> DEFINE line == backlog[p]
      <4>1. line \in Seq(Peers \union {Waker})
        BY <3>1
      <4> HIDE DEF line
      <4>2. \A i \in 1 .. Len(Append(line, c)) :
               Append(line, c)[i] = c \/ (i \in 1 .. Len(line) /\ Append(line, c)[i] = line[i])
        BY <4>1
      <4> QED BY <3>3, <4>2 DEF line
    <3> QED BY <3>1, <3>2, <3>3
  <2>7. ASSUME NEW q \in Processes, Waits(held[q], q) /\ Absent(held[q], q)
        PROVE  Absent(held[q], q)'
    <3>1. held[q] # c
      BY <2>4, <2>7
    <3>2. CASE q = p
      BY <2>2, <2>6, <2>7, <3>1, <3>2 DEF Absent
    <3>3. CASE q # p
      <4>1. backlog'[q] = backlog[q]
        BY <2>5, <3>3
      <4> QED BY <2>2, <2>7, <4>1 DEF Absent
    <3> QED BY <3>2, <3>3
  <2>8. ASSUME NEW q \in Processes PROVE Handled(q)'
    <3>1. Waits(held[q], q) => Waits(held[q], q)'
      BY <2>2, <2>4 DEF Waits
    <3> QED BY <1>q, <2>2, <2>7, <3>1, HandKept
  <2> QED BY <2>8 DEF InHand
<1>7. ASSUME NEW c \in Peers, Read(c) \/ Register(c) \/ Depart(c) \/ Release(c)
      PROVE  InHand'
  <2>1. /\ accepting' = accepting /\ stopping' = stopping /\ backlog' = backlog
        /\ held' = held
    BY <1>7 DEF Read, Register, Depart, Release, Advances
  <2>2. ASSUME NEW q \in Processes PROVE Waits(held[q], q) => Waits(held[q], q)'
    BY <1>7, <2>1 DEF Read, Register, Depart, Release, Advances, Waits
  <2>3. ASSUME NEW q \in Processes PROVE Handled(q)'
    BY <1>q, <2>1, <2>2, HandKept DEF Absent
  <2> QED BY <2>3 DEF InHand
<1>8. ASSUME NEW p \in Processes,
             \/ Own(p) \/ Clear(p) \/ Start(p) \/ Flag(p)
             \/ WakeFails(p) \/ Join(p) \/ RemoveFile(p)
      PROVE  InHand'
  <2>1. /\ backlog' = backlog /\ connection' = connection /\ server' = server
        /\ held' = held
    BY <1>8 DEF Own, Clear, Start, Flag, WakeFails, Join, RemoveFile, clients
  <2>2. \A q \in Processes :
           /\ stopping[q] => stopping'[q]
           /\ accepting'[q] = accepting[q] \/ accepting'[q] \notin Hands
    BY <1>8 DEF Own, Clear, Start, Flag, WakeFails, Join, RemoveFile, Hands
  <2>3. ASSUME NEW q \in Processes PROVE Handled(q)'
    BY <1>q, <2>1, <2>2, HandKept DEF Waits, Absent
  <2> QED BY <2>3 DEF InHand
<1>9. CASE UNCHANGED sessionVars
  <2>1. ASSUME NEW q \in Processes PROVE Handled(q)'
    BY <1>9, <1>q, HandKept DEF sessionVars, Waits, Absent
  <2> QED BY <2>1 DEF InHand
<1>10. ASSUME NEW p \in Processes, Check(p)
       PROVE  InHand'
  BY <1>2, <1>3, <1>10
<1> QED
  BY <1>1, <1>2, <1>4, <1>5, <1>6, <1>7, <1>8, <1>9, <1>10, Steps

\* A step that serves no other connections.
LEMMA CountKept ==
    ASSUME NEW p \in Processes, Counts(p),
           Served(p)' = Served(p), count'[p] = count[p],
           accepting'[p] = accepting[p] \/ (accepting[p] # "over" /\ accepting'[p] # "over")
    PROVE  Counts(p)'
BY DEF Counts, Turning

LEMMA StepCounted ==
    ASSUME LiveSessionAssumption, SessionInv, [SessionNext]_sessionVars
    PROVE  Counted'
<1> USE DEF SessionInv, SessionTypeOK
<1>q. \A p \in Processes : Counts(p)
  BY DEF Counted
<1>1. ASSUME NEW p \in Processes, Dies(p), Alive(p)
      PROVE  Counted'
  <2>1. Served(p)' = {}
    BY <1>1 DEF Dies, Reset, Served
  <2>2. count'[p] = 0 /\ accepting'[p] # "over"
    BY <1>1 DEF Dies, Listens
  <2>3. Counts(p)'
    <3>1. IsFiniteSet(Served(p)') /\ Cardinality(Served(p)') = 0
      BY <2>1, FS_EmptySet
    <3>2. MaxClients \in Nat
      BY DEF LiveSessionAssumption
    <3> QED BY <2>2, <3>1, <3>2 DEF Counts, Turning
  <2>4. ASSUME NEW q \in Processes \ {p} PROVE Counts(q)'
    <3>1. Served(q)' = Served(q)
      BY <1>1 DEF Dies, Reset, Served
    <3>2. count'[q] = count[q] /\ accepting'[q] = accepting[q]
      BY <1>1 DEF Dies
    <3> QED BY <1>q, <3>1, <3>2, CountKept
  <2> QED BY <2>3, <2>4 DEF Counted
<1>2. ASSUME NEW p \in Processes, Accept(p) \/ Check(p) \/ AcceptFails(p)
      PROVE  Counted'
  <2>1. ASSUME NEW q \in Processes PROVE Served(q)' = Served(q)
    BY <1>2 DEF Accept, Check, AcceptFails, Leaves, Reset, Served, clients
  <2>2. /\ count' = count
        /\ \A q \in Processes :
              \/ accepting'[q] = accepting[q]
              \/ accepting[q] # "over" /\ accepting'[q] # "over"
    BY <1>2 DEF Accept, Check, AcceptFails, Leaves
  <2>3. ASSUME NEW q \in Processes PROVE Counts(q)'
    BY <1>q, <2>1, <2>2, CountKept
  <2> QED BY <2>3 DEF Counted
<1>3. ASSUME NEW p \in Processes, Admit(p) \/ TurnAway(p)
      PROVE  Counted'
  <2>1. server' = server /\ accepting[p] \in {"checked", "over"}
    BY <1>3 DEF Admit, TurnAway
  <2>2. Waits(held[p], p) /\ held[p] # Waker
    BY <2>1 DEF InHand, Handled, Hands, Waits, LiveSessionAssumption
  <2>3. ASSUME NEW q \in Processes \ {p} PROVE Counts(q)'
    <3>1. Served(q)' = Served(q)
      BY <1>3, <2>2 DEF Admit, TurnAway, Moved, Served, Waits
    <3>2. count'[q] = count[q] /\ accepting'[q] = accepting[q]
      BY <1>3 DEF Admit, TurnAway
    <3> QED BY <1>q, <3>1, <3>2, CountKept
  <2>4. ASSUME Admit(p), Full(p) PROVE Counts(p)'
    <3>1. Served(p)' = Served(p)
      BY <2>1, <2>4 DEF Admit, Served
    <3>2. /\ accepting[p] = "checked" /\ accepting'[p] = "over"
          /\ count'[p] = count[p] + 1
      BY <2>4 DEF Admit
    <3>3. Counts(p) /\ Cardinality(Served(p)) \in Nat
      BY <1>q, FS_CardinalityType DEF Counts
    <3>4. Turning(p) = 0 /\ Turning(p)' = 1
      BY <3>2 DEF Turning
    <3>5. count'[p] = Cardinality(Served(p)) + 1
      BY ONLY <3>2, <3>3, <3>4 DEF Counts
    <3> QED BY ONLY <3>1, <3>3, <3>4, <3>5 DEF Counts
  <2>5. ASSUME Admit(p), ~Full(p) PROVE Counts(p)'
    <3>1. Served(p)' = Served(p) \union {held[p]} /\ held[p] \notin Served(p)
      BY <2>1, <2>2, <2>5 DEF Admit, Served, Moved, Waits
    <3>2. /\ accepting[p] = "checked" /\ accepting'[p] = "waiting"
          /\ count'[p] = count[p] + 1
      BY <2>5 DEF Admit
    <3>3. IsFiniteSet(Served(p)) /\ Cardinality(Served(p)) \in Nat
      BY <1>q, FS_CardinalityType DEF Counts
    <3>4. /\ IsFiniteSet(Served(p) \union {held[p]})
          /\ Cardinality(Served(p) \union {held[p]}) = Cardinality(Served(p)) + 1
      BY <3>1, <3>3, FS_AddElement
    <3>5. count[p] = Cardinality(Served(p))
      <4>1. Counts(p) /\ Turning(p) = 0
        BY <1>q, <3>2 DEF Turning
      <4> QED BY ONLY <3>3, <4>1 DEF Counts
    <3>6. Cardinality(Served(p)) < MaxClients /\ MaxClients \in Nat
      BY <2>5, <3>3, <3>5 DEF Full, LiveSessionAssumption
    <3> QED BY <3>1, <3>2, <3>3, <3>4, <3>5, <3>6 DEF Counts, Turning
  <2>6. ASSUME TurnAway(p) PROVE Counts(p)'
    <3>1. Served(p)' = Served(p)
      BY <2>1, <2>2, <2>6 DEF TurnAway, Served, Moved, Waits
    <3>2. /\ accepting[p] = "over" /\ accepting'[p] = "waiting"
          /\ count'[p] = count[p] - 1
      BY <2>6 DEF TurnAway, Lowered
    <3>3. Cardinality(Served(p)) \in Nat
      BY <1>q, FS_CardinalityType DEF Counts
    <3> QED BY <1>q, <3>1, <3>2, <3>3 DEF Counts, Turning
  <2>7. Counts(p)'
    BY <1>3, <2>4, <2>5, <2>6
  <2> QED BY <2>3, <2>7 DEF Counted
<1>4. ASSUME NEW c \in Peers, Read(c) \/ Connect(c) \/ Register(c) \/ Depart(c)
      PROVE  Counted'
  <2>1. ASSUME NEW q \in Processes PROVE Served(q)' = Served(q)
    BY <1>4 DEF Read, Connect, Register, Depart, Advances, Served
  <2>2. count' = count /\ accepting' = accepting
    BY <1>4 DEF Read, Connect, Register, Depart, Advances
  <2>3. ASSUME NEW q \in Processes PROVE Counts(q)'
    BY <1>q, <2>1, <2>2, CountKept
  <2> QED BY <2>3 DEF Counted
<1>5. ASSUME NEW c \in Peers, Release(c)
      PROVE  Counted'
  <2>0. PICK p \in Processes : p = server[c]
    BY <1>5 DEF Release, Advances, Known
  <2>1. /\ server' = server /\ accepting' = accepting
        /\ connection[c] = "left" /\ connection' = [connection EXCEPT ![c] = "gone"]
        /\ count' = [count EXCEPT ![p] = @ - 1]
    BY <1>5, <2>0 DEF Release, Advances
  <2>2. c \in Served(p) /\ Served(p)' = Served(p) \ {c}
    BY <2>0, <2>1 DEF Served
  <2>3. ASSUME NEW q \in Processes \ {p} PROVE Counts(q)'
    <3>1. Served(q)' = Served(q)
      BY <2>0, <2>1 DEF Served
    <3>2. count'[q] = count[q] /\ accepting'[q] = accepting[q]
      BY <2>1
    <3> QED BY <1>q, <3>1, <3>2, CountKept
  <2>4. Counts(p)'
    <3>1. IsFiniteSet(Served(p)) /\ Cardinality(Served(p)) \in Nat
      BY <1>q, FS_CardinalityType DEF Counts
    <3>2. /\ IsFiniteSet(Served(p) \ {c})
          /\ Cardinality(Served(p) \ {c}) = Cardinality(Served(p)) - 1
      BY <2>2, <3>1, FS_RemoveElement
    <3>3. count'[p] = count[p] - 1 /\ accepting'[p] = accepting[p]
      BY <2>1
    <3>4. MaxClients \in Nat
      BY DEF LiveSessionAssumption
    <3> QED BY <1>q, <2>2, <3>1, <3>2, <3>3, <3>4 DEF Counts, Turning
  <2> QED BY <2>3, <2>4 DEF Counted
<1>6. ASSUME NEW p \in Processes,
             \/ Own(p) \/ Clear(p) \/ Start(p) \/ Flag(p)
             \/ Wake(p) \/ WakeFails(p) \/ Join(p) \/ RemoveFile(p)
      PROVE  Counted'
  <2>1. connection' = connection /\ server' = server /\ count' = count
    BY <1>6 DEF Own, Clear, Start, Flag, Wake, WakeFails, Join, RemoveFile, clients
  <2>2. \A q \in Processes :
           \/ accepting'[q] = accepting[q]
           \/ accepting[q] # "over" /\ accepting'[q] # "over"
    <3>1. stage[p] = "cleared" => accepting[p] = "none"
      BY DEF Lives
    <3> QED BY <1>6, <3>1 DEF Own, Clear, Start, Flag, Wake, WakeFails, Join, RemoveFile, Goes
  <2>3. ASSUME NEW q \in Processes PROVE Counts(q)'
    BY <1>q, <2>1, <2>2, CountKept DEF Served
  <2> QED BY <2>3 DEF Counted
<1>7. CASE UNCHANGED sessionVars
  <2>1. ASSUME NEW q \in Processes PROVE Counts(q)'
    BY <1>7, <1>q, CountKept DEF sessionVars, Served
  <2> QED BY <2>1 DEF Counted
<1> QED
  BY <1>1, <1>2, <1>3, <1>4, <1>5, <1>6, <1>7, Steps

LEMMA StepTyped ==
    ASSUME LiveSessionAssumption, SessionInv, [SessionNext]_sessionVars, Counted'
    PROVE  SessionTypeOK'
<1> USE DEF SessionInv
<1>1. /\ stage' \in [Processes -> {"new", "owner", "cleared", "serving", "flagged", "joining",
                                   "joined", "removed", "over"}]
      /\ {catalog', file'} \subseteq Processes \union {NoProcess}
      /\ stopping' \in [Processes -> BOOLEAN]
  <2>1. CASE \E p \in Processes :
                \/ Own(p) \/ Clear(p) \/ Start(p) \/ Flag(p)
                \/ Wake(p) \/ WakeFails(p) \/ Join(p) \/ RemoveFile(p) \/ Dies(p)
    <3>1. PICK p \in Processes :
                \/ Own(p) \/ Clear(p) \/ Start(p) \/ Flag(p)
                \/ Wake(p) \/ WakeFails(p) \/ Join(p) \/ RemoveFile(p) \/ Dies(p)
      BY <2>1
    <3>2. CASE Own(p) \/ Clear(p) \/ Start(p) \/ Flag(p)
      BY <3>2 DEF SessionTypeOK, Own, Clear, Start, Flag, Goes
    <3>3. CASE Wake(p) \/ WakeFails(p) \/ Join(p) \/ RemoveFile(p)
      BY <3>3 DEF SessionTypeOK, Wake, WakeFails, Join, RemoveFile, Goes
    <3>4. CASE Dies(p)
      BY <3>4 DEF SessionTypeOK, Dies
    <3> QED BY <3>1, <3>2, <3>3, <3>4
  <2>2. CASE UNCHANGED <<stage, catalog, file, stopping>>
    BY <2>2 DEF SessionTypeOK
  <2> QED
    BY <2>1, <2>2, Steps DEF Accept, Check, Admit, TurnAway, AcceptFails, Read, Connect,
       Register, Depart, Release, Advances, processes, sessionVars
<1>2. accepting' \in [Processes -> {"none", "waiting", "taken", "checked", "over", "done"}]
  <2>1. CASE \E p \in Processes :
                \/ Start(p) \/ Dies(p) \/ Accept(p) \/ Check(p) \/ AcceptFails(p)
                \/ Admit(p) \/ TurnAway(p)
    <3>1. PICK p \in Processes :
                \/ Start(p) \/ Dies(p) \/ Accept(p) \/ Check(p) \/ AcceptFails(p)
                \/ Admit(p) \/ TurnAway(p)
      BY <2>1
    <3>2. accepting \in [Processes -> {"none", "waiting", "taken", "checked", "over", "done"}]
      BY DEF SessionTypeOK
    <3>3. CASE Start(p) \/ Dies(p)
      BY <3>2, <3>3 DEF Start, Dies
    <3>4. CASE Accept(p) \/ Check(p) \/ AcceptFails(p)
      BY <3>2, <3>4 DEF Accept, Check, AcceptFails, Leaves
    <3>5. CASE Admit(p) \/ TurnAway(p)
      BY <3>2, <3>5 DEF Admit, TurnAway
    <3> QED BY <3>1, <3>3, <3>4, <3>5
  <2>2. CASE accepting' = accepting
    BY <2>2 DEF SessionTypeOK
  <2> QED
    BY <2>1, <2>2, Steps DEF Own, Clear, Flag, Wake, WakeFails, Join, RemoveFile, Read,
       Connect, Register, Depart, Release, Advances, sessionVars
<1>3. /\ connection' \in [Peers -> {"none", "read", "waiting", "started", "registered",
                                    "left", "gone"}]
      /\ server' \in [Peers -> Processes \union {NoProcess}]
  <2>1. CASE \E p \in Processes :
                Dies(p) \/ Check(p) \/ AcceptFails(p) \/ Admit(p) \/ TurnAway(p)
    <3>1. PICK p \in Processes :
                Dies(p) \/ Check(p) \/ AcceptFails(p) \/ Admit(p) \/ TurnAway(p)
      BY <2>1
    <3>2. CASE Dies(p)
      BY <3>2 DEF SessionTypeOK, Dies, Reset
    <3>3. CASE Check(p) \/ AcceptFails(p)
      BY <3>3 DEF SessionTypeOK, Check, AcceptFails, Leaves, Reset
    <3>4. CASE Admit(p) \/ TurnAway(p)
      BY <3>4 DEF SessionTypeOK, Admit, TurnAway, Moved
    <3> QED BY <3>1, <3>2, <3>3, <3>4
  <2>2. CASE \E c \in Peers : Read(c) \/ Connect(c) \/ Register(c) \/ Depart(c) \/ Release(c)
    BY <2>2 DEF SessionTypeOK, Read, Connect, Register, Depart, Release, Advances
  <2>3. CASE UNCHANGED <<connection, server>>
    BY <2>3 DEF SessionTypeOK
  <2> QED
    BY <2>1, <2>2, <2>3, Steps DEF Own, Clear, Start, Flag, Wake, WakeFails, Join,
       RemoveFile, Accept, clients, sessionVars
<1>4. held' \in [Processes -> Peers \union {Waker}]
  <2>1. CASE \E p \in Processes : Accept(p)
    <3>1. PICK p \in Processes : Accept(p)
      BY <2>1
    <3>2. backlog[p] \in Seq(Peers \union {Waker}) /\ backlog[p] # <<>>
      BY <3>1 DEF Accept, SessionTypeOK
    <3>3. Head(backlog[p]) \in Peers \union {Waker}
      BY ONLY <3>2
    <3> QED BY <3>1, <3>3 DEF Accept, SessionTypeOK
  <2>2. CASE held' = held
    BY <2>2 DEF SessionTypeOK
  <2> QED
    BY <2>1, <2>2, Steps DEF Own, Clear, Start, Flag, Dies, Wake, WakeFails, Join,
       RemoveFile, Check, AcceptFails, Admit, TurnAway, Read, Connect, Register, Depart,
       Release, Advances, sessionVars
<1>5. backlog' \in [Processes -> Seq(Peers \union {Waker})]
  <2>1. ASSUME NEW p \in Processes, NEW line \in Seq(Peers \union {Waker}),
               backlog' = [backlog EXCEPT ![p] = line]
        PROVE  backlog' \in [Processes -> Seq(Peers \union {Waker})]
    BY <2>1 DEF SessionTypeOK
  <2>2. \A p \in Processes : backlog[p] \in Seq(Peers \union {Waker})
    BY DEF SessionTypeOK
  <2>3. ASSUME NEW p \in Processes, Accept(p)
        PROVE  backlog' \in [Processes -> Seq(Peers \union {Waker})]
    <3>1. Tail(backlog[p]) \in Seq(Peers \union {Waker})
      BY <2>2, <2>3 DEF Accept
    <3> QED BY <2>1, <2>3, <3>1 DEF Accept
  <2>4. ASSUME NEW p \in Processes, Dies(p) \/ Check(p) \/ AcceptFails(p)
        PROVE  backlog' \in [Processes -> Seq(Peers \union {Waker})]
    <3>1. <<>> \in Seq(Peers \union {Waker})
      OBVIOUS
    <3>2. backlog' = [backlog EXCEPT ![p] = <<>>] \/ backlog' = backlog
      BY <2>4 DEF Dies, Check, AcceptFails, Leaves
    <3> QED BY <2>1, <3>1, <3>2 DEF SessionTypeOK
  <2>5. ASSUME NEW p \in Processes, Wake(p)
        PROVE  backlog' \in [Processes -> Seq(Peers \union {Waker})]
    <3>1. Append(backlog[p], Waker) \in Seq(Peers \union {Waker})
      BY <2>2
    <3> QED BY <2>1, <2>5, <3>1 DEF Wake
  <2>6. ASSUME NEW c \in Peers, Connect(c)
        PROVE  backlog' \in [Processes -> Seq(Peers \union {Waker})]
    <3>1. server[c] \in Processes
      BY <2>6 DEF Connect, Known
    <3>2. Append(backlog[server[c]], c) \in Seq(Peers \union {Waker})
      BY <2>2, <3>1
    <3>3. \/ backlog' = [backlog EXCEPT ![server[c]] = Append(backlog[server[c]], c)]
          \/ backlog' = backlog
      BY <2>6 DEF Connect
    <3> QED BY <2>1, <3>1, <3>2, <3>3 DEF SessionTypeOK
  <2>7. CASE backlog' = backlog
    BY <2>7 DEF SessionTypeOK
  <2> QED
    BY <2>3, <2>4, <2>5, <2>6, <2>7, Steps DEF Own, Clear, Start, Flag, WakeFails, Join,
       RemoveFile, Admit, TurnAway, Read, Register, Depart, Release, Advances, sessionVars
<1>6. count' \in [Processes -> 0 .. MaxClients + 1]
  <2>1. count' = [p \in Processes |-> count'[p]]
    <3>1. CASE \E p \in Processes : Admit(p) \/ TurnAway(p) \/ Dies(p)
      BY <3>1 DEF SessionTypeOK, Admit, TurnAway, Dies
    <3>2. CASE \E c \in Peers : Release(c)
      BY <3>2 DEF SessionTypeOK, Release
    <3>3. CASE count' = count
      BY <3>3 DEF SessionTypeOK
    <3> QED
      BY <3>1, <3>2, <3>3, Steps DEF Own, Clear, Start, Flag, Wake, WakeFails, Join,
         RemoveFile, Accept, Check, AcceptFails, Read, Connect, Register, Depart, sessionVars
  <2>2. ASSUME NEW p \in Processes PROVE count'[p] \in 0 .. MaxClients + 1
    <3>1. Counts(p)'
      BY DEF Counted
    <3>2. Turning(p)' \in {0, 1} /\ MaxClients \in Nat
      BY DEF Turning, LiveSessionAssumption
    <3>3. Cardinality(Served(p)') \in Nat
      BY <3>1, FS_CardinalityType DEF Counts
    <3>4. /\ Cardinality(Served(p)') <= MaxClients
          /\ count'[p] = Cardinality(Served(p)') + Turning(p)'
      BY <3>1 DEF Counts
    <3> QED BY ONLY <3>2, <3>3, <3>4
  <2> QED BY <2>1, <2>2
<1> QED BY <1>1, <1>2, <1>3, <1>4, <1>5, <1>6 DEF SessionTypeOK

LEMMA SessionBegins ==
    ASSUME LiveSessionAssumption
    PROVE  SessionInit => SessionInv
<1> SUFFICES ASSUME SessionInit PROVE SessionInv
  OBVIOUS
<1> USE DEF SessionInit
<1>1. SessionTypeOK
  BY DEF SessionTypeOK, LiveSessionAssumption
<1>2. OneOwner /\ Lives /\ Known
  BY DEF OneOwner, Alive, Lives, Listens, Serving, Known, LiveSessionAssumption
<1>3. InLine /\ InHand
  BY DEF InLine, Queued, InHand, Handled, Hands
<1>4. Counted
  <2> SUFFICES ASSUME NEW p \in Processes PROVE Counts(p)
    BY DEF Counted
  <2>1. Served(p) = {}
    BY DEF Served
  <2>2. IsFiniteSet(Served(p)) /\ Cardinality(Served(p)) = 0
    BY <2>1, FS_EmptySet
  <2>3. count[p] = 0 /\ Turning(p) = 0
    BY DEF Turning
  <2>4. MaxClients \in Nat
    BY DEF LiveSessionAssumption
  <2> QED BY <2>2, <2>3, <2>4 DEF Counts
<1> QED BY <1>1, <1>2, <1>3, <1>4 DEF SessionInv

\* However connections come, end and are turned away, and whichever of the
\* processes dies: no more than MAX_CLIENTS are served, the counter is
\* their number and no place is lost, and the session file of a process
\* that serves names it.
THEOREM SessionCorrect ==
    ASSUME LiveSessionAssumption
    PROVE  SessionSpec => []SessionServed
<1>1. SessionInit => SessionInv
  BY SessionBegins
<1>2. SessionInv /\ [SessionNext]_sessionVars => SessionInv'
  <2> SUFFICES ASSUME SessionInv, [SessionNext]_sessionVars PROVE SessionInv'
    OBVIOUS
  <2>1. OneOwner' /\ Lives' /\ InLine' /\ InHand' /\ Known' /\ Counted'
    BY StepOwned, StepLives, StepInLine, StepInHand, StepKnown, StepCounted
  <2>2. SessionTypeOK'
    BY <2>1, StepTyped
  <2> QED BY <2>1, <2>2 DEF SessionInv
<1>3. SessionInv => SessionServed
  <2> SUFFICES ASSUME SessionInv PROVE SessionServed
    OBVIOUS
  <2>1. SessionTypeOK
    BY DEF SessionInv
  <2>2. WithinMax /\ CountTrue
    BY DEF SessionInv, Counted, Counts, Turning, WithinMax, CountTrue
  <2>3. FileNamesServer
    BY DEF SessionInv, Lives, Serving, FileNamesServer
  <2> QED BY <2>1, <2>2, <2>3 DEF SessionServed
<1> QED BY <1>1, <1>2, <1>3, PTL DEF SessionSpec

-----------------------------------------------------------------------------
\* The activity board.

\* No identity is used twice and each was counted as a change.
Numbered ==
    /\ nextId <= sequence + 1 /\ untracked <= sequence
    /\ \A i \in 1 .. Len(active) : active[i].id < nextId
    /\ \A i, j \in 1 .. Len(active) : active[i].id = active[j].id => i = j

\* Only work that runs has an entry.
Guarding == \A w \in Works : work[w].guard # NoEntry => work[w].at \in {"running", "ending"}

BoardInv == BoardTypeOK /\ Numbered /\ Guarding /\ EntriesAreGuards /\ RecentIsTheLast

\* What is left of a list without one of its members.
LEMMA Left ==
    ASSUME NEW T, NEW s \in Seq(T), NEW i \in 1 .. Len(s)
    PROVE  LET r == SubSeq(s, 1, i - 1) \o SubSeq(s, i + 1, Len(s)) IN
           /\ r \in Seq(T) /\ Len(r) = Len(s) - 1 /\ Len(s) \in Nat
           /\ \A k \in 1 .. Len(r) : r[k] = IF k < i THEN s[k] ELSE s[k + 1]
<1> DEFINE a == SubSeq(s, 1, i - 1)
           b == SubSeq(s, i + 1, Len(s))
           r == a \o b
<1>1. Len(s) \in Nat /\ i \in Nat /\ 1 <= i /\ i <= Len(s)
      /\ \A k \in 1 .. Len(s) : s[k] \in T
  BY LenProperties, ElementOfSeq
<1>2. /\ a \in Seq(T) /\ Len(a) = i - 1
      /\ \A k \in 1 .. i - 1 : a[k] = s[k]
  <2>1. \A k \in 1 .. i - 1 : s[k] \in T
    BY <1>1
  <2> QED BY <1>1, <2>1
<1>3. /\ b \in Seq(T) /\ Len(b) = Len(s) - i
      /\ \A k \in 1 .. Len(s) - i : b[k] = s[i + k]
  <2>1. \A k \in i + 1 .. Len(s) : s[k] \in T
    BY <1>1
  <2> QED BY <1>1, <2>1
<1> HIDE DEF a, b
<1>4. /\ r \in Seq(T) /\ Len(r) = Len(a) + Len(b)
      /\ \A k \in 1 .. Len(r) : r[k] = IF k <= Len(a) THEN a[k] ELSE b[k - Len(a)]
  <2>1. a \in Seq(T) /\ b \in Seq(T)
    BY <1>2, <1>3
  <2>2. /\ a \o b \in Seq(T) /\ Len(a \o b) = Len(a) + Len(b)
        /\ \A k \in 1 .. Len(a) + Len(b) :
              (a \o b)[k] = IF k <= Len(a) THEN a[k] ELSE b[k - Len(a)]
    BY <2>1, ConcatProperties
  <2> QED BY ONLY <2>2
<1> HIDE DEF r
<1>5. Len(r) = Len(s) - 1
  BY <1>1, <1>2, <1>3, <1>4
<1>6. ASSUME NEW k \in 1 .. Len(r)
      PROVE  r[k] = IF k < i THEN s[k] ELSE s[k + 1]
  <2>1. CASE k < i
    <3>1. k <= Len(a) /\ k \in 1 .. i - 1
      BY <1>1, <1>2, <2>1
    <3> QED BY <1>2, <1>4, <2>1, <3>1
  <2>2. CASE ~(k < i)
    <3>1. ~(k <= Len(a)) /\ k - Len(a) \in 1 .. Len(s) - i /\ i + (k - Len(a)) = k + 1
      BY <1>1, <1>2, <1>5, <2>2
    <3>2. r[k] = b[k - Len(a)]
      BY <1>4, <3>1
    <3>3. b[k - Len(a)] = s[i + (k - Len(a))]
      BY <1>3, <3>1
    <3> QED BY <2>2, <3>1, <3>2, <3>3
  <2> QED BY <2>1, <2>2
<1> QED BY <1>1, <1>4, <1>5, <1>6 DEF r, a, b

\* LongOf is built one member at a time.
KeptOf(list) ==
    CHOOSE f : f = [i \in 0 .. Len(list) |->
                      IF i = 0 THEN << >>
                      ELSE IF RanLong(list[i]) THEN Append(f[i - 1], list[i])
                      ELSE f[i - 1]]

LEMMA KeptIs ==
    ASSUME NEW T, NEW list \in Seq(T)
    PROVE  /\ KeptOf(list)[0] = <<>>
           /\ \A i \in 1 .. Len(list) : KeptOf(list)[i] =
                 IF RanLong(list[i]) THEN Append(KeptOf(list)[i - 1], list[i])
                 ELSE KeptOf(list)[i - 1]
           /\ KeptOf(list) \in [0 .. Len(list) -> Seq(T)]
<1> DEFINE k == Len(list)
           V == Seq(T)
           Taken(i, s) == IF RanLong(list[i]) THEN Append(s, list[i]) ELSE s
           step == [i \in 1 .. k |-> [s \in V |-> Taken(i, s)]]
           t == KeptOf(list)
<1>1. k \in Nat /\ DOMAIN list = 1 .. k /\ \A i \in 1 .. k : list[i] \in T
  BY LenProperties
<1>2. \A i \in 1 .. k, s \in V : Taken(i, s) \in V
  BY <1>1, AppendProperties
<1> HIDE DEF Taken
<1>3. /\ step \in [1 .. k -> [V -> V]]
      /\ \A i \in 1 .. k, s \in V : step[i][s] = Taken(i, s)
  BY <1>2
<1>4. <<>> \in V
  BY EmptySeq
<1> HIDE DEF step, V
<1>5. PICK f \in [0 .. k -> V] : Runs(f, k, <<>>, step)
  BY <1>1, <1>3, <1>4, Recursion
<1>6. \A i \in 1 .. k : f[i] = Taken(i, f[i - 1])
  <2> SUFFICES ASSUME NEW i \in 1 .. k PROVE f[i] = Taken(i, f[i - 1])
    OBVIOUS
  <2>1. i - 1 \in 0 .. k
    BY <1>1
  <2>2. f[i - 1] \in V
    BY <2>1
  <2> QED BY <1>3, <1>5, <2>2 DEF Runs
<1>7. f = [i \in 0 .. k |-> IF i = 0 THEN <<>>
             ELSE IF RanLong(list[i]) THEN Append(f[i - 1], list[i])
             ELSE f[i - 1]]
  <2>1. \A i \in 0 .. k : i # 0 => i \in 1 .. k
    BY <1>1
  <2> QED BY <1>5, <1>6, <2>1 DEF Taken, Runs
<1>8. t = [i \in 0 .. k |-> IF i = 0 THEN <<>>
             ELSE IF RanLong(list[i]) THEN Append(t[i - 1], list[i])
             ELSE t[i - 1]]
  BY <1>7 DEF KeptOf
<1> HIDE DEF t
<1>9. t[0] = <<>>
  BY <1>1, <1>8
<1>10. \A i \in 1 .. k : t[i] = IF RanLong(list[i]) THEN Append(t[i - 1], list[i])
                                ELSE t[i - 1]
  <2>1. \A i \in 1 .. k : i \in 0 .. k /\ i # 0
    BY <1>1
  <2> QED BY <1>8, <2>1
<1> DEFINE S == {i \in Nat : i <= k => t[i] \in V}
<1>11. 0 \in S
  BY <1>4, <1>9
<1>12. ASSUME NEW i \in Nat, i \in S PROVE i + 1 \in S
  <2> SUFFICES ASSUME i + 1 <= k PROVE t[i + 1] \in V
    OBVIOUS
  <2>1. i + 1 \in 1 .. k /\ (i + 1) - 1 = i /\ t[i] \in V
    BY <1>1, <1>12
  <2>2. t[i + 1] = Taken(i + 1, t[i])
    BY <1>10, <2>1 DEF Taken
  <2> QED BY <1>2, <2>1, <2>2
<1> HIDE DEF S
<1>13. Nat \subseteq S
  BY <1>11, <1>12, Induction
<1>14. \A i \in 0 .. k : t[i] \in V
  BY <1>1, <1>13 DEF S
<1>15. t \in [0 .. k -> V]
  BY <1>8, <1>14
<1> QED BY <1>9, <1>10, <1>15 DEF t, V

LEMMA LongAppend ==
    ASSUME NEW T, NEW list \in Seq(T), NEW e \in T
    PROVE  /\ LongOf(list) \in Seq(T)
           /\ LongOf(Append(list, e)) =
                 IF RanLong(e) THEN Append(LongOf(list), e) ELSE LongOf(list)
<1> DEFINE n == Len(list)
           more == Append(list, e)
           s == KeptOf(list)
           t == KeptOf(more)
<1>1. /\ more \in Seq(T) /\ Len(more) = n + 1 /\ n \in Nat
      /\ \A i \in 1 .. n : more[i] = list[i]
      /\ more[n + 1] = e
  BY AppendProperties, LenProperties
<1>2. /\ LongOf(list) = s[n] /\ LongOf(more) = t[n + 1]
  <2>1. LongOf(list) = s[Len(list)]
    BY DEF LongOf, KeptOf
  <2>2. LongOf(more) = t[Len(more)]
    BY DEF LongOf, KeptOf
  <2> QED BY <1>1, <2>1, <2>2
<1> HIDE DEF more
<1>3. /\ s[0] = <<>> /\ s \in [0 .. n -> Seq(T)]
      /\ \A i \in 1 .. n : s[i] = IF RanLong(list[i]) THEN Append(s[i - 1], list[i])
                                  ELSE s[i - 1]
  BY KeptIs
<1>4. /\ t[0] = <<>>
      /\ \A i \in 1 .. n + 1 : t[i] = IF RanLong(more[i]) THEN Append(t[i - 1], more[i])
                                      ELSE t[i - 1]
  BY <1>1, KeptIs
<1> HIDE DEF s, t
<1> DEFINE S == {i \in Nat : i <= n => t[i] = s[i]}
<1>5. 0 \in S
  BY <1>3, <1>4
<1>6. ASSUME NEW i \in Nat, i \in S PROVE i + 1 \in S
  <2> SUFFICES ASSUME i + 1 <= n PROVE t[i + 1] = s[i + 1]
    OBVIOUS
  <2>1. i + 1 \in 1 .. n /\ i + 1 \in 1 .. n + 1 /\ (i + 1) - 1 = i /\ t[i] = s[i]
    BY <1>1, <1>6
  <2>2. t[i + 1] = IF RanLong(more[i + 1]) THEN Append(t[i], more[i + 1]) ELSE t[i]
    BY <1>4, <2>1
  <2>3. s[i + 1] = IF RanLong(list[i + 1]) THEN Append(s[i], list[i + 1]) ELSE s[i]
    BY <1>3, <2>1
  <2>4. more[i + 1] = list[i + 1]
    BY <1>1, <2>1
  <2> QED BY <2>1, <2>2, <2>3, <2>4
<1> HIDE DEF S
<1>7. Nat \subseteq S
  BY <1>5, <1>6, Induction
<1>8. t[n] = s[n] /\ s[n] \in Seq(T)
  BY <1>1, <1>3, <1>7 DEF S
<1>9. t[n + 1] = IF RanLong(e) THEN Append(t[n], e) ELSE t[n]
  <2>1. n + 1 \in 1 .. n + 1 /\ (n + 1) - 1 = n
    BY <1>1
  <2> QED BY <1>1, <1>4, <2>1
<1> QED BY <1>2, <1>8, <1>9 DEF more

\* The entry that work w is given.
EntryOf(w) ==
    [id |-> nextId, of |-> w, phase |-> Unreported, started |-> work[w].read]

LEMMA RecentKept ==
    ASSUME RecentIsTheLast, recent' = recent, finished' = finished
    PROVE  RecentIsTheLast'
BY DEF RecentIsTheLast

\* Steps that leave the list alone: a tick, a clock read, an end of
\* untracked work, work that is not tracked.
LEMMA QuietStep ==
    ASSUME ActivityAssumption, BoardInv,
           \/ Tick
           \/ \E w \in Works :
                 BeginReads(w) \/ EndReads(w) \/ EndUntracked(w) \/ BeginUntracked(w)
           \/ UNCHANGED boardVars
    PROVE  BoardInv'
<1> USE DEF BoardInv
<1>1. RecentIsTheLast'
  <2>1. recent' = recent /\ finished' = finished
    BY DEF Tick, BeginReads, EndReads, EndUntracked, BeginUntracked, boardVars, board
  <2> QED BY <2>1, RecentKept
<1>2. BoardTypeOK'
  <2>1. CASE Tick
    BY <2>1 DEF BoardTypeOK, Tick, board, Ticks, ActivityAssumption
  <2>2. CASE \E w \in Works : BeginReads(w) \/ EndReads(w) \/ EndUntracked(w)
    <3>1. PICK w \in Works : BeginReads(w) \/ EndReads(w) \/ EndUntracked(w)
      BY <2>2
    <3>2. work' = [work EXCEPT ![w] = work'[w]] /\
             work'[w] \in [at : {"idle", "beginning", "running", "ending"},
                       guard : Guard, read : Ticks]
      <4>1. clock \in Ticks /\ 0 \in Ticks /\ NoEntry \in Guard
        BY DEF BoardTypeOK, Ticks, Guard, NoEntry, ActivityAssumption
      <4>2. work \in [Works -> [at : {"idle", "beginning", "running", "ending"},
                                guard : Guard, read : Ticks]]
        BY DEF BoardTypeOK
      <4>3. CASE BeginReads(w)
        BY <4>1, <4>2, <4>3 DEF BeginReads, Move, Idle
      <4>4. CASE EndReads(w)
        BY <4>1, <4>2, <4>4 DEF EndReads, Move
      <4>5. CASE EndUntracked(w)
        BY <4>1, <4>2, <4>5 DEF EndUntracked, Move, Idle
      <4> QED BY <3>1, <4>3, <4>4, <4>5
    <3>3. clock' = clock /\ finished' = finished /\ UNCHANGED board
      BY <3>1 DEF BeginReads, EndReads, EndUntracked
    <3> QED BY <3>2, <3>3 DEF BoardTypeOK, board
  <2>3. CASE \E w \in Works : BeginUntracked(w)
    <3>1. sequence' = sequence + 1 /\ untracked' = untracked + 1 /\ sequence < MaxChanges
      BY <2>3 DEF BeginUntracked, Changed
    <3>2. sequence' \in 0 .. MaxChanges /\ untracked' \in 0 .. MaxChanges
      BY <3>1 DEF BoardTypeOK, Numbered, ActivityAssumption
    <3> QED BY <2>3, <3>2 DEF BoardTypeOK, BeginUntracked, Move, UntrackedGuard, Guard,
       Ticks, ActivityAssumption
  <2>4. CASE UNCHANGED boardVars
    BY <2>4 DEF BoardTypeOK, boardVars, board
  <2> QED BY <2>1, <2>2, <2>3, <2>4
<1>3. Numbered'
  <2>1. CASE UNCHANGED board
    BY <2>1 DEF Numbered, board
  <2>2. CASE \E w \in Works : BeginUntracked(w)
    <3>1. /\ sequence' = sequence + 1 /\ untracked' = untracked + 1
          /\ nextId' = nextId /\ active' = active
      BY <2>2 DEF BeginUntracked, Changed
    <3>2. /\ sequence \in Nat /\ untracked \in Nat /\ nextId \in Nat
      BY DEF BoardTypeOK, Ids, ActivityAssumption
    <3> QED BY <3>1, <3>2 DEF Numbered
  <2> QED BY <2>1, <2>2 DEF Tick, BeginReads, EndReads, EndUntracked, boardVars
<1>4. /\ active' = active
      /\ \A w \in Works : work'[w].guard = work[w].guard
      /\ Guarding'
  <2>1. work \in [Works -> [at : {"idle", "beginning", "running", "ending"},
                            guard : Guard, read : Ticks]]
    BY DEF BoardTypeOK
  <2>2. CASE \E w \in Works : BeginReads(w) \/ EndReads(w) \/ EndUntracked(w) \/ BeginUntracked(w)
    <3>1. PICK w \in Works : BeginReads(w) \/ EndReads(w) \/ EndUntracked(w) \/ BeginUntracked(w)
      BY <2>2
    <3>2. active' = active
      BY <3>1 DEF BeginReads, EndReads, EndUntracked, BeginUntracked, board
    <3>3. /\ work' = [work EXCEPT ![w] = work'[w]]
          /\ work'[w].guard = work[w].guard
          /\ work'[w].guard # NoEntry => work'[w].at \in {"running", "ending"}
      <4>1. CASE BeginReads(w)
        BY <2>1, <4>1 DEF BeginReads, Move, Idle, Guarding
      <4>2. CASE EndReads(w)
        BY <2>1, <4>2 DEF EndReads, Move
      <4>3. CASE EndUntracked(w)
        BY <2>1, <4>3 DEF EndUntracked, Move, Idle
      <4>4. CASE BeginUntracked(w)
        BY <2>1, <4>4 DEF BeginUntracked, Move, UntrackedGuard, Guarding
      <4> QED BY <3>1, <4>1, <4>2, <4>3, <4>4
    <3>4. \A v \in Works : v # w => work'[v] = work[v]
      BY <2>1, <3>3
    <3> QED BY <3>2, <3>3, <3>4 DEF Guarding
  <2>3. CASE Tick \/ UNCHANGED boardVars
    BY <2>3 DEF Tick, boardVars, board, Guarding
  <2> QED BY <2>2, <2>3
<1>5. EntriesAreGuards'
  <2>1. \A i \in DOMAIN active : active[i].of \in Works
    <3>1. \A i \in DOMAIN active : active[i] \in Entry
      BY DEF BoardTypeOK
    <3> QED BY <3>1 DEF Entry
  <2> QED BY <1>4, <2>1 DEF EntriesAreGuards
<1> QED BY <1>1, <1>2, <1>3, <1>4, <1>5

\* A new entry has an identity that none has.
LEMMA BeginStep ==
    ASSUME ActivityAssumption, BoardInv, NEW w \in Works, BeginTracked(w)
    PROVE  BoardInv'
<1> USE DEF BoardInv
<1> DEFINE e == EntryOf(w)
           n == Len(active)
<1>1. /\ work \in [Works -> [at : {"idle", "beginning", "running", "ending"},
                            guard : Guard, read : Ticks]]
      /\ active \in Seq(Entry) /\ nextId \in Nat \ {0} /\ sequence \in Nat /\ untracked \in Nat
      /\ MaxChanges \in Nat /\ MaxActive \in Nat
  BY DEF BoardTypeOK, Ids, ActivityAssumption
<1>2. /\ active' = Append(active, e) /\ nextId' = nextId + 1 /\ sequence' = sequence + 1
      /\ sequence < MaxChanges /\ n < MaxActive
      /\ work' = [work EXCEPT ![w] = [at |-> "running", guard |-> nextId, read |-> 0]]
      /\ work[w].at = "beginning"
      /\ clock' = clock /\ untracked' = untracked /\ recent' = recent /\ finished' = finished
  BY DEF BeginTracked, EntryOf, Changed, Move
<1>3. nextId + 1 \in Ids /\ nextId \in Ids /\ sequence + 1 \in 0 .. MaxChanges
  BY <1>1, <1>2 DEF Numbered, Ids, BoardTypeOK
<1>4. e \in Entry /\ e.id = nextId /\ e.of = w
  BY <1>1, <1>3 DEF EntryOf, Entry, ActivityAssumption
<1> HIDE DEF e
<1>5. /\ active' \in Seq(Entry) /\ Len(active') = n + 1 /\ n \in Nat
      /\ \A i \in 1 .. n : active'[i] = active[i]
      /\ active'[n + 1] = e
      /\ DOMAIN active = 1 .. n /\ DOMAIN active' = 1 .. n + 1
  BY <1>1, <1>2, <1>4, AppendProperties, LenProperties
<1>6. \A i \in 1 .. n + 1 : i \in 1 .. n \/ i = n + 1
  BY <1>5
<1>7. BoardTypeOK'
  <2>1. /\ work' \in [Works -> [at : {"idle", "beginning", "running", "ending"},
                               guard : Guard, read : Ticks]]
    BY <1>1, <1>2, <1>3 DEF Guard, Ticks, ActivityAssumption
  <2>2. Len(active') <= MaxActive
    BY <1>1, <1>2, <1>5
  <2> QED BY <1>2, <1>3, <1>5, <2>1, <2>2 DEF BoardTypeOK
<1>8. Numbered'
  <2>1. \A i \in 1 .. n : active[i].id < nextId /\ active[i].id \in Nat
    <3>1. \A i \in 1 .. n : active[i] \in Entry
      BY <1>1, <1>5
    <3>2. \A i \in 1 .. n : active[i].id \in Ids
      BY <3>1 DEF Entry
    <3> QED BY <1>1, <3>2 DEF Numbered, Ids
  <2>2. \A i \in 1 .. n + 1 : active'[i].id < nextId + 1
    BY <1>1, <1>4, <1>5, <1>6, <2>1
  <2>3. ASSUME NEW i \in 1 .. n + 1, NEW j \in 1 .. n + 1, active'[i].id = active'[j].id
        PROVE  i = j
    <3>1. CASE i \in 1 .. n /\ j \in 1 .. n
      BY <1>5, <2>3, <3>1 DEF Numbered
    <3>2. CASE i = n + 1 /\ j \in 1 .. n
      BY <1>1, <1>4, <1>5, <2>1, <2>3, <3>2
    <3>3. CASE j = n + 1 /\ i \in 1 .. n
      BY <1>1, <1>4, <1>5, <2>1, <2>3, <3>3
    <3> QED BY <1>6, <3>1, <3>2, <3>3
  <2>4. nextId + 1 <= (sequence + 1) + 1 /\ untracked <= sequence + 1
    BY <1>1 DEF Numbered
  <2> QED BY <1>2, <1>5, <2>2, <2>3, <2>4 DEF Numbered
<1>9. Guarding'
  BY <1>1, <1>2 DEF Guarding
<1>10. work[w].guard = NoEntry
  BY <1>2 DEF Guarding
<1>11. EntriesAreGuards'
  <2>1. ASSUME NEW i \in 1 .. n + 1
        PROVE  work'[active'[i].of].guard = active'[i].id
    <3>1. CASE i \in 1 .. n
      <4>1. active[i].of \in Works /\ active[i].id # NoEntry
        <5>1. active[i] \in Entry
          BY <1>1, <1>5, <3>1
        <5>2. active[i].of \in Works /\ active[i].id \in Ids
          BY <5>1 DEF Entry
        <5> QED BY <1>1, <5>2 DEF Ids, NoEntry
      <4>2. work[active[i].of].guard = active[i].id
        BY <1>5, <3>1 DEF EntriesAreGuards
      <4>3. active[i].of # w
        BY <1>10, <4>1, <4>2
      <4> QED BY <1>1, <1>2, <1>5, <3>1, <4>1, <4>2, <4>3
    <3>2. CASE i = n + 1
      BY <1>1, <1>2, <1>4, <1>5, <3>2
    <3> QED BY <1>6, <3>1, <3>2
  <2>2. ASSUME NEW v \in Works, work'[v].guard # NoEntry
        PROVE  \E i \in 1 .. n + 1 : active'[i].id = work'[v].guard /\ active'[i].of = v
    <3>1. CASE v = w
      <4>1. n + 1 \in 1 .. n + 1 /\ work'[v].guard = nextId
        BY <1>1, <1>2, <1>5, <3>1
      <4> QED BY <1>4, <1>5, <3>1, <4>1
    <3>2. CASE v # w
      <4>1. work'[v] = work[v]
        BY <1>1, <1>2, <3>2
      <4>2. PICK i \in 1 .. n : active[i].id = work[v].guard /\ active[i].of = v
        BY <1>5, <2>2, <4>1 DEF EntriesAreGuards
      <4>3. i \in 1 .. n + 1 /\ active'[i] = active[i]
        BY <1>5
      <4> QED BY <4>1, <4>2, <4>3
    <3> QED BY <3>1, <3>2
  <2> QED BY <1>5, <2>1, <2>2 DEF EntriesAreGuards
<1>12. RecentIsTheLast'
  BY <1>2, RecentKept
<1> QED BY <1>7, <1>8, <1>9, <1>11, <1>12

\* A report changes neither an identity nor an owner.
LEMMA ReportStep ==
    ASSUME ActivityAssumption, BoardInv, NEW w \in Works, NEW phase \in Phases,
           Report(w, phase)
    PROVE  BoardInv'
<1> USE DEF BoardInv
<1>1. PICK p \in DOMAIN active : active' = [active EXCEPT ![p].phase = phase]
  BY DEF Report, Place
<1>2. /\ sequence' = sequence + 1 /\ sequence < MaxChanges
      /\ clock' = clock /\ nextId' = nextId /\ untracked' = untracked
      /\ recent' = recent /\ work' = work /\ finished' = finished
  BY DEF Report, ReportChanges, Changed
<1>3. /\ active \in Seq(Entry) /\ Len(active) \in Nat /\ DOMAIN active = 1 .. Len(active)
      /\ sequence \in Nat /\ untracked \in Nat /\ nextId \in Nat /\ MaxChanges \in Nat
  BY LenProperties DEF BoardTypeOK, Ids, ActivityAssumption
<1>4. /\ active' \in Seq(Entry) /\ Len(active') = Len(active) /\ DOMAIN active' = DOMAIN active
      /\ \A i \in DOMAIN active : active'[i].id = active[i].id /\ active'[i].of = active[i].of
  <2> DEFINE e == [active[p] EXCEPT !.phase = phase]
  <2>1. active[p] \in Entry
    BY <1>3
  <2>2. e \in Entry /\ e.id = active[p].id /\ e.of = active[p].of
    BY <2>1 DEF Entry
  <2>3. active' = [active EXCEPT ![p] = e]
    BY <1>1
  <2> HIDE DEF e
  <2>4. /\ [active EXCEPT ![p] = e] \in Seq(Entry)
        /\ Len([active EXCEPT ![p] = e]) = Len(active)
        /\ DOMAIN [active EXCEPT ![p] = e] = DOMAIN active
    BY <1>3, <2>2, ExceptSeq
  <2> QED BY <1>3, <2>2, <2>3, <2>4
<1>5. BoardTypeOK'
  BY <1>2, <1>3, <1>4 DEF BoardTypeOK
<1>6. Numbered'
  <2>1. nextId <= sequence + 1 + 1 /\ untracked <= sequence + 1
    BY <1>3 DEF Numbered
  <2>2. \A i \in 1 .. Len(active') : active'[i].id < nextId
    BY <1>3, <1>4 DEF Numbered
  <2>3. \A i, j \in 1 .. Len(active') : active'[i].id = active'[j].id => i = j
    BY <1>3, <1>4 DEF Numbered
  <2> QED BY <1>2, <2>1, <2>2, <2>3 DEF Numbered
<1>7. Guarding' /\ EntriesAreGuards'
  BY <1>2, <1>4 DEF Guarding, EntriesAreGuards
<1>8. RecentIsTheLast'
  BY <1>2, RecentKept
<1> QED BY <1>5, <1>6, <1>7, <1>8

\* The recent list after one more end.
LEMMA RecentGrows ==
    ASSUME ActivityAssumption, RecentIsTheLast,
           recent \in Seq(Ended), finished \in Seq(Ended), NEW gone \in Ended,
           finished' = Append(finished, gone),
           recent' = IF RanLong(gone) THEN FirstRecent(<<gone>> \o recent) ELSE recent
    PROVE  RecentIsTheLast' /\ recent' \in Seq(Ended) /\ finished' \in Seq(Ended)
<1> DEFINE long == LongOf(finished)
           more == LongOf(Append(finished, gone))
           n == Len(recent)
           m == Len(long)
<1>1. /\ long \in Seq(Ended) /\ Append(finished, gone) \in Seq(Ended)
      /\ more = IF RanLong(gone) THEN Append(long, gone) ELSE long
  BY LongAppend, AppendProperties
<1>2. /\ n = IF m < MaxRecent THEN m ELSE MaxRecent
      /\ \A i \in 1 .. n : recent[i] = long[m + 1 - i]
  BY DEF RecentIsTheLast
<1>3. MaxRecent \in Nat \ {0} /\ n \in Nat /\ m \in Nat
  BY <1>1, LenProperties DEF ActivityAssumption
<1> HIDE DEF long, more
<1>4. ASSUME ~RanLong(gone)
      PROVE  RecentIsTheLast' /\ recent' \in Seq(Ended)
  BY <1>1, <1>2, <1>4 DEF RecentIsTheLast, more, long
<1>5. ASSUME RanLong(gone)
      PROVE  RecentIsTheLast' /\ recent' \in Seq(Ended)
  <2> DEFINE list == <<gone>> \o recent
             k == Len(recent')
  <2>1. /\ list \in Seq(Ended) /\ Len(list) = n + 1 /\ list[1] = gone
        /\ \A i \in 1 .. n : list[i + 1] = recent[i]
    <3>1. <<gone>> \in Seq(Ended) /\ Len(<<gone>>) = 1 /\ <<gone>>[1] = gone
      OBVIOUS
    <3>2. /\ list \in Seq(Ended) /\ Len(list) = 1 + n
          /\ \A i \in 1 .. 1 + n : list[i] = IF i <= 1 THEN <<gone>>[i] ELSE recent[i - 1]
      BY <3>1, ConcatProperties
    <3> HIDE DEF list
    <3>3. /\ 1 \in 1 .. 1 + n /\ \A i \in 1 .. n : /\ i + 1 \in 1 .. 1 + n /\ ~(i + 1 <= 1)
                                                  /\ (i + 1) - 1 = i
      BY <1>3
    <3>4. \A i \in 1 .. n : list[i + 1] = recent[i]
      BY <3>2, <3>3
    <3> QED BY <1>3, <3>1, <3>2, <3>3, <3>4
  <2> HIDE DEF list
  <2>2. /\ recent' \in Seq(Ended)
        /\ k = IF n + 1 > MaxRecent THEN MaxRecent ELSE n + 1
        /\ \A i \in 1 .. k : recent'[i] = list[i]
    <3>1. recent' = IF n + 1 > MaxRecent THEN SubSeq(list, 1, MaxRecent) ELSE list
      BY <1>5, <2>1 DEF FirstRecent, list
    <3>2. CASE n + 1 > MaxRecent
      <4>1. \A i \in 1 .. MaxRecent : i \in 1 .. Len(list) /\ list[i] \in Ended
        BY <1>3, <2>1, <3>2, ElementOfSeq
      <4>2. /\ SubSeq(list, 1, MaxRecent) \in Seq(Ended)
            /\ Len(SubSeq(list, 1, MaxRecent)) = MaxRecent
            /\ \A i \in 1 .. MaxRecent : SubSeq(list, 1, MaxRecent)[i] = list[i]
        BY <1>3, <2>1, <4>1
      <4> QED BY <3>1, <3>2, <4>2
    <3>3. CASE ~(n + 1 > MaxRecent)
      BY <2>1, <3>1, <3>3
    <3> QED BY <3>2, <3>3
  <2>3. /\ more \in Seq(Ended) /\ Len(more) = m + 1 /\ more[m + 1] = gone
        /\ \A i \in 1 .. m : more[i] = long[i]
    BY <1>1, <1>5, AppendProperties, LenProperties
  <2>4. /\ k = (IF m + 1 < MaxRecent THEN m + 1 ELSE MaxRecent) /\ k \in Nat
        /\ k <= n + 1
    BY <1>2, <1>3, <2>2
  <2> HIDE DEF k
  <2>5. ASSUME NEW i \in 1 .. k
        PROVE  recent'[i] = more[(m + 1) + 1 - i]
    <3>1. CASE i = 1
      <4>1. (m + 1) + 1 - i = m + 1
        BY <1>3, <3>1
      <4> QED BY <2>1, <2>2, <2>3, <3>1, <4>1
    <3>2. CASE i # 1
      <4>1. /\ i - 1 \in 1 .. n /\ (i - 1) + 1 = i
            /\ (m + 1) + 1 - i = m + 1 - (i - 1)
        BY <1>3, <2>4, <3>2
      <4>2. m + 1 - (i - 1) \in 1 .. m
        BY <1>2, <1>3, <4>1
      <4>3. recent'[i] = recent[i - 1]
        BY <2>1, <2>2, <4>1
      <4>4. recent[i - 1] = long[m + 1 - (i - 1)]
        BY <1>2, <4>1
      <4> QED BY <2>3, <4>1, <4>2, <4>3, <4>4
    <3> QED BY <3>1, <3>2
  <2> QED BY <2>2, <2>3, <2>4, <2>5 DEF RecentIsTheLast, more, k
<1> QED BY <1>1, <1>4, <1>5

\* An end takes its own entry away and no other.
LEMMA EndStep ==
    ASSUME ActivityAssumption, BoardInv, NEW w \in Works, End(w)
    PROVE  BoardInv'
<1> USE DEF BoardInv
<1>1. PICK p \in DOMAIN active :
         LET gone == [entry |-> active[p], ended |-> work[w].read]
         IN  /\ active[p].id = work[w].guard
             /\ active' = Without(p)
             /\ recent' = IF gone.ended - gone.entry.started >= Threshold
                          THEN FirstRecent(<<gone>> \o recent) ELSE recent
             /\ finished' = Append(finished, gone)
  BY DEF End, Place
<1> DEFINE gone == [entry |-> active[p], ended |-> work[w].read]
           n == Len(active)
<1>2. /\ work \in [Works -> [at : {"idle", "beginning", "running", "ending"},
                            guard : Guard, read : Ticks]]
      /\ active \in Seq(Entry) /\ recent \in Seq(Ended) /\ finished \in Seq(Ended)
      /\ nextId \in Nat /\ sequence \in Nat /\ untracked \in Nat /\ MaxChanges \in Nat
      /\ MaxActive \in Nat /\ n <= MaxActive
  BY DEF BoardTypeOK, Ids, ActivityAssumption
<1>3. /\ n \in Nat /\ DOMAIN active = 1 .. n /\ p \in 1 .. n
      /\ \A i \in 1 .. n : active[i] \in Entry
  BY <1>2, LenProperties
<1>4. /\ \A i \in 1 .. n : active[i].of \in Works /\ active[i].id \in Ids
      /\ \A i \in 1 .. n : active[i].id # NoEntry
  BY <1>3 DEF Entry, Ids, NoEntry
<1>5. /\ sequence' = sequence + 1 /\ sequence < MaxChanges
      /\ work' = [work EXCEPT ![w] = Idle]
      /\ clock' = clock /\ nextId' = nextId /\ untracked' = untracked
  BY DEF End, Changed, Move
<1>6. gone \in Ended
  BY <1>2, <1>3 DEF Ended
<1>7. recent' = IF RanLong(gone) THEN FirstRecent(<<gone>> \o recent) ELSE recent
  BY <1>1 DEF RanLong
<1>8. finished' = Append(finished, gone)
  BY <1>1
<1> HIDE DEF gone
<1>9. RecentIsTheLast' /\ recent' \in Seq(Ended) /\ finished' \in Seq(Ended)
  BY <1>2, <1>6, <1>7, <1>8, RecentGrows
<1>10. /\ active' \in Seq(Entry) /\ Len(active') = n - 1
       /\ \A k \in 1 .. n - 1 : active'[k] = IF k < p THEN active[k] ELSE active[k + 1]
  BY <1>1, <1>2, <1>3, Left DEF Without
<1>11. DOMAIN active' = 1 .. n - 1
  BY <1>10, LenProperties
<1>12. ASSUME NEW k \in 1 .. n - 1
       PROVE  \E i \in 1 .. n : /\ i # p /\ active'[k] = active[i]
                                /\ i = IF k < p THEN k ELSE k + 1
  BY <1>3, <1>10
<1>13. ASSUME NEW i \in 1 .. n, i # p
       PROVE  \E k \in 1 .. n - 1 : active'[k] = active[i]
  <2>1. CASE i < p
    <3>1. i \in 1 .. n - 1
      BY <1>3, <2>1
    <3> QED BY <1>10, <2>1, <3>1
  <2>2. CASE ~(i < p)
    <3>1. i - 1 \in 1 .. n - 1 /\ ~(i - 1 < p) /\ (i - 1) + 1 = i
      BY <1>3, <1>13, <2>2
    <3> QED BY <1>10, <3>1
  <2> QED BY <2>1, <2>2
<1>14. active[p].of = w
  <2>1. work[w].guard # NoEntry
    BY <1>1, <1>3, <1>4
  <2>2. PICK j \in 1 .. n : active[j].id = work[w].guard /\ active[j].of = w
    BY <1>3, <2>1 DEF EntriesAreGuards
  <2>3. j = p
    BY <1>1, <1>3, <2>2 DEF Numbered
  <2> QED BY <2>2, <2>3
<1>15. \A i \in 1 .. n : i # p => active[i].of # w
  <2> SUFFICES ASSUME NEW i \in 1 .. n, i # p, active[i].of = w PROVE FALSE
    OBVIOUS
  <2>1. work[w].guard = active[i].id
    BY <1>3 DEF EntriesAreGuards
  <2> QED BY <1>1, <1>3, <2>1 DEF Numbered
<1>16. BoardTypeOK'
  <2>1. work' \in [Works -> [at : {"idle", "beginning", "running", "ending"},
                            guard : Guard, read : Ticks]]
    BY <1>2, <1>5 DEF Idle, Guard, NoEntry, Ticks, ActivityAssumption
  <2>2. Len(active') <= MaxActive /\ sequence + 1 \in 0 .. MaxChanges
    BY <1>2, <1>3, <1>5, <1>10
  <2>3. Len(recent') <= MaxRecent
    <3> DEFINE long == LongOf(finished')
    <3>1. Len(recent') = IF Len(long) < MaxRecent THEN Len(long) ELSE MaxRecent
      BY <1>9 DEF RecentIsTheLast
    <3>2. long \in Seq(Ended)
      BY <1>9, <1>6, LongAppend
    <3>3. Len(long) \in Nat /\ MaxRecent \in Nat
      BY <3>2, LenProperties DEF ActivityAssumption
    <3> QED BY <3>1, <3>3
  <2> QED BY <1>5, <1>9, <1>10, <2>1, <2>2, <2>3 DEF BoardTypeOK
<1>17. Numbered'
  <2>1. nextId <= sequence + 1 + 1 /\ untracked <= sequence + 1
    BY <1>2 DEF Numbered
  <2>2. \A k \in 1 .. n - 1 : active'[k].id < nextId
    BY <1>12 DEF Numbered
  <2>3. ASSUME NEW k \in 1 .. n - 1, NEW l \in 1 .. n - 1, active'[k].id = active'[l].id
        PROVE  k = l
    <3>1. PICK i \in 1 .. n : /\ i # p /\ active'[k] = active[i]
                              /\ i = IF k < p THEN k ELSE k + 1
      BY <1>12
    <3>2. PICK j \in 1 .. n : /\ j # p /\ active'[l] = active[j]
                              /\ j = IF l < p THEN l ELSE l + 1
      BY <1>12
    <3>3. i = j
      BY <2>3, <3>1, <3>2 DEF Numbered
    <3> QED BY <1>3, <3>1, <3>2, <3>3
  <2> QED BY <1>5, <1>10, <2>1, <2>2, <2>3 DEF Numbered
<1>18. Guarding'
  BY <1>2, <1>5 DEF Guarding, Idle
<1>19. EntriesAreGuards'
  <2>1. ASSUME NEW k \in 1 .. n - 1
        PROVE  work'[active'[k].of].guard = active'[k].id
    <3>1. PICK i \in 1 .. n : i # p /\ active'[k] = active[i]
      BY <1>12
    <3>2. active[i].of # w /\ active[i].of \in Works
      BY <1>4, <1>15, <3>1
    <3>3. work'[active[i].of] = work[active[i].of]
      BY <1>2, <1>5, <3>2
    <3> QED BY <1>3, <3>1, <3>3 DEF EntriesAreGuards
  <2>2. ASSUME NEW v \in Works, work'[v].guard # NoEntry
        PROVE  \E k \in 1 .. n - 1 : active'[k].id = work'[v].guard /\ active'[k].of = v
    <3>1. v # w /\ work'[v] = work[v]
      BY <1>2, <1>5, <2>2 DEF Idle
    <3>2. PICK i \in 1 .. n : active[i].id = work[v].guard /\ active[i].of = v
      BY <1>3, <2>2, <3>1 DEF EntriesAreGuards
    <3>3. i # p
      BY <1>14, <3>1, <3>2
    <3>4. PICK k \in 1 .. n - 1 : active'[k] = active[i]
      BY <1>13, <3>3
    <3> QED BY <3>1, <3>2, <3>4
  <2> QED BY <1>11, <2>1, <2>2 DEF EntriesAreGuards
<1> QED BY <1>9, <1>16, <1>17, <1>18, <1>19

LEMMA BoardStep ==
    ASSUME ActivityAssumption, BoardInv, [BoardNext]_boardVars
    PROVE  BoardInv'
BY QuietStep, BeginStep, ReportStep, EndStep DEF BoardNext

\* Whatever a step does to the lists, it tells.
LEMMA StepTells ==
    ASSUME ActivityAssumption, BoardInv, [BoardNext]_boardVars
    PROVE  [sequence' = sequence <=> <<active, recent, untracked>>' =
                                <<active, recent, untracked>>]_boardVars
<1> SUFFICES ASSUME BoardNext
             PROVE  \/ sequence' = sequence /\ active' = active /\ recent' = recent
                       /\ untracked' = untracked
                    \/ sequence' # sequence /\ (active' # active \/ untracked' # untracked)
  BY DEF boardVars, board
<1>1. sequence \in Nat /\ untracked \in Nat /\ active \in Seq(Entry)
  BY DEF BoardInv, BoardTypeOK, ActivityAssumption
<1>2. CASE Tick \/ UNCHANGED boardVars
           \/ \E w \in Works : BeginReads(w) \/ EndReads(w) \/ EndUntracked(w)
  BY <1>2 DEF Tick, boardVars, board, BeginReads, EndReads, EndUntracked
<1>3. CASE \E w \in Works : BeginUntracked(w)
  BY <1>1, <1>3 DEF BeginUntracked, Changed
<1>4. ASSUME NEW w \in Works, BeginTracked(w)
      PROVE  sequence' # sequence /\ active' # active
  <2>1. Len(active') = Len(active) + 1 /\ Len(active) \in Nat
    <3>1. active' = Append(active, EntryOf(w))
      BY <1>4 DEF BeginTracked, EntryOf
    <3> QED BY <1>1, <3>1
  <2> QED BY <1>1, <1>4, <2>1 DEF BeginTracked, Changed
<1>5. ASSUME NEW w \in Works, NEW phase \in Phases, Report(w, phase)
      PROVE  sequence' # sequence /\ active' # active
  <2>1. PICK p \in DOMAIN active :
           active[p].phase # phase /\ active' = [active EXCEPT ![p].phase = phase]
    BY <1>5 DEF Report, Place
  <2>2. active'[p].phase = phase
    <3>1. active[p] \in Entry /\ DOMAIN active = 1 .. Len(active)
      BY <1>1, <2>1, LenProperties
    <3> QED BY <2>1, <3>1 DEF Entry
  <2>3. active' # active
    BY <2>1, <2>2
  <2>4. sequence' = sequence + 1
    BY <1>5 DEF Report, ReportChanges, Changed
  <2> QED BY ONLY <1>1, <2>3, <2>4
<1>6. ASSUME NEW w \in Works, End(w)
      PROVE  sequence' # sequence /\ active' # active
  <2>1. PICK p \in DOMAIN active : active' = Without(p)
    BY <1>6 DEF End, Place
  <2>2. p \in 1 .. Len(active)
    BY <1>1, <2>1, LenProperties
  <2>3. Len(active') = Len(active) - 1 /\ Len(active) \in Nat
    BY <1>1, <2>1, <2>2, Left DEF Without
  <2> QED BY <1>1, <1>6, <2>3 DEF End, Changed
<1> QED BY <1>2, <1>3, <1>4, <1>5, <1>6 DEF BoardNext

LEMMA BoardBegins ==
    ASSUME ActivityAssumption
    PROVE  BoardInit => BoardInv
<1> SUFFICES ASSUME BoardInit PROVE BoardInv
  OBVIOUS
<1> USE DEF BoardInit
<1>1. /\ 0 \in Ticks /\ 1 \in Ids /\ NoEntry \in Guard /\ MaxChanges \in Nat
      /\ MaxActive \in Nat /\ MaxRecent \in Nat
  BY DEF Ticks, Ids, Guard, ActivityAssumption
<1>2. BoardTypeOK
  <2>1. work \in [Works -> [at : {"idle", "beginning", "running", "ending"},
                           guard : Guard, read : Ticks]]
    BY <1>1 DEF Idle
  <2>2. <<>> \in Seq(Entry) /\ <<>> \in Seq(Ended) /\ Len(<<>>) = 0
    OBVIOUS
  <2>3. 0 \in 0 .. MaxChanges /\ 0 <= MaxActive /\ 0 <= MaxRecent
    BY <1>1
  <2> QED BY <1>1, <2>1, <2>2, <2>3 DEF BoardTypeOK
<1>3. Numbered /\ Guarding /\ EntriesAreGuards
  BY DEF Numbered, Guarding, EntriesAreGuards, Idle
<1>4. RecentIsTheLast
  <2>1. <<>> \in Seq(Ended) /\ Len(<<>>) = 0
    OBVIOUS
  <2>2. LongOf(<<>>) = KeptOf(<<>>)[Len(<<>>)]
    BY DEF LongOf, KeptOf
  <2>3. KeptOf(<<>>)[0] = <<>>
    BY <2>1, KeptIs
  <2>4. Len(LongOf(finished)) = 0
    BY <2>1, <2>2, <2>3
  <2> QED BY <1>1, <2>1, <2>4 DEF RecentIsTheLast, ActivityAssumption
<1> QED BY <1>2, <1>3, <1>4 DEF BoardInv

\* Whatever begins, reports and ends in whatever order, the board shows
\* the work that runs and was tracked, its recent list the long work that
\* ended last, and its sequence changes exactly when what it shows does.
THEOREM BoardCorrect ==
    ASSUME ActivityAssumption
    PROVE  BoardSpec => BoardTells
<1>1. BoardInit => BoardInv
  BY BoardBegins
<1>2. BoardInv /\ [BoardNext]_boardVars => BoardInv'
  BY BoardStep
<1>3. BoardInv => BoardTypeOK /\ EntriesAreGuards /\ RecentIsTheLast
  BY DEF BoardInv
<1>4. BoardInv /\ [BoardNext]_boardVars =>
         [sequence' = sequence <=> <<active, recent, untracked>>' =
                                <<active, recent, untracked>>]_boardVars
  BY StepTells
<1> QED BY <1>1, <1>2, <1>3, <1>4, PTL DEF BoardSpec, BoardTells, SequenceTellsChange
===============================================================================
