-------------------------- MODULE CapabilityProofs ---------------------------
(***************************************************************************)
(* What is proved of the work beside the owner: the point worker           *)
(* (PointWorker), the settings of a user's modules (Settings) and the      *)
(* lane of their activations and tasks (Lanes).  They share no state; each *)
(* has its own specification, invariant and theorem.                       *)
(*                                                                         *)
(* PointWorker, for every number of clients, every capacity and every      *)
(* number of calls: the invariant adds to the properties that the sets of  *)
(* calls that wait, are evaluated, were answered and were dropped          *)
(* partition the calls planned; that the queue is in the order of          *)
(* planning, behind the call being evaluated, which is behind every call   *)
(* evaluated before; and that the thread evaluates exactly while it has a  *)
(* call in hand.                                                           *)
(*                                                                         *)
(* Settings, for any number of processes, profiles and endpoints, with a   *)
(* fault or a crash anywhere: the invariant says what is true under the    *)
(* lock, and, of one process alone, by how many changes of its endpoint a  *)
(* consent was passed.                                                     *)
(*                                                                         *)
(* Lanes, for any number of modules, grants and requests and any length    *)
(* of the queue and the ring: the invariant says of the table of jobs that *)
(* its ring, its queue and its running job are exactly its records by      *)
(* status, the queue in the order of the ids behind the running one; of    *)
(* the running job, that it is in one place; and of each module, what its  *)
(* activation and what it has loaded say of the live jobs that load and    *)
(* unload it.  The lemmas about the operations on the table come first,    *)
(* then those about one module, then one for each action.                  *)
(***************************************************************************)
EXTENDS PointWorker, Settings, Lanes, FiniteSetTheorems, SequenceTheorems, TLAPS

Given == [call : Numbers, how : Answers]

Increasing(s) == \A i, j \in DOMAIN s : i < j => s[i] < s[j]

Typed == TypeOK /\ Len(calls) <= MaxCalls

\* The four places hold the planned calls, each in one of them.
Places ==
    /\ Numbered(queue) \union AnsweredCalls \union dropped \subseteq 1 .. Len(calls)
    /\ serving \in 0 .. Len(calls)
    /\ \A n \in 1 .. Len(calls) :
          n \in Numbered(queue) \/ serving = n \/ n \in AnsweredCalls \/ n \in dropped
    /\ Numbered(queue) \intersect AnsweredCalls = {}
    /\ Numbered(queue) \intersect dropped = {}
    /\ AnsweredCalls \intersect dropped = {}
    /\ serving \notin Numbered(queue) \union AnsweredCalls \union dropped

AnsweredOnce ==
    \A i, j \in DOMAIN answered : answered[i].call = answered[j].call => i = j

\* The order of planning is the order of the queue, and what was evaluated
\* comes before what is being evaluated, and that before what waits.
InLine ==
    /\ Increasing(queue)
    /\ \A n \in Numbered(queue) : serving < n
    /\ \A k \in DOMAIN answered : answered[k].how = "value" =>
          /\ serving # None => answered[k].call < serving
          /\ \A n \in Numbered(queue) : answered[k].call < n

Phases ==
    /\ (serving # None) = (thread = "evaluating")
    /\ starting => thread = "none"

IInv ==
    /\ Typed /\ Places /\ AnsweredOnce /\ InLine /\ Phases
    /\ AnsweredInOrder /\ DroppedForCause

-----------------------------------------------------------------------------
\* Sequences.

\* Induction over the naturals.
LEMMA Induction ==
    ASSUME NEW S, 0 \in S, \A n \in Nat : n \in S => n + 1 \in S
    PROVE  Nat \subseteq S
<1> SUFFICES ASSUME NEW n \in Nat, n \notin S PROVE FALSE
  OBVIOUS
<1> DEFINE T == {m \in 0 .. n : m \notin S}
           f == [m \in T |-> m - 1]
           U == {m - 1 : m \in T}
<1>1. IsFiniteSet(T)
  <2>1. IsFiniteSet(0 .. n)
    BY FS_Interval
  <2>2. T \in SUBSET (0 .. n)
    OBVIOUS
  <2> QED BY <2>1, <2>2, FS_Subset
<1>2. \A m \in T : m - 1 \in T
  <2> SUFFICES ASSUME NEW m \in T PROVE m - 1 \in T
    OBVIOUS
  <2>1. m # 0 /\ m \in Nat /\ m - 1 \in Nat /\ m = (m - 1) + 1
    OBVIOUS
  <2>2. m - 1 \notin S
    BY <2>1
  <2> QED BY <2>1, <2>2
<1>3. U \subseteq T
  BY <1>2
<1>4. f \in Bijection(T, U)
  BY DEF Bijection, Injection, Surjection, IsInjective
<1>5. Cardinality(U) = Cardinality(T) /\ IsFiniteSet(U)
  BY <1>1, <1>4, FS_Bijection DEF ExistsBijection
<1>6. U = T
  BY <1>1, <1>3, <1>5, FS_Subset
<1>7. n \in U
  BY <1>6
<1> QED BY <1>7

LEMMA NumberedAppend ==
    ASSUME NEW s \in Seq(Numbers), NEW x \in Numbers
    PROVE  /\ Append(s, x) \in Seq(Numbers) /\ Len(Append(s, x)) = Len(s) + 1
           /\ Numbered(Append(s, x)) = Numbered(s) \union {x}
           /\ (\A n \in Numbered(s) : n < x) /\ Increasing(s) => Increasing(Append(s, x))
<1> DEFINE t == Append(s, x)
<1>1. /\ t \in Seq(Numbers) /\ Len(t) = Len(s) + 1 /\ Len(s) \in Nat
      /\ DOMAIN s = 1 .. Len(s) /\ DOMAIN t = 1 .. Len(t)
      /\ \A i \in 1 .. Len(s) : t[i] = s[i]
      /\ t[Len(s) + 1] = x
  BY AppendProperties, LenProperties
<1> HIDE DEF t
<1>2. Numbered(t) = Numbered(s) \union {x}
  <2>1. \A i \in 1 .. Len(t) : i \in 1 .. Len(s) \/ i = Len(s) + 1
    BY <1>1
  <2>2. Len(s) + 1 \in 1 .. Len(t) /\ \A i \in 1 .. Len(s) : i \in 1 .. Len(t)
    BY <1>1
  <2>3. Numbered(t) \subseteq Numbered(s) \union {x}
    BY <1>1, <2>1 DEF Numbered
  <2>4. Numbered(s) \union {x} \subseteq Numbered(t)
    BY <1>1, <2>2 DEF Numbered
  <2> QED BY <2>3, <2>4
<1>3. ASSUME \A n \in Numbered(s) : n < x, Increasing(s)
      PROVE  Increasing(t)
  <2> SUFFICES ASSUME NEW i \in 1 .. Len(t), NEW j \in 1 .. Len(t), i < j
               PROVE  t[i] < t[j]
    BY <1>1 DEF Increasing
  <2>1. i \in 1 .. Len(s) /\ (j \in 1 .. Len(s) \/ j = Len(s) + 1)
    BY <1>1
  <2>2. s[i] \in Numbered(s)
    BY <1>1, <2>1 DEF Numbered
  <2> QED BY <1>1, <1>3, <2>1, <2>2 DEF Increasing
<1> QED BY <1>1, <1>2, <1>3 DEF t

LEMMA NumberedTail ==
    ASSUME NEW s \in Seq(Numbers), s # <<>>, Increasing(s)
    PROVE  /\ Head(s) \in Numbers /\ Tail(s) \in Seq(Numbers) /\ Len(Tail(s)) <= Len(s)
           /\ Numbered(s) = {Head(s)} \union Numbered(Tail(s))
           /\ \A n \in Numbered(Tail(s)) : Head(s) < n
           /\ Increasing(Tail(s))
<1> DEFINE t == Tail(s)
           h == Head(s)
<1>1. /\ h \in Numbers /\ t \in Seq(Numbers) /\ Len(s) \in Nat \ {0} /\ Len(t) = Len(s) - 1
      /\ DOMAIN s = 1 .. Len(s) /\ DOMAIN t = 1 .. Len(t)
      /\ \A i \in 1 .. Len(t) : t[i] = s[i + 1]
      /\ h = s[1]
  BY HeadTailProperties, LenProperties, EmptySeq
<1> HIDE DEF t, h
<1>2. \A i \in 1 .. Len(t) : i + 1 \in 1 .. Len(s) /\ 1 < i + 1
  BY <1>1
<1>3. Numbered(s) = {h} \union Numbered(t)
  <2>1. \A i \in 1 .. Len(s) : i = 1 \/ (i - 1 \in 1 .. Len(t) /\ t[i - 1] = s[i])
    BY <1>1
  <2>2. Numbered(s) \subseteq {h} \union Numbered(t)
    BY <1>1, <2>1 DEF Numbered
  <2>3. 1 \in 1 .. Len(s)
    BY <1>1
  <2>4. {h} \union Numbered(t) \subseteq Numbered(s)
    BY <1>1, <1>2, <2>3 DEF Numbered
  <2> QED BY <2>2, <2>4
<1>4. \A n \in Numbered(t) : h < n
  <2>1. 1 \in 1 .. Len(s)
    BY <1>1
  <2> QED BY <1>1, <1>2, <2>1 DEF Numbered, Increasing
<1>5. Increasing(t)
  <2> SUFFICES ASSUME NEW i \in 1 .. Len(t), NEW j \in 1 .. Len(t), i < j
               PROVE  t[i] < t[j]
    BY <1>1 DEF Increasing
  <2>1. i + 1 \in 1 .. Len(s) /\ j + 1 \in 1 .. Len(s) /\ i + 1 < j + 1
    BY <1>1
  <2>2. s[i + 1] < s[j + 1]
    BY <1>1, <2>1 DEF Increasing
  <2> QED BY <1>1, <2>2
<1> QED BY <1>1, <1>3, <1>4, <1>5 DEF t, h

\* What is retained of the first i of a list, for each i.
Keeps(list, these, f, n) ==
    \A i \in 0 .. n :
        f[i] = IF i = 0 THEN <<>>
               ELSE IF list[i] \in these THEN f[i - 1] ELSE Append(f[i - 1], list[i])

LEMMA KeptExists ==
    ASSUME NEW n \in Nat, NEW list, NEW these
    PROVE  \E f : f \in [0 .. n -> {f[i] : i \in 0 .. n}] /\ Keeps(list, these, f, n)
<1> DEFINE Has(k, f) == /\ f = [i \in 0 .. k |-> f[i]]
                        /\ Keeps(list, these, f, k)
           S == {k \in Nat : \E f : Has(k, f)}
<1>1. 0 \in S
  <2> DEFINE f == [i \in 0 .. 0 |-> <<>>]
  <2>1. Has(0, f)
    BY DEF Keeps
  <2> QED BY <2>1
<1>2. ASSUME NEW k \in Nat, k \in S PROVE k + 1 \in S
  <2>1. PICK f : Has(k, f)
    BY <1>2
  <2> DEFINE last == IF list[k + 1] \in these THEN f[k] ELSE Append(f[k], list[k + 1])
             g == [i \in 0 .. k + 1 |-> IF i = k + 1 THEN last ELSE f[i]]
  <2>2. \A i \in 0 .. k + 1 : g[i] = IF i = k + 1 THEN last ELSE f[i]
    OBVIOUS
  <2>3. g = [i \in 0 .. k + 1 |-> g[i]]
    OBVIOUS
  <2> HIDE DEF g
  <2>4. Keeps(list, these, g, k + 1)
    <3> SUFFICES ASSUME NEW i \in 0 .. k + 1
                 PROVE  g[i] = IF i = 0 THEN <<>>
                               ELSE IF list[i] \in these THEN g[i - 1]
                               ELSE Append(g[i - 1], list[i])
      BY DEF Keeps
    <3>1. CASE i = k + 1
      <4>1. g[i] = last /\ i # 0 /\ i - 1 = k /\ g[k] = f[k]
        BY <2>2, <3>1
      <4> QED BY <3>1, <4>1
    <3>2. CASE i # k + 1
      <4>1. i \in 0 .. k /\ (i # 0 => i - 1 \in 0 .. k)
        BY <3>2
      <4>2. g[i] = f[i] /\ (i # 0 => g[i - 1] = f[i - 1])
        BY <2>2, <3>2, <4>1
      <4>3. f[i] = IF i = 0 THEN <<>>
                   ELSE IF list[i] \in these THEN f[i - 1] ELSE Append(f[i - 1], list[i])
        BY <2>1, <4>1 DEF Keeps
      <4> QED BY <4>2, <4>3
    <3> QED BY <3>1, <3>2
  <2>5. Has(k + 1, g)
    BY <2>3, <2>4
  <2> QED BY <2>5
<1> HIDE DEF S
<1>3. Nat \subseteq S
  BY <1>1, <1>2, Induction
<1>4. n \in S
  BY <1>3
<1>5. PICK f : Has(n, f)
  BY <1>4 DEF S
<1>6. f \in [0 .. n -> {f[i] : i \in 0 .. n}]
  BY <1>5
<1> QED BY <1>5, <1>6

LEMMA RetainedIs ==
    ASSUME NEW list \in Seq(Numbers), NEW these, Increasing(list)
    PROVE  /\ Retained(list, these) \in Seq(Numbers)
           /\ Len(Retained(list, these)) <= Len(list)
           /\ Numbered(Retained(list, these)) = Numbered(list) \ these
           /\ Increasing(Retained(list, these))
<1> DEFINE n == Len(list)
           t == CHOOSE f : f = [i \in 0 .. Len(list) |->
                    IF i = 0 THEN <<>>
                    ELSE IF list[i] \in these THEN f[i - 1] ELSE Append(f[i - 1], list[i])]
<1>1. Retained(list, these) = t[n]
  BY DEF Retained
<1>2. n \in Nat /\ DOMAIN list = 1 .. n /\ \A i \in 1 .. n : list[i] \in Numbers
  BY LenProperties
<1>3. PICK f : f \in [0 .. n -> {f[i] : i \in 0 .. n}] /\ Keeps(list, these, f, n)
  BY <1>2, KeptExists
<1>4. f = [i \in 0 .. n |-> IF i = 0 THEN <<>>
             ELSE IF list[i] \in these THEN f[i - 1] ELSE Append(f[i - 1], list[i])]
  BY <1>3 DEF Keeps
<1>5. t = [i \in 0 .. n |-> IF i = 0 THEN <<>>
             ELSE IF list[i] \in these THEN t[i - 1] ELSE Append(t[i - 1], list[i])]
  BY ONLY <1>4
<1> HIDE DEF t
<1>6. Keeps(list, these, t, n)
  BY ONLY <1>5 DEF Keeps
<1> DEFINE Part(k) == {list[i] : i \in 1 .. k}
           Good(k) == /\ t[k] \in Seq(Numbers) /\ Len(t[k]) <= k
                      /\ Numbered(t[k]) = Part(k) \ these
                      /\ Increasing(t[k])
           S == {k \in Nat : k <= n => Good(k)}
<1>7. 0 \in S
  <2>1. t[0] = <<>> /\ <<>> \in Seq(Numbers) /\ Len(<<>>) = 0 /\ DOMAIN <<>> = {}
    BY <1>2, <1>6, EmptySeq DEF Keeps
  <2>2. Numbered(<<>>) = {} /\ Increasing(<<>>) /\ Part(0) = {}
    BY <2>1 DEF Numbered, Increasing
  <2>3. Len(t[0]) <= 0 /\ t[0] \in Seq(Numbers)
    BY <2>1
  <2>4. Numbered(t[0]) = Part(0) \ these /\ Increasing(t[0])
    BY <2>1, <2>2
  <2> QED BY <2>3, <2>4
<1>8. ASSUME NEW k \in Nat, k \in S PROVE k + 1 \in S
  <2> SUFFICES ASSUME k + 1 <= n PROVE Good(k + 1)
    OBVIOUS
  <2>1. Good(k) /\ k + 1 \in 1 .. n /\ k + 1 \in 0 .. n /\ (k + 1) - 1 = k /\ k + 1 # 0
    BY <1>2, <1>8
  <2>2. t[k + 1] = IF list[k + 1] \in these THEN t[k] ELSE Append(t[k], list[k + 1])
    BY <2>1, <1>6 DEF Keeps
  <2>3. Part(k + 1) = Part(k) \union {list[k + 1]}
    <3>1. \A i \in 1 .. k + 1 : i \in 1 .. k \/ i = k + 1
      OBVIOUS
    <3>2. k + 1 \in 1 .. k + 1 /\ \A i \in 1 .. k : i \in 1 .. k + 1
      OBVIOUS
    <3> QED BY <3>1, <3>2
  <2>4. \A m \in Part(k) : m < list[k + 1]
    <3> SUFFICES ASSUME NEW i \in 1 .. k PROVE list[i] < list[k + 1]
      OBVIOUS
    <3>1. i \in 1 .. n /\ i < k + 1
      BY <2>1
    <3> QED BY <1>2, <2>1, <3>1 DEF Increasing
  <2> HIDE DEF Part
  <2>5. CASE list[k + 1] \in these
    <3>1. t[k + 1] = t[k]
      BY <2>2, <2>5
    <3>2. Len(t[k]) <= k + 1
      <4>1. Len(t[k]) \in Nat
        BY <2>1, LenProperties
      <4> QED BY <2>1, <4>1
    <3> QED BY <2>1, <2>3, <2>5, <3>1, <3>2
  <2>6. CASE list[k + 1] \notin these
    <3>1. t[k + 1] = Append(t[k], list[k + 1]) /\ list[k + 1] \in Numbers
      BY <1>2, <2>1, <2>2, <2>6
    <3>2. \A m \in Numbered(t[k]) : m < list[k + 1]
      BY <2>1, <2>4
    <3>3. /\ t[k + 1] \in Seq(Numbers) /\ Len(t[k + 1]) = Len(t[k]) + 1
          /\ Numbered(t[k + 1]) = Numbered(t[k]) \union {list[k + 1]}
          /\ Increasing(t[k + 1])
      BY <2>1, <3>1, <3>2, NumberedAppend
    <3>4. Len(t[k + 1]) <= k + 1
      <4>1. Len(t[k]) \in Nat
        BY <2>1, LenProperties
      <4> QED BY <2>1, <3>3, <4>1
    <3> QED BY <2>1, <2>3, <2>6, <3>3, <3>4
  <2> QED BY <2>5, <2>6
<1> HIDE DEF S
<1>9. n \in S
  <2>1. Nat \subseteq S
    BY <1>7, <1>8, Induction
  <2> QED BY <1>2, <2>1
<1> HIDE DEF Good
<1>10. Good(n)
  BY <1>2, <1>9 DEF S
<1> USE DEF Good
<1>11. Part(n) = Numbered(list)
  BY <1>2 DEF Numbered
<1> QED BY <1>1, <1>10, <1>11

LEMMA AnswerGives ==
    ASSUME answered \in Seq(Given), NEW list \in Seq(Numbers), NEW how \in Answers,
           Answer(list, how)
    PROVE  /\ answered' \in Seq(Given)
           /\ Len(answered') = Len(answered) + Len(list)
           /\ \A i \in 1 .. Len(answered) : answered'[i] = answered[i]
           /\ \A i \in 1 .. Len(list) :
                 answered'[Len(answered) + i] = [call |-> list[i], how |-> how]
           /\ AnsweredCalls' = AnsweredCalls \union Numbered(list)
<1> DEFINE more == [i \in DOMAIN list |-> [call |-> list[i], how |-> how]]
<1>1. /\ Len(list) \in Nat /\ DOMAIN list = 1 .. Len(list)
      /\ \A i \in 1 .. Len(list) : list[i] \in Numbers
  BY LenProperties
<1>2. more \in [1 .. Len(list) -> Given]
  BY <1>1 DEF Given
<1>3. more \in Seq(Given) /\ Len(more) = Len(list)
  <2>1. more \in Seq(Given)
    BY <1>1, <1>2, SeqDef
  <2>2. DOMAIN more = 1 .. Len(more) /\ DOMAIN more = 1 .. Len(list) /\ Len(more) \in Nat
    BY <1>1, <2>1, LenProperties
  <2> QED BY <1>1, <2>1, <2>2
<1>4. \A i \in 1 .. Len(list) : more[i] = [call |-> list[i], how |-> how]
  BY <1>1
<1>5. answered' = answered \o more
  BY DEF Answer
<1> HIDE DEF more
<1>6. /\ answered' \in Seq(Given) /\ Len(answered') = Len(answered) + Len(list)
      /\ \A i \in 1 .. Len(answered) + Len(list) :
            answered'[i] = IF i <= Len(answered) THEN answered[i]
                           ELSE more[i - Len(answered)]
  <2>1. /\ answered \o more \in Seq(Given)
        /\ Len(answered \o more) = Len(answered) + Len(more)
        /\ \A i \in 1 .. Len(answered) + Len(more) :
              (answered \o more)[i] = IF i <= Len(answered) THEN answered[i]
                                      ELSE more[i - Len(answered)]
    BY <1>3, ConcatProperties
  <2> QED BY <1>3, <1>5, <2>1
<1>7. Len(answered) \in Nat /\ DOMAIN answered = 1 .. Len(answered)
      /\ DOMAIN answered' = 1 .. Len(answered')
  BY <1>6, LenProperties
<1>8. \A i \in 1 .. Len(answered) : answered'[i] = answered[i] /\ i \in 1 .. Len(answered')
  BY <1>1, <1>6, <1>7
<1>9. ASSUME NEW i \in 1 .. Len(list)
      PROVE  /\ answered'[Len(answered) + i] = [call |-> list[i], how |-> how]
             /\ Len(answered) + i \in 1 .. Len(answered')
  <2>1. /\ Len(answered) + i \in 1 .. Len(answered) + Len(list)
        /\ ~(Len(answered) + i <= Len(answered))
        /\ (Len(answered) + i) - Len(answered) = i
    BY <1>1, <1>7
  <2> QED BY <1>4, <1>6, <2>1
<1>10. \A i \in 1 .. Len(answered') :
          \/ i \in 1 .. Len(answered)
          \/ i - Len(answered) \in 1 .. Len(list) /\ Len(answered) + (i - Len(answered)) = i
  BY <1>1, <1>6, <1>7
<1>11. AnsweredCalls' \subseteq AnsweredCalls \union Numbered(list)
  <2> SUFFICES ASSUME NEW i \in 1 .. Len(answered')
               PROVE  answered'[i].call \in AnsweredCalls \union Numbered(list)
    BY <1>7 DEF AnsweredCalls
  <2>1. CASE i \in 1 .. Len(answered)
    BY <1>7, <1>8, <2>1 DEF AnsweredCalls
  <2>2. CASE i \notin 1 .. Len(answered)
    <3> DEFINE d == i - Len(answered)
    <3>1. d \in 1 .. Len(list) /\ answered'[i] = [call |-> list[d], how |-> how]
      BY <1>9, <1>10, <2>2
    <3> QED BY <1>1, <3>1 DEF Numbered
  <2> QED BY <2>1, <2>2
<1>12. AnsweredCalls \union Numbered(list) \subseteq AnsweredCalls'
  <2>1. ASSUME NEW i \in 1 .. Len(answered) PROVE answered[i].call \in AnsweredCalls'
    BY <1>7, <1>8, <2>1 DEF AnsweredCalls
  <2>2. ASSUME NEW i \in 1 .. Len(list) PROVE list[i] \in AnsweredCalls'
    <3> DEFINE k == Len(answered) + i
    <3>1. answered'[k] = [call |-> list[i], how |-> how] /\ k \in DOMAIN answered'
      BY <1>7, <1>9
    <3> HIDE DEF k
    <3>2. answered'[k].call = list[i]
      BY <3>1
    <3> QED BY <3>1, <3>2 DEF AnsweredCalls
  <2> QED BY <1>1, <1>7, <2>1, <2>2 DEF AnsweredCalls, Numbered
<1> QED BY <1>6, <1>8, <1>9, <1>11, <1>12

-----------------------------------------------------------------------------
\* What the steps have in common.

\* A new answer is no second one, and an evaluated call is answered after
\* those evaluated before.
LEMMA AnswersKept ==
    ASSUME IInv, NEW list \in Seq(Numbers), NEW how \in Answers, Answer(list, how),
           Increasing(list), Numbered(list) \intersect AnsweredCalls = {},
           how = "value" => /\ Len(list) = 1
                            /\ \A k \in DOMAIN answered : answered[k].how = "value" =>
                                  answered[k].call < list[1]
    PROVE  /\ AnsweredOnce' /\ AnsweredInOrder'
           /\ answered' \in Seq(Given)
           /\ AnsweredCalls' = AnsweredCalls \union Numbered(list)
           /\ \A k \in DOMAIN answered' : answered'[k].how = "value" =>
                 \/ k \in DOMAIN answered /\ answered'[k] = answered[k]
                 \/ how = "value" /\ answered'[k].call = list[1]
<1>1. answered \in Seq(Given)
  BY DEF IInv, Typed, TypeOK, Given
<1>2. /\ answered' \in Seq(Given)
      /\ Len(answered') = Len(answered) + Len(list)
      /\ \A i \in 1 .. Len(answered) : answered'[i] = answered[i]
      /\ \A i \in 1 .. Len(list) :
            answered'[Len(answered) + i] = [call |-> list[i], how |-> how]
      /\ AnsweredCalls' = AnsweredCalls \union Numbered(list)
  BY <1>1, AnswerGives
<1> DEFINE m == Len(answered)
<1>3. /\ m \in Nat /\ DOMAIN answered = 1 .. m
      /\ Len(list) \in Nat /\ DOMAIN list = 1 .. Len(list)
      /\ DOMAIN answered' = 1 .. m + Len(list)
      /\ \A i \in 1 .. Len(list) : list[i] \in Nat
  <2>1. Len(answered) \in Nat /\ DOMAIN answered = 1 .. Len(answered)
    BY <1>1, LenProperties
  <2>2. DOMAIN answered' = 1 .. Len(answered')
    BY <1>2, LenProperties
  <2>3. /\ Len(list) \in Nat /\ DOMAIN list = 1 .. Len(list)
        /\ \A i \in 1 .. Len(list) : list[i] \in Numbers
    BY LenProperties
  <2>4. \A n \in Numbers : n \in Nat
    BY DEF Numbers
  <2> QED BY <1>2, <2>1, <2>2, <2>3, <2>4
<1>4. \A k \in 1 .. m + Len(list) :
         \/ k \in 1 .. m
         \/ k - m \in 1 .. Len(list) /\ m + (k - m) = k /\ m < k
  BY <1>3
<1>5. ASSUME NEW k \in 1 .. m + Len(list), k \notin 1 .. m
      PROVE  /\ k - m \in 1 .. Len(list) /\ m < k
             /\ answered'[k].call = list[k - m] /\ answered'[k].how = how
             /\ answered'[k].call \in Numbered(list)
  <2> DEFINE d == k - m
  <2>1. d \in 1 .. Len(list) /\ m + d = k /\ m < k
    BY <1>4, <1>5
  <2> HIDE DEF d, m
  <2>2. answered'[k] = [call |-> list[d], how |-> how]
    BY <1>2, <2>1 DEF m
  <2>3. list[d] \in Numbered(list)
    BY <1>3, <2>1 DEF Numbered
  <2> QED BY <2>1, <2>2, <2>3 DEF d
<1>6. ASSUME NEW k \in 1 .. m
      PROVE  /\ answered'[k] = answered[k] /\ answered[k].call \in AnsweredCalls
             /\ answered'[k].call \notin Numbered(list)
  <2>1. answered[k].call \in AnsweredCalls
    BY <1>3 DEF AnsweredCalls
  <2> QED BY <1>2, <2>1
<1> HIDE DEF m
<1>7. AnsweredOnce'
  <2> SUFFICES ASSUME NEW i \in 1 .. m + Len(list), NEW j \in 1 .. m + Len(list),
                      answered'[i].call = answered'[j].call
               PROVE  i = j
    BY <1>3 DEF AnsweredOnce
  <2>1. CASE i \in 1 .. m /\ j \in 1 .. m
    BY <1>3, <1>6, <2>1 DEF IInv, AnsweredOnce
  <2>2. CASE i \notin 1 .. m /\ j \notin 1 .. m
    <3> DEFINE a == i - m
               b == j - m
    <3>1. a \in 1 .. Len(list) /\ b \in 1 .. Len(list) /\ list[a] = list[b]
      BY <1>5, <2>2
    <3> HIDE DEF a, b
    <3>2. ~(a < b) /\ ~(b < a)
      BY <1>3, <3>1 DEF Increasing
    <3>3. a = b
      BY <1>3, <3>1, <3>2
    <3>4. i - m = j - m
      BY <3>3 DEF a, b
    <3> QED BY <1>3, <3>4
  <2>3. CASE i \in 1 .. m /\ j \notin 1 .. m
    BY <1>5, <1>6, <2>3
  <2>4. CASE i \notin 1 .. m /\ j \in 1 .. m
    BY <1>5, <1>6, <2>4
  <2> QED BY <2>1, <2>2, <2>3, <2>4
<1>8. AnsweredInOrder'
  <2> SUFFICES ASSUME NEW i \in 1 .. m + Len(list), NEW j \in 1 .. m + Len(list), i < j,
                      answered'[i].how = "value", answered'[j].how = "value"
               PROVE  answered'[i].call < answered'[j].call
    BY <1>3 DEF AnsweredInOrder
  <2>1. CASE i \in 1 .. m /\ j \in 1 .. m
    BY <1>3, <1>6, <2>1 DEF IInv, AnsweredInOrder
  <2>2. CASE j \notin 1 .. m
    <3>1. how = "value" /\ Len(list) = 1 /\ j - m \in 1 .. Len(list)
          /\ answered'[j].call = list[j - m]
      BY <1>5, <2>2
    <3>2. j - m = 1
      BY <1>3, <3>1
    <3>3. i \in 1 .. m
      BY <1>3, <3>2
    <3>4. answered'[i] = answered[i] /\ answered[i].call < list[1]
      BY <1>3, <1>6, <3>1, <3>3
    <3> QED BY <3>1, <3>2, <3>4
  <2>3. CASE i \notin 1 .. m /\ j \in 1 .. m
    <3>1. m < i /\ j <= m
      BY <1>3, <1>5, <2>3
    <3> QED BY <1>3, <3>1
  <2> QED BY <2>1, <2>2, <2>3
<1>9. ASSUME NEW k \in DOMAIN answered', answered'[k].how = "value"
      PROVE  \/ k \in DOMAIN answered /\ answered'[k] = answered[k]
             \/ how = "value" /\ answered'[k].call = list[1]
  <2>1. CASE k \in 1 .. m
    BY <1>3, <1>6, <2>1
  <2>2. CASE k \notin 1 .. m
    <3>1. how = "value" /\ Len(list) = 1 /\ k - m \in 1 .. Len(list)
          /\ answered'[k].call = list[k - m]
      BY <1>3, <1>5, <1>9, <2>2
    <3>2. k - m = 1
      BY <1>3, <3>1
    <3> QED BY <3>1, <3>2
  <2> QED BY <2>1, <2>2
<1> QED BY <1>2, <1>7, <1>8, <1>9

\* A planned call gets the next number, which is nowhere yet.
LEMMA PlansNext ==
    ASSUME PointAssumption, IInv, NEW c \in Clients, Plans(c)
    PROVE  LET m == Len(calls) + 1 IN
           /\ m \in Numbers /\ 1 .. m = 1 .. Len(calls) \union {m}
           /\ calls' \in Seq(Clients) /\ Len(calls') = m /\ Len(calls') <= MaxCalls
           /\ \A n \in 1 .. Len(calls) : calls'[n] = calls[n] /\ n < m
           /\ m \notin Numbered(queue) \union AnsweredCalls \union dropped
           /\ serving # m
<1>1. calls \in Seq(Clients) /\ Len(calls) \in Nat /\ Len(calls) < MaxCalls
  BY LenProperties DEF IInv, Typed, TypeOK, Plans
<1>2. MaxCalls \in Nat
  BY DEF PointAssumption
<1>3. /\ calls' \in Seq(Clients) /\ Len(calls') = Len(calls) + 1
      /\ \A n \in 1 .. Len(calls) : calls'[n] = calls[n]
  BY <1>1, AppendProperties DEF Plans
<1>4. Len(calls) + 1 \notin 1 .. Len(calls) /\ Len(calls) + 1 \notin 0 .. Len(calls)
  BY <1>1
<1>5. Len(calls) + 1 \in Numbers /\ Len(calls) + 1 <= MaxCalls
  BY <1>1, <1>2 DEF Numbers
<1>6. 1 .. Len(calls) + 1 = 1 .. Len(calls) \union {Len(calls) + 1}
  BY <1>1
<1>7. \A n \in 1 .. Len(calls) : n < Len(calls) + 1
  BY <1>1
<1> QED BY <1>3, <1>4, <1>5, <1>6, <1>7 DEF IInv, Places

\* The types, as facts to cite.
LEMMA StateFacts ==
    ASSUME PointAssumption, IInv
    PROVE  /\ queue \in Seq(Numbers) /\ Len(queue) \in Nat /\ Len(queue) <= Capacity
           /\ Capacity \in Nat /\ MaxCalls \in Nat
           /\ calls \in Seq(Clients) /\ Len(calls) \in Nat /\ Len(calls) <= MaxCalls
           /\ answered \in Seq(Given)
           /\ dropped \subseteq Numbers /\ serving \in Numbers \union {None}
           /\ gone \subseteq Clients
           /\ stopping \in BOOLEAN /\ starting \in BOOLEAN
           /\ thread \in {"none", "taking", "waiting", "woken", "evaluating", "ended"}
           /\ owner \in {"serving", "stopping", "gone"}
  BY LenProperties DEF PointAssumption, IInv, Typed, TypeOK, Given

LEMMA One ==
    ASSUME NEW n \in Numbers
    PROVE  /\ <<n>> \in Seq(Numbers) /\ Len(<<n>>) = 1 /\ <<n>>[1] = n
           /\ Numbered(<<n>>) = {n} /\ Increasing(<<n>>)
<1>1. <<n>> \in Seq(Numbers) /\ Len(<<n>>) = 1 /\ <<n>>[1] = n
  OBVIOUS
<1>2. DOMAIN <<n>> = {1}
  BY <1>1
<1> QED BY <1>1, <1>2 DEF Numbered, Increasing

-----------------------------------------------------------------------------
\* The steps of the owner.

LEMMA RefusedStep ==
    ASSUME PointAssumption, IInv, NEW c \in Clients, SubmitRefused(c)
    PROVE  IInv'
<1> DEFINE m == Len(calls) + 1
<1>1. /\ m \in Numbers /\ 1 .. m = 1 .. Len(calls) \union {m}
      /\ calls' \in Seq(Clients) /\ Len(calls') = m /\ Len(calls') <= MaxCalls
      /\ \A n \in 1 .. Len(calls) : calls'[n] = calls[n] /\ n < m
      /\ m \notin Numbered(queue) \union AnsweredCalls \union dropped
      /\ serving # m
  BY PlansNext DEF SubmitRefused
<1>2. /\ Answer(<<m>>, "refused")
      /\ UNCHANGED <<queue, stopping, thread, serving, starting, owner, gone, dropped>>
  BY DEF SubmitRefused
<1> HIDE DEF m
<1>3. /\ AnsweredOnce' /\ AnsweredInOrder'
      /\ answered' \in Seq(Given)
      /\ AnsweredCalls' = AnsweredCalls \union {m}
      /\ \A k \in DOMAIN answered' : answered'[k].how = "value" =>
            k \in DOMAIN answered /\ answered'[k] = answered[k]
  <2>1. "refused" \in Answers /\ "refused" # "value"
    BY DEF Answers
  <2>2. <<m>> \in Seq(Numbers) /\ Numbered(<<m>>) = {m} /\ Increasing(<<m>>)
    BY <1>1, One
  <2>3. Numbered(<<m>>) \intersect AnsweredCalls = {}
    BY <1>1, <2>2
  <2> QED BY <1>2, <2>1, <2>2, <2>3, AnswersKept
<1>4. Typed'
  BY <1>1, <1>2, <1>3, StateFacts DEF Typed, TypeOK, Given
<1>5. Places'
  <2>1. 0 .. Len(calls) \subseteq 0 .. Len(calls')
    BY <1>1, StateFacts DEF m
  <2>2. Numbered(queue') = Numbered(queue)
    BY <1>2
  <2>3. /\ Places /\ AnsweredCalls' = AnsweredCalls \union {m}
        /\ serving' = serving /\ dropped' = dropped
    BY ONLY IInv, <1>2, <1>3 DEF IInv
  <2>4. /\ 1 .. Len(calls') = 1 .. Len(calls) \union {m}
        /\ m \notin Numbered(queue) \union AnsweredCalls \union dropped /\ serving # m
    BY ONLY <1>1
  <2> HIDE DEF m
  <2> QED BY ONLY <2>1, <2>2, <2>3, <2>4 DEF Places
<1>6. InLine'
  <2>1. Numbered(queue') = Numbered(queue) /\ (Increasing(queue) => Increasing(queue'))
    BY <1>2
  <2> QED BY <1>2, <1>3, <2>1 DEF IInv, InLine
<1>7. Phases'
  BY <1>2 DEF IInv, Phases
<1>8. DroppedForCause'
  BY <1>1, <1>2 DEF IInv, Places, DroppedForCause
<1> QED BY <1>3, <1>4, <1>5, <1>6, <1>7, <1>8 DEF IInv

LEMMA QueuedStep ==
    ASSUME PointAssumption, IInv, NEW c \in Clients, SubmitQueued(c)
    PROVE  IInv'
<1> DEFINE m == Len(calls) + 1
<1>1. /\ m \in Numbers /\ 1 .. m = 1 .. Len(calls) \union {m}
      /\ calls' \in Seq(Clients) /\ Len(calls') = m /\ Len(calls') <= MaxCalls
      /\ \A n \in 1 .. Len(calls) : calls'[n] = calls[n] /\ n < m
      /\ m \notin Numbered(queue) \union AnsweredCalls \union dropped
      /\ serving # m
  BY PlansNext DEF SubmitQueued
<1>2. /\ queue' = Append(queue, m) /\ Len(queue) < Capacity
      /\ ~starting /\ starting' = (thread = "none")
      /\ thread' = IF thread = "waiting" THEN "woken" ELSE thread
      /\ UNCHANGED <<stopping, serving, owner, gone, answered, dropped>>
  BY StateFacts DEF SubmitQueued, Plans, Full, Notify, PointAssumption
<1> HIDE DEF m
<1>3. \A n \in Numbered(queue) : n < m
  BY <1>1 DEF IInv, Places
<1>4. /\ queue' \in Seq(Numbers) /\ Len(queue') = Len(queue) + 1
      /\ Numbered(queue') = Numbered(queue) \union {m}
      /\ Increasing(queue')
  BY <1>1, <1>2, <1>3, StateFacts, NumberedAppend DEF IInv, InLine
<1>5. AnsweredCalls' = AnsweredCalls
  BY <1>2 DEF AnsweredCalls
<1>6. Typed'
  <2>1. Len(queue') <= Capacity
    BY <1>2, <1>4, StateFacts DEF PointAssumption
  <2> QED BY <1>1, <1>2, <1>4, <2>1, StateFacts DEF Typed, TypeOK, Given
<1>7. Places'
  <2>1. 0 .. Len(calls) \subseteq 0 .. Len(calls')
    BY <1>1, StateFacts DEF m
  <2>2. /\ 1 .. Len(calls') = 1 .. Len(calls) \union {m}
        /\ Numbered(queue)' = Numbered(queue) \union {m}
        /\ AnsweredCalls' = AnsweredCalls /\ dropped' = dropped /\ serving' = serving
    BY <1>1, <1>2, <1>4, <1>5
  <2>3. Places
    BY DEF IInv
  <2>4. serving' \in 0 .. Len(calls')
    BY <2>1, <2>2, <2>3 DEF Places
  <2>5. \A n \in 1 .. Len(calls') :
           n \in Numbered(queue)' \/ serving' = n \/ n \in AnsweredCalls' \/ n \in dropped'
    BY ONLY <2>2, <2>3 DEF Places
  <2>6. /\ (Numbered(queue) \union AnsweredCalls \union dropped)' \subseteq 1 .. Len(calls')
        /\ (Numbered(queue) \intersect AnsweredCalls)' = {}
        /\ (Numbered(queue) \intersect dropped)' = {}
        /\ (AnsweredCalls \intersect dropped)' = {}
        /\ serving' \notin (Numbered(queue) \union AnsweredCalls \union dropped)'
    BY ONLY <1>1, <2>2, <2>3 DEF Places
  <2> QED BY ONLY <2>4, <2>5, <2>6 DEF Places
<1>8. InLine'
  <2>1. serving < m
    BY StateFacts DEF IInv, Places, m
  <2>2. \A k \in DOMAIN answered : answered[k].call < m
    <3>1. \A k \in DOMAIN answered : answered[k].call \in AnsweredCalls
      BY DEF AnsweredCalls
    <3> QED BY <1>1, <3>1 DEF IInv, Places
  <2> QED BY <1>2, <1>4, <2>1, <2>2 DEF IInv, InLine
<1>9. Phases'
  BY <1>2 DEF IInv, Phases
<1>10. AnsweredOnce' /\ AnsweredInOrder'
  BY <1>2 DEF IInv, AnsweredOnce, AnsweredInOrder
<1>11. DroppedForCause'
  BY <1>1, <1>2 DEF IInv, Places, DroppedForCause
<1> QED BY <1>6, <1>7, <1>8, <1>9, <1>10, <1>11 DEF IInv

LEMMA StartsStep ==
    ASSUME PointAssumption, IInv, ThreadStarts
    PROVE  IInv'
<1>1. /\ starting /\ thread = "none" /\ ~starting' /\ thread' = "taking"
      /\ UNCHANGED <<queue, stopping, serving, owner, gone, calls, answered, dropped>>
  BY DEF IInv, Phases, ThreadStarts
<1>2. Typed'
  BY <1>1, StateFacts DEF Typed, TypeOK, Given, ThreadStarts
<1>3. Places' /\ InLine'
  BY <1>1 DEF IInv, Places, InLine, Numbered, AnsweredCalls, Increasing
<1>4. Phases'
  BY <1>1 DEF IInv, Phases
<1>5. AnsweredOnce' /\ AnsweredInOrder' /\ DroppedForCause'
  BY <1>1 DEF IInv, AnsweredOnce, AnsweredInOrder, DroppedForCause
<1> QED BY <1>2, <1>3, <1>4, <1>5 DEF IInv

LEMMA FailsToStartStep ==
    ASSUME PointAssumption, IInv, ThreadFailsToStart
    PROVE  IInv'
<1>1. /\ Answer(queue, "not-started") /\ starting' = FALSE /\ starting
      /\ queue' = <<>>
      /\ UNCHANGED <<stopping, thread, serving, owner, gone, calls, dropped>>
  BY DEF ThreadFailsToStart, LeftQueued
<1>2. Numbered(queue') = {} /\ Increasing(queue') /\ queue' \in Seq(Numbers)
      /\ Len(queue') = 0
  <2>1. queue' \in Seq(Numbers) /\ Len(queue') = 0
    BY <1>1, EmptySeq
  <2>2. DOMAIN queue' = {}
    BY <1>1
  <2> QED BY <2>1, <2>2 DEF Numbered, Increasing
<1>3. /\ AnsweredOnce' /\ AnsweredInOrder'
      /\ answered' \in Seq(Given)
      /\ AnsweredCalls' = AnsweredCalls \union Numbered(queue)
      /\ \A k \in DOMAIN answered' : answered'[k].how = "value" =>
            k \in DOMAIN answered /\ answered'[k] = answered[k]
  <2>1. "not-started" \in Answers /\ "not-started" # "value"
    BY DEF Answers
  <2>2. Increasing(queue) /\ Numbered(queue) \intersect AnsweredCalls = {}
    BY DEF IInv, InLine, Places
  <2> QED BY <1>1, <2>1, <2>2, StateFacts, AnswersKept
<1>4. Typed'
  <2>1. Len(queue') <= Capacity
    BY <1>2, StateFacts
  <2> QED BY <1>1, <1>2, <1>3, <2>1, StateFacts DEF Typed, TypeOK, Given
<1>5. Places'
  BY <1>1, <1>2, <1>3 DEF IInv, Places
<1>6. InLine'
  BY <1>1, <1>2, <1>3 DEF IInv, InLine
<1>7. Phases'
  BY <1>1 DEF IInv, Phases
<1>8. DroppedForCause'
  BY <1>1 DEF IInv, DroppedForCause
<1> QED BY <1>3, <1>4, <1>5, <1>6, <1>7, <1>8 DEF IInv

LEMMA DisconnectStep ==
    ASSUME PointAssumption, IInv, NEW c \in Clients, Disconnect(c)
    PROVE  IInv'
<1>1. /\ gone' = gone \union {c} /\ dropped' = dropped \union Gone(c)
      /\ queue' = Retained(queue, Gone(c))
      /\ UNCHANGED <<stopping, thread, serving, starting, owner, calls, answered>>
  BY DEF Disconnect
<1>2. /\ queue' \in Seq(Numbers) /\ Len(queue') <= Len(queue)
      /\ Numbered(queue') = Numbered(queue) \ Gone(c)
      /\ Increasing(queue')
  BY <1>1, StateFacts, RetainedIs DEF IInv, InLine
<1>3. Gone(c) \subseteq Numbered(queue) /\ \A n \in Gone(c) : calls[n] = c
  BY DEF Gone
<1>4. Numbered(queue) \subseteq Numbers
  BY StateFacts, LenProperties DEF Numbered
<1>5. AnsweredCalls' = AnsweredCalls
  BY <1>1 DEF AnsweredCalls
<1>6. Typed'
  <2>1. Len(queue') <= Capacity
    <3>1. Len(queue') \in Nat
      BY <1>2, LenProperties
    <3> QED BY <1>2, <3>1, StateFacts
  <2>2. dropped' \subseteq Numbers
    BY <1>1, <1>3, <1>4, StateFacts
  <2> QED BY <1>1, <1>2, <2>1, <2>2, StateFacts DEF Typed, TypeOK, Given
<1>7. Places'
  BY <1>1, <1>2, <1>3, <1>5 DEF IInv, Places
<1>8. InLine'
  BY <1>1, <1>2 DEF IInv, InLine
<1>9. Phases'
  BY <1>1 DEF IInv, Phases
<1>10. AnsweredOnce' /\ AnsweredInOrder'
  BY <1>1 DEF IInv, AnsweredOnce, AnsweredInOrder
<1>11. DroppedForCause'
  BY <1>1, <1>3 DEF IInv, DroppedForCause
<1> QED BY <1>6, <1>7, <1>8, <1>9, <1>10, <1>11 DEF IInv

LEMMA StopStep ==
    ASSUME PointAssumption, IInv, Stop
    PROVE  IInv'
<1>1. /\ owner' = "stopping" /\ stopping' = TRUE
      /\ dropped' = dropped \union Numbered(queue) /\ queue' = <<>>
      /\ thread' = IF thread = "waiting" THEN "woken" ELSE thread
      /\ UNCHANGED <<serving, starting, gone, calls, answered>>
  BY DEF Stop, Notify
<1>2. Numbered(queue') = {} /\ Increasing(queue') /\ queue' \in Seq(Numbers)
      /\ Len(queue') = 0
  <2>1. queue' \in Seq(Numbers) /\ Len(queue') = 0
    BY <1>1, EmptySeq
  <2>2. DOMAIN queue' = {}
    BY <1>1
  <2> QED BY <2>1, <2>2 DEF Numbered, Increasing
<1>3. Numbered(queue) \subseteq Numbers
  BY StateFacts, LenProperties DEF Numbered
<1>4. AnsweredCalls' = AnsweredCalls
  BY <1>1 DEF AnsweredCalls
<1>5. Typed'
  <2>1. Len(queue') <= Capacity
    BY <1>2, StateFacts
  <2>2. dropped' \subseteq Numbers
    BY <1>1, <1>3, StateFacts
  <2> QED BY <1>1, <1>2, <2>1, <2>2, StateFacts DEF Typed, TypeOK, Given
<1>6. Places'
  BY <1>1, <1>2, <1>4 DEF IInv, Places
<1>7. InLine'
  BY <1>1, <1>2 DEF IInv, InLine
<1>8. Phases'
  BY <1>1 DEF IInv, Phases
<1>9. AnsweredOnce' /\ AnsweredInOrder'
  BY <1>1 DEF IInv, AnsweredOnce, AnsweredInOrder
<1>10. DroppedForCause'
  BY <1>1 DEF DroppedForCause
<1> QED BY <1>5, <1>6, <1>7, <1>8, <1>9, <1>10 DEF IInv

-----------------------------------------------------------------------------
\* The steps of the thread.

LEMMA TakesStep ==
    ASSUME PointAssumption, IInv, TakesCall
    PROVE  IInv'
<1>1. /\ thread \in {"taking", "woken"} /\ queue # <<>>
      /\ serving' = Head(queue) /\ queue' = Tail(queue) /\ thread' = "evaluating"
      /\ UNCHANGED <<stopping, starting, owner, gone, calls, answered, dropped>>
  BY DEF TakesCall, Taking
<1>2. serving = None /\ ~starting
  BY <1>1 DEF IInv, Phases
<1>3. /\ serving' \in Numbers /\ queue' \in Seq(Numbers) /\ Len(queue') <= Len(queue)
      /\ Numbered(queue) = {serving'} \union Numbered(queue')
      /\ \A n \in Numbered(queue') : serving' < n
      /\ Increasing(queue')
  BY <1>1, StateFacts, NumberedTail DEF IInv, InLine
<1>4. serving' # None /\ serving' \notin Numbered(queue')
  <2>1. serving' \in Nat \ {0}
    BY <1>3 DEF Numbers
  <2>2. ~(serving' < serving')
    BY <2>1
  <2> QED BY <1>3, <2>1, <2>2 DEF None
<1>5. AnsweredCalls' = AnsweredCalls
  BY <1>1 DEF AnsweredCalls
<1>6. Typed'
  <2>1. Len(queue') <= Capacity
    <3>1. Len(queue') \in Nat
      BY <1>3, LenProperties
    <3> QED BY <1>3, <3>1, StateFacts
  <2> QED BY <1>1, <1>3, <2>1, StateFacts DEF Typed, TypeOK, Given
<1>7. Places'
  <2>1. 0 \notin 1 .. Len(calls) /\ \A n \in 1 .. Len(calls) : n \in 0 .. Len(calls)
    BY StateFacts
  <2> QED BY <1>1, <1>2, <1>3, <1>4, <1>5, <2>1 DEF IInv, Places, None
<1>8. InLine'
  BY <1>1, <1>3 DEF IInv, InLine
<1>9. Phases'
  BY <1>1, <1>2, <1>4 DEF Phases
<1>10. AnsweredOnce' /\ AnsweredInOrder'
  BY <1>1 DEF IInv, AnsweredOnce, AnsweredInOrder
<1>11. DroppedForCause'
  BY <1>1 DEF IInv, DroppedForCause
<1> QED BY <1>6, <1>7, <1>8, <1>9, <1>10, <1>11 DEF IInv

LEMMA EvaluatesStep ==
    ASSUME PointAssumption, IInv, Evaluates
    PROVE  IInv'
<1>1. /\ thread = "evaluating" /\ Answer(<<serving>>, "value")
      /\ serving' = None /\ thread' = "taking"
      /\ UNCHANGED <<queue, stopping, starting, owner, gone, calls, dropped>>
  BY DEF Evaluates
<1>2. serving # None /\ serving \in Numbers /\ ~starting
  BY <1>1, StateFacts DEF IInv, Phases
<1>3. /\ AnsweredOnce' /\ AnsweredInOrder'
      /\ answered' \in Seq(Given)
      /\ AnsweredCalls' = AnsweredCalls \union {serving}
      /\ \A k \in DOMAIN answered' : answered'[k].how = "value" =>
            \/ k \in DOMAIN answered /\ answered'[k] = answered[k]
            \/ answered'[k].call = serving
  <2>1. "value" \in Answers
    BY DEF Answers
  <2>2. /\ <<serving>> \in Seq(Numbers) /\ Len(<<serving>>) = 1
        /\ <<serving>>[1] = serving /\ Numbered(<<serving>>) = {serving}
        /\ Increasing(<<serving>>)
    BY <1>2, One
  <2>3. Numbered(<<serving>>) \intersect AnsweredCalls = {}
    BY <2>2 DEF IInv, Places
  <2>4. \A k \in DOMAIN answered : answered[k].how = "value" =>
           answered[k].call < <<serving>>[1]
    BY <1>2, <2>2 DEF IInv, InLine
  <2> QED BY <1>1, <2>1, <2>2, <2>3, <2>4, AnswersKept
<1>4. Numbered(queue') = Numbered(queue) /\ (Increasing(queue) => Increasing(queue'))
  BY <1>1
<1>5. Typed'
  BY <1>1, <1>3, StateFacts DEF Typed, TypeOK, Given
<1>6. Places'
  <2>1. 0 \notin 1 .. Len(calls) /\ 0 \in 0 .. Len(calls)
        /\ \A n \in 0 .. Len(calls) : n # 0 => n \in 1 .. Len(calls)
    BY StateFacts
  <2> QED BY <1>1, <1>2, <1>3, <1>4, <2>1 DEF IInv, Places, None
<1>7. InLine'
  <2>1. \A n \in Numbered(queue) : 0 < n
    <3>1. Numbered(queue) \subseteq Numbers
      BY StateFacts, LenProperties DEF Numbered
    <3> QED BY <3>1 DEF Numbers
  <2> QED BY <1>1, <1>3, <1>4, <2>1 DEF IInv, InLine, None
<1>8. Phases'
  BY <1>1, <1>2 DEF Phases
<1>9. DroppedForCause'
  BY <1>1 DEF IInv, DroppedForCause
<1> QED BY <1>3, <1>5, <1>6, <1>7, <1>8, <1>9 DEF IInv

\* What moves neither a call nor the queue.
LEMMA QuietStep ==
    ASSUME PointAssumption, IInv, Joined \/ Waits \/ WakesUnsignalled \/ Ends \/ UNCHANGED vars
    PROVE  IInv'
<1>1. /\ UNCHANGED <<queue, stopping, serving, starting, gone, calls, answered, dropped>>
      /\ owner' \in {owner, "gone"} /\ (owner = "serving" \/ owner' # "serving")
  BY DEF Joined, Waits, WakesUnsignalled, Ends, vars
<1>2. \/ thread' = thread
      \/ /\ thread \in {"taking", "woken", "waiting"}
         /\ thread' \in {"waiting", "woken", "ended"}
  BY DEF Joined, Waits, WakesUnsignalled, Ends, vars, Taking
<1>3. Typed'
  BY <1>1, <1>2, StateFacts DEF Typed, TypeOK, Given
<1>4. Places' /\ InLine'
  BY <1>1 DEF IInv, Places, InLine, Numbered, AnsweredCalls, Increasing
<1>5. Phases'
  BY <1>1, <1>2 DEF IInv, Phases
<1>6. AnsweredOnce' /\ AnsweredInOrder' /\ DroppedForCause'
  BY <1>1 DEF IInv, AnsweredOnce, AnsweredInOrder, DroppedForCause
<1> QED BY <1>3, <1>4, <1>5, <1>6 DEF IInv

-----------------------------------------------------------------------------
\* The theorem.

LEMMA Initially == ASSUME PointAssumption, Init PROVE IInv
<1>1. /\ Numbered(<<>>) = {} /\ Increasing(<<>>) /\ DOMAIN <<>> = {} /\ Len(<<>>) = 0
  BY DEF Numbered, Increasing
<1>2. <<>> \in Seq(Numbers) /\ <<>> \in Seq(Clients)
      /\ <<>> \in Seq([call : Numbers, how : Answers])
  BY EmptySeq
<1>3. AnsweredCalls = {} /\ 1 .. 0 = {} /\ 0 .. 0 = {0}
  BY DEF Init, AnsweredCalls
<1>4. 0 <= Capacity /\ 0 <= MaxCalls
  BY DEF PointAssumption
<1>5. Typed
  BY <1>1, <1>2, <1>4 DEF Init, Typed, TypeOK, None
<1>6. Places /\ InLine
  BY <1>1, <1>3 DEF Init, Places, InLine, None
<1>7. AnsweredOnce /\ AnsweredInOrder /\ Phases /\ DroppedForCause
  BY <1>1 DEF Init, AnsweredOnce, AnsweredInOrder, Phases, DroppedForCause, None
<1> QED BY <1>5, <1>6, <1>7 DEF IInv

LEMMA Step == ASSUME PointAssumption, IInv, [Next]_vars PROVE IInv'
<1>1. ASSUME NEW c \in Clients, SubmitRefused(c) \/ SubmitQueued(c) \/ Disconnect(c)
      PROVE  IInv'
  BY <1>1, RefusedStep, QueuedStep, DisconnectStep
<1>2. CASE Start \/ Stop \/ Joined \/ Work \/ WakesUnsignalled
  BY <1>2, StartsStep, FailsToStartStep, StopStep, TakesStep, EvaluatesStep, QuietStep
     DEF Start, Work
<1>3. CASE UNCHANGED vars
  BY <1>3, QuietStep
<1> QED BY <1>1, <1>2, <1>3 DEF Next

\* A planned call is in one place only, so it counts once.
LEMMA OnePlace == ASSUME PointAssumption, IInv PROVE EveryCallInOnePlace
<1>1. \A i, j \in DOMAIN answered : answered[i].call = answered[j].call => i = j
  BY DEF IInv, AnsweredOnce
<1>2. ASSUME NEW i \in DOMAIN queue, NEW j \in DOMAIN queue, queue[i] = queue[j]
      PROVE  i = j
  <2>1. i \in Nat /\ j \in Nat /\ queue[i] \in Nat
    <3>1. queue \in Seq(Numbers)
      BY StateFacts
    <3>2. DOMAIN queue = 1 .. Len(queue) /\ queue[i] \in Numbers
      BY <3>1, LenProperties
    <3> QED BY <3>2 DEF Numbers
  <2>2. ~(i < j) /\ ~(j < i)
    BY <1>2, <2>1 DEF IInv, InLine, Increasing
  <2> QED BY <2>1, <2>2
<1>3. ASSUME NEW n \in DOMAIN calls
      PROVE  LET places == {p \in {"waits", "evaluated", "answered", "dropped"} :
                     \/ p = "waits" /\ n \in Numbered(queue)
                     \/ p = "evaluated" /\ serving = n
                     \/ p = "answered" /\ n \in AnsweredCalls
                     \/ p = "dropped" /\ n \in dropped}
             IN  Cardinality(places) = 1
  <2> DEFINE places == {p \in {"waits", "evaluated", "answered", "dropped"} :
                     \/ p = "waits" /\ n \in Numbered(queue)
                     \/ p = "evaluated" /\ serving = n
                     \/ p = "answered" /\ n \in AnsweredCalls
                     \/ p = "dropped" /\ n \in dropped}
  <2>1. n \in 1 .. Len(calls)
    <3>1. calls \in Seq(Clients)
      BY StateFacts
    <3> QED BY <3>1, LenProperties
  <2>2. \E p : places = {p}
    <3>1. CASE n \in Numbered(queue)
      <4>1. places = {"waits"}
        BY <3>1 DEF IInv, Places
      <4> QED BY <4>1
    <3>2. CASE serving = n
      <4>1. places = {"evaluated"}
        BY <3>2 DEF IInv, Places
      <4> QED BY <4>1
    <3>3. CASE n \in AnsweredCalls
      <4>1. places = {"answered"}
        BY <3>3 DEF IInv, Places
      <4> QED BY <4>1
    <3>4. CASE n \in dropped
      <4>1. places = {"dropped"}
        BY <3>4 DEF IInv, Places
      <4> QED BY <4>1
    <3> QED BY <2>1, <3>1, <3>2, <3>3, <3>4 DEF IInv, Places
  <2> HIDE DEF places
  <2>3. Cardinality(places) = 1
    BY <2>2, FS_Singleton
  <2> QED BY <2>3 DEF places
<1> QED BY <1>1, <1>2, <1>3 DEF EveryCallInOnePlace

\* Every call is typed, in exactly one place, answered in order if it was
\* evaluated, and dropped only for its own client's leaving or the stop.
THEOREM PointsCorrect == ASSUME PointAssumption PROVE Spec => []PointsAnswered
<1>1. IInv /\ [Next]_vars => IInv'
  BY Step
<1>2. IInv => PointsAnswered
  BY OnePlace DEF IInv, Typed, PointsAnswered
<1> QED BY <1>1, <1>2, Initially, PTL DEF Spec
-----------------------------------------------------------------------------
\* The settings.

Consents == [profile : Profiles, endpoint : Endpoints, given : Nat, live : BOOLEAN]

Busy == {"lock", "apply", "write"}
Pending == {h \in Hosts : host[h].at \in Busy}

\* The values have their types; a request in hand is a request, and a
\* process that has read under the lock has read what the file holds.
SettingsTyped ==
    /\ document \in [revision : Nat, endpoint : [Profiles -> Endpoints \union {Unset, Missing}]]
    /\ host = [h \in Hosts |-> host[h]] /\ created \subseteq Profiles
    /\ moved \in [Profiles -> Nat] /\ committed \in Seq(Nat)
    /\ writes \in 0 .. MaxWrites /\ faults \in 0 .. MaxFaults /\ lost \in 0 .. faults
    /\ grants \in Seq(Consents)

InHandOf(h) ==
    /\ host[h].at \in Busy \union {"revoke"} =>
          host[h].req \in Requests /\ host[h].req.profile \in created
    /\ host[h].at \in {"apply", "write"} => host[h].read = document
    /\ host[h].at \in {"grant", "task"} =>
          host[h].profile \in Profiles /\ host[h].endpoint \in Endpoints

\* Who reads or writes under the lock holds it.
Stages == {"idle", "lock", "apply", "write", "failed", "revoke", "grant", "task"}

Locked ==
    /\ lock \in Hosts \union {NoOne} /\ secrets \subseteq Profiles /\ outdated \in BOOLEAN
    /\ \A h \in Hosts : host[h].at \in Stages /\ (host[h].at \in {"apply", "write"} <=> lock = h)

\* Every revision that is written or may still be is a request's.
Accounted ==
    IsFiniteSet(Pending) /\ document.revision + Cardinality(Pending) <= writes

\* The secrets a change takes are gone before the file tells.
Cleared(h) ==
    host[h].at = "write" =>
       /\ host[h].req.kind = "remove" => host[h].req.profile \notin secrets
       /\ host[h].req.kind = "reset" => secrets = {}

\* Of one process alone: what a check has read still stands...
Single == \A h, other \in Hosts : h = other

Current(h) ==
    /\ host[h].at \in {"grant", "task"} =>
          host[h].endpoint = document.endpoint[host[h].profile]
    /\ host[h].at = "task" => host[h].moved = moved[host[h].profile]

\* ... a profile that is not there yet has no endpoint and no consent...
Unborn(q) == document.endpoint[q] = Missing /\ \A i \in DOMAIN grants : grants[i].profile # q

NewOnes(h) ==
    /\ \A q \in Profiles \ created : Unborn(q)
    /\ host[h].at \in Busy /\ host[h].req.kind = "create" => Unborn(host[h].req.profile)

\* ... and a consent that lives was passed by as many changes as were
\* lost, and by the one whose revocation comes next.
Due(h, g) ==
    IF host[h].at = "revoke" /\ (host[h].req.kind = "reset" \/ g.profile = host[h].req.profile)
      THEN 1 ELSE 0

Passed(h, g) ==
    g.live =>
       /\ g.given <= moved[g.profile]
       /\ moved[g.profile] = g.given => document.endpoint[g.profile] = g.endpoint
       /\ moved[g.profile] = g.given + 1 => document.endpoint[g.profile] # g.endpoint
       /\ moved[g.profile] <= g.given + lost + Due(h, g)

Consented ==
    Single => \A h \in Hosts :
       Current(h) /\ NewOnes(h) /\ \A i \in DOMAIN grants : Passed(h, grants[i])

SettingsInv ==
    /\ SettingsTyped /\ Locked /\ Accounted /\ NoWriteLost /\ NoOrphanSecret
    /\ Consented /\ OneLossIsHarmless
    /\ \A h \in Hosts : InHandOf(h) /\ Cleared(h)

\* What a process may do next.
Works(h) ==
    \/ \E req \in Requests : Ask(h, req)
    \/ Lock(h) \/ Refuse(h) \/ Apply(h) \/ SecretsFail(h)
    \/ Write(h) \/ WriteFails(h) \/ Reported(h)
    \/ Revoke(h) \/ RevokeFails(h)
    \/ (\E q \in Profiles : CheckScope(h, q) \/ TaskReads(h, q))
    \/ RecordGrant(h) \/ TaskConsent(h)
    \/ Crash(h)

LEMMA WorksAre ==
    ASSUME [SettingsNext]_settingsVars
    PROVE  (\E h \in Hosts : Works(h)) \/ UNCHANGED settingsVars
  BY DEF SettingsNext, Works, Done

\* The fields of a request.
LEMMA RequestsAre ==
    ASSUME NEW req \in Requests
    PROVE  /\ req.kind \in {"set", "create", "secret", "clear", "remove", "reset"}
           /\ req.profile \in Profiles /\ req.value \in Endpoints \union {Unset}
           /\ req.kind # "set" => req.value = Unset
  BY DEF Requests

\* What a write makes of the document.
LEMMA ChangedIs ==
    ASSUME SettingsAssumption, NEW doc, NEW req \in Requests,
           doc.endpoint \in [Profiles -> Endpoints \union {Unset, Missing}]
    PROVE  /\ Changed(doc, req) \in [Profiles -> Endpoints \union {Unset, Missing}]
           /\ \A q \in Profiles :
                 /\ req.kind \in {"secret", "clear"} => Changed(doc, req)[q] = doc.endpoint[q]
                 /\ req.kind = "reset" => Changed(doc, req)[q] = Missing
                 /\ q # req.profile /\ req.kind # "reset" => Changed(doc, req)[q] = doc.endpoint[q]
                 /\ req.kind = "remove" /\ q = req.profile => Changed(doc, req)[q] = Missing
                 /\ req.kind \in {"set", "create"} /\ q = req.profile =>
                       Changed(doc, req)[q] \in Endpoints \union {Unset}
<1>1. req.kind \in {"set", "create", "secret", "clear", "remove", "reset"}
      /\ req.profile \in Profiles /\ req.value \in Endpoints \union {Unset}
  BY RequestsAre
<1>2. CASE req.kind \in {"set", "create"}
  <2>1. Changed(doc, req) = [doc.endpoint EXCEPT ![req.profile] = req.value]
    BY <1>2 DEF Changed
  <2> QED BY <1>1, <1>2, <2>1
<1>3. CASE req.kind = "remove"
  <2>1. Changed(doc, req) = [doc.endpoint EXCEPT ![req.profile] = Missing]
    BY <1>3 DEF Changed
  <2> QED BY <1>1, <1>3, <2>1
<1>4. CASE req.kind = "reset"
  <2>1. Changed(doc, req) = [q \in Profiles |-> Missing]
    BY <1>4 DEF Changed
  <2> QED BY <1>1, <1>4, <2>1
<1>5. CASE req.kind \in {"secret", "clear"}
  <2>1. Changed(doc, req) = doc.endpoint
    BY <1>5 DEF Changed
  <2> QED BY <1>1, <1>5, <2>1
<1> QED BY <1>1, <1>2, <1>3, <1>4, <1>5

\* A step is of one process.
LEMMA OneMoves ==
    ASSUME NEW h \in Hosts, Works(h), host = [g \in Hosts |-> host[g]]
    PROVE  /\ host' = [g \in Hosts |-> host'[g]]
           /\ \A g \in Hosts : g # h => host'[g] = host[g]
<1>1. \E r : host' = [host EXCEPT ![h] = r]
  BY DEF Works, Ask, Lock, Refuse, Apply, SecretsFail, Write, WriteFails, Reported, Revoke,
         RevokeFails, CheckScope, TaskReads, RecordGrant, TaskConsent, Crash, Release
<1> QED BY <1>1

\* A list of which each member is changed.
LEMMA EachOf ==
    ASSUME NEW S, NEW T, NEW s \in Seq(S), NEW F(_), \A x \in S : F(x) \in T
    PROVE  [i \in DOMAIN s |-> F(s[i])] \in Seq(T)
<1>1. Len(s) \in Nat /\ DOMAIN s = 1 .. Len(s) /\ \A i \in 1 .. Len(s) : s[i] \in S
  BY LenProperties
<1>2. [i \in DOMAIN s |-> F(s[i])] \in [1 .. Len(s) -> T]
  BY <1>1
<1> QED BY <1>1, <1>2, SeqDef

LEMMA StepTyped ==
    ASSUME SettingsAssumption, SettingsTyped, NEW h \in Hosts, InHandOf(h), Works(h)
    PROVE  SettingsTyped'
<1> USE DEF SettingsTyped
<1>h. host' = [g \in Hosts |-> host'[g]]
  BY OneMoves
<1>e. document.endpoint \in [Profiles -> Endpoints \union {Unset, Missing}]
      /\ document.revision \in Nat
  OBVIOUS
<1>1. ASSUME NEW req \in Requests, Ask(h, req) PROVE SettingsTyped'
  <2>1. req.profile \in Profiles
    BY RequestsAre
  <2>2. writes' \in 0 .. MaxWrites
    BY <1>1 DEF Ask, SettingsAssumption
  <2> QED BY <1>1, <1>h, <2>1, <2>2 DEF Ask, shared, ghosts
<1>2. CASE Lock(h) \/ Refuse(h) \/ Apply(h) \/ Reported(h) \/ TaskConsent(h)
           \/ \E q \in Profiles : CheckScope(h, q) \/ TaskReads(h, q)
  BY <1>2, <1>h DEF Lock, Refuse, Apply, Reported, CheckScope, TaskReads, TaskConsent, shared, ghosts
<1>f. ASSUME Fault, lost' \in {lost, lost + 1} PROVE faults' \in 0 .. MaxFaults /\ lost' \in 0 .. faults'
  <2>1. faults' = faults + 1 /\ faults < MaxFaults /\ MaxFaults \in Nat
        /\ faults \in 0 .. MaxFaults /\ lost \in 0 .. faults
    BY <1>f DEF Fault, SettingsAssumption
  <2> QED BY ONLY <2>1, <1>f
<1>3. CASE SecretsFail(h)
  <2>1. Fault /\ lost' \in {lost, lost + 1}
    BY <1>3 DEF SecretsFail, ghosts
  <2> QED BY <1>3, <1>h, <1>f, <2>1 DEF SecretsFail, ghosts
<1>8. CASE RevokeFails(h)
  <2>1. Fault /\ lost' \in {lost, lost + 1}
    BY <1>8 DEF RevokeFails
  <2> QED BY <1>8, <1>h, <1>f, <2>1 DEF RevokeFails, shared
<1>9. CASE Crash(h)
  <2>1. Fault /\ lost' \in {lost, lost + 1}
    BY <1>9 DEF Crash
  <2> QED BY <1>9, <1>h, <1>f, <2>1 DEF Crash
<1>s. ASSUME Saves(h), host[h].at = "write" PROVE
        /\ document' \in [revision : Nat, endpoint : [Profiles -> Endpoints \union {Unset, Missing}]]
        /\ moved' \in [Profiles -> Nat] /\ document'.revision = document.revision + 1
  <2>1. host[h].read = document /\ host[h].req \in Requests
    BY <1>s DEF InHandOf, Busy
  <2>2. Changed(document, host[h].req) \in [Profiles -> Endpoints \union {Unset, Missing}]
    BY <2>1, <1>e, ChangedIs
  <2> QED BY <1>s, <1>e, <2>1, <2>2 DEF Saves
<1>4. CASE Write(h)
  <2>1. committed' \in Seq(Nat)
    <3>1. host[h].read = document
      BY <1>4 DEF Write, InHandOf
    <3>2. committed' = Append(committed, document.revision + 1)
      BY <1>4, <3>1 DEF Write
    <3> QED BY <1>e, <3>2, AppendProperties
  <2> QED BY <1>4, <1>h, <1>s, <2>1 DEF Write
<1>5. CASE WriteFails(h)
  <2>1. Fault /\ lost' \in {lost, lost + 1}
    BY <1>5 DEF WriteFails
  <2> QED BY <1>5, <1>h, <1>f, <1>s, <2>1 DEF WriteFails
<1>6. CASE Revoke(h)
  <2>1. \A g \in Consents : Revoked(g, host[h].req) \in Consents
    BY DEF Revoked, Consents
  <2>2. grants' \in Seq(Consents)
    BY <1>6, <2>1, EachOf DEF Revoke
  <2> QED BY <1>6, <1>h, <2>2 DEF Revoke, ghosts
<1>7. CASE RecordGrant(h)
  <2>1. Grant(host[h].profile, host[h].endpoint) \in Consents
    BY <1>7 DEF RecordGrant, InHandOf, Grant, Consents
  <2>2. grants' = grants \/ grants' = Append(grants, Grant(host[h].profile, host[h].endpoint))
    BY <1>7 DEF RecordGrant
  <2>a. \A r \in Consents : Append(grants, r) \in Seq(Consents)
    BY AppendProperties
  <2>3. grants' \in Seq(Consents)
    BY <2>1, <2>2, <2>a
  <2> QED BY <1>7, <1>h, <2>3 DEF RecordGrant, ghosts
<1> QED BY <1>1, <1>2, <1>3, <1>4, <1>5, <1>6, <1>7, <1>8, <1>9 DEF Works


\* Where a step leaves its process.
LEMMA NextStages ==
    ASSUME NEW h \in Hosts, Works(h), host = [g \in Hosts |-> host[g]]
    PROVE  /\ host'[h].at \in Stages
           /\ host'[h].at = "lock" => host[h].at = "idle"
           /\ host'[h].at = "apply" => Lock(h)
           /\ host'[h].at = "write" => Apply(h)
           /\ host'[h].at = "revoke" => Write(h)
           /\ host'[h].at = "grant" => \E q \in Profiles : CheckScope(h, q)
           /\ host'[h].at = "task" => \E q \in Profiles : TaskReads(h, q)
  BY DEF Works, Ask, Lock, Refuse, Apply, SecretsFail, Write, WriteFails, Reported, Revoke,
         RevokeFails, CheckScope, TaskReads, RecordGrant, TaskConsent, Crash, Release, Idle, Stages

LEMMA StepLocked ==
    ASSUME SettingsAssumption, SettingsTyped, Locked, NEW h \in Hosts, InHandOf(h), Works(h)
    PROVE  Locked'
<1>h. /\ host = [g \in Hosts |-> host[g]] /\ host' = [g \in Hosts |-> host'[g]]
      /\ \A g \in Hosts : g # h => host'[g] = host[g]
  BY OneMoves DEF SettingsTyped
<1>l. /\ lock \in Hosts \union {NoOne} /\ NoOne \notin Hosts
      /\ \A g \in Hosts : host[g].at \in {"apply", "write"} <=> lock = g
  BY DEF Locked, SettingsAssumption
<1>s. host'[h].at \in Stages
  BY <1>h, NextStages
<1>1. lock' \in Hosts \union {NoOne}
      /\ \A g \in Hosts : host'[g].at \in {"apply", "write"} <=> lock' = g
  <2>1. CASE UNCHANGED lock /\ (host'[h].at \in {"apply", "write"} <=> host[h].at \in {"apply", "write"})
    BY <1>h, <1>l, <2>1
  <2>2. CASE lock = NoOne /\ lock' = h /\ host'[h].at = "apply"
    BY <1>h, <1>l, <2>2
  <2>3. CASE lock = h /\ lock' = NoOne /\ host'[h].at \notin {"apply", "write"}
    BY <1>h, <1>l, <2>3
  <2>4. ASSUME Lock(h) PROVE lock = NoOne /\ lock' = h /\ host'[h].at = "apply"
    BY <1>h, <2>4 DEF Lock
  <2>5. ASSUME Refuse(h) \/ SecretsFail(h) \/ Write(h) \/ WriteFails(h)
        PROVE  lock = h /\ lock' = NoOne /\ host'[h].at \notin {"apply", "write"}
    BY <1>h, <1>l, <2>5 DEF Refuse, SecretsFail, Write, WriteFails, Release, Idle
  <2>6. CASE Apply(h)
    <3>1. lock = h
      BY <1>l, <2>6 DEF Apply
    <3>2. CASE NoOp(host[h].read, host[h].req)
      <4>1. lock' = NoOne /\ host'[h] = Idle
        BY <1>h, <2>6, <3>2 DEF Apply, Release
      <4> QED BY <2>3, <3>1, <4>1 DEF Idle
    <3>3. CASE ~NoOp(host[h].read, host[h].req)
      <4>1. UNCHANGED lock /\ host'[h].at = "write" /\ host[h].at = "apply"
        BY <1>h, <2>6, <3>3 DEF Apply
      <4> QED BY <2>1, <4>1
    <3> QED BY <3>2, <3>3
  <2>7. CASE Crash(h)
    <3>1. host'[h] = Idle /\ lock' = IF lock = h THEN NoOne ELSE lock
      BY <1>h, <2>7 DEF Crash
    <3> QED BY <1>h, <1>l, <3>1 DEF Idle
  <2>8. ASSUME \/ \E req \in Requests : Ask(h, req)
               \/ Reported(h) \/ Revoke(h) \/ RevokeFails(h) \/ RecordGrant(h) \/ TaskConsent(h)
               \/ \E q \in Profiles : CheckScope(h, q) \/ TaskReads(h, q)
        PROVE  UNCHANGED lock /\ host'[h].at \notin {"apply", "write"} /\ host[h].at \notin {"apply", "write"}
    BY <1>h, <2>8 DEF Ask, Reported, Revoke, RevokeFails, RecordGrant, TaskConsent, CheckScope,
                      TaskReads, shared, Idle
  <2> QED BY <2>1, <2>2, <2>3, <2>4, <2>5, <2>6, <2>7, <2>8 DEF Works
<1>2. secrets' \subseteq Profiles /\ outdated' \in BOOLEAN
  <2>1. secrets \subseteq Profiles /\ outdated \in BOOLEAN
    BY DEF Locked
  <2>2. CASE Apply(h)
    <3>1. host[h].req \in Requests
      BY <2>2 DEF Apply, InHandOf, Busy
    <3>2. host[h].req.profile \in Profiles
      BY <3>1, RequestsAre
    <3> QED BY <2>1, <2>2, <3>2 DEF Apply, SecretsAfter, ghosts
  <2>3. CASE SecretsFail(h) \/ TaskConsent(h)
    BY <2>1, <2>3 DEF SecretsFail, TaskConsent, shared, ghosts
  <2>4. CASE ~Apply(h) /\ ~SecretsFail(h) /\ ~TaskConsent(h)
    BY <2>1, <2>4 DEF Works, Ask, Lock, Refuse, Write, WriteFails, Reported, Revoke, RevokeFails,
                      CheckScope, TaskReads, RecordGrant, Crash, shared, ghosts
  <2> QED BY <2>2, <2>3, <2>4
<1> QED BY <1>h, <1>s, <1>1, <1>2 DEF Locked

\* The file changes only under the lock.
LEMMA OnlyWrites ==
    ASSUME NEW h \in Hosts, Works(h), ~(host[h].at = "write" /\ (Write(h) \/ WriteFails(h)))
    PROVE  UNCHANGED <<document, moved, committed>>
  BY DEF Works, Ask, Lock, Refuse, Apply, SecretsFail, Write, WriteFails, Reported, Revoke,
         RevokeFails, CheckScope, TaskReads, RecordGrant, TaskConsent, Crash, shared, ghosts

LEMMA StepInHand ==
    ASSUME SettingsAssumption, SettingsTyped, Locked, \A g \in Hosts : InHandOf(g),
           NEW h \in Hosts, Works(h)
    PROVE  \A g \in Hosts : InHandOf(g)'
<1>h. /\ host = [g \in Hosts |-> host[g]] /\ host' = [g \in Hosts |-> host'[g]]
      /\ \A g \in Hosts : g # h => host'[g] = host[g]
  BY OneMoves DEF SettingsTyped
<1>c. created \subseteq created'
  BY DEF Works, Ask, Lock, Refuse, Apply, SecretsFail, Write, WriteFails, Reported, Revoke,
         RevokeFails, CheckScope, TaskReads, RecordGrant, TaskConsent, Crash
<1>1. ASSUME NEW g \in Hosts, g # h PROVE InHandOf(g)'
  <2>1. host'[g] = host[g] /\ InHandOf(g)
    BY <1>1, <1>h
  <2>2. host[g].at \in {"apply", "write"} => document' = document
    <3>1. SUFFICES ASSUME host[g].at \in {"apply", "write"} PROVE document' = document
      OBVIOUS
    <3>2. host[h].at # "write"
      BY <1>1, <3>1 DEF Locked
    <3> QED BY <3>2, OnlyWrites
  <2> QED BY <1>c, <2>1, <2>2 DEF InHandOf
<1>2. InHandOf(h)'
  <2>1. CASE \E req \in Requests : Ask(h, req)
    BY <1>h, <2>1 DEF Ask, InHandOf, Busy
  <2>2. CASE host'[h].at = "apply"
    <3>1. Lock(h)
      BY <1>h, <2>2, NextStages
    <3>2. host'[h].req = host[h].req /\ host'[h].read = document /\ host[h].at = "lock"
          /\ UNCHANGED <<document, created>>
      BY <1>h, <3>1 DEF Lock
    <3> QED BY <2>2, <3>2 DEF InHandOf, Busy
  <2>3. CASE host'[h].at = "write"
    <3>1. Apply(h)
      BY <1>h, <2>3, NextStages
    <3>2. host'[h].req = host[h].req /\ host'[h].read = host[h].read /\ host[h].at = "apply"
          /\ UNCHANGED <<document, created>>
      BY <1>h, <2>3, <3>1 DEF Apply, Release, Idle
    <3> QED BY <2>3, <3>2 DEF InHandOf, Busy
  <2>4. CASE host'[h].at = "revoke"
    <3>1. Write(h)
      BY <1>h, <2>4, NextStages
    <3>2. host'[h].req = host[h].req /\ host[h].at = "write" /\ UNCHANGED created
      BY <1>h, <2>4, <3>1 DEF Write, Idle
    <3> QED BY <2>4, <3>2 DEF InHandOf, Busy
  <2>5. CASE host'[h].at \in {"grant", "task"}
    <3>1. PICK q \in Profiles : CheckScope(h, q) \/ TaskReads(h, q)
      BY <1>h, <2>5, NextStages
    <3>2. host'[h].profile = q /\ host'[h].endpoint = document.endpoint[q]
          /\ document.endpoint[q] \in Endpoints
      BY <1>h, <3>1 DEF CheckScope, TaskReads
    <3> QED BY <2>5, <3>2 DEF InHandOf, Busy
  <2>6. CASE host'[h].at \in {"idle", "failed"}
    BY <2>6 DEF InHandOf, Busy
  <2>7. host'[h].at = "lock" => \E req \in Requests : Ask(h, req)
    BY <1>h DEF Works, Ask, Lock, Refuse, Apply, SecretsFail, Write, WriteFails, Reported, Revoke,
         RevokeFails, CheckScope, TaskReads, RecordGrant, TaskConsent, Crash, Release, Idle
  <2>8. host'[h].at \in Stages
    BY <1>h, NextStages
  <2> QED BY <2>1, <2>2, <2>3, <2>4, <2>5, <2>6, <2>7, <2>8 DEF Stages
<1> QED BY <1>1, <1>2


\* A revision is used by the request that had it in hand.
LEMMA StepAccounted ==
    ASSUME SettingsAssumption, SettingsTyped, Locked, Accounted, NEW h \in Hosts, InHandOf(h), Works(h)
    PROVE  Accounted'
<1>h. /\ host = [g \in Hosts |-> host[g]] /\ host' = [g \in Hosts |-> host'[g]]
      /\ \A g \in Hosts : g # h => host'[g] = host[g]
  BY OneMoves DEF SettingsTyped
<1>t. document.revision \in Nat /\ writes \in Nat
  BY DEF SettingsTyped, SettingsAssumption
<1>f. IsFiniteSet(Pending) /\ document.revision + Cardinality(Pending) <= writes
  BY DEF Accounted
<1>n. Cardinality(Pending) \in Nat
  BY <1>f, FS_CardinalityType
<1>1. CASE \E req \in Requests : Ask(h, req)
  <2>1. h \notin Pending /\ Pending' = Pending \union {h} /\ writes' = writes + 1
        /\ document' = document
    BY <1>h, <1>1 DEF Ask, Pending, Busy, Idle, shared
  <2>2. IsFiniteSet(Pending \union {h}) /\ Cardinality(Pending \union {h}) = Cardinality(Pending) + 1
    BY <1>f, <2>1, FS_AddElement
  <2>3. IsFiniteSet(Pending') /\ Cardinality(Pending') = Cardinality(Pending) + 1
    BY <2>1, <2>2
  <2>4. document.revision + (Cardinality(Pending) + 1) <= writes + 1
    BY <1>t, <1>f, <1>n
  <2> QED BY <2>1, <2>3, <2>4 DEF Accounted
<1>2. CASE UNCHANGED <<document, writes>> /\ (h \in Pending' => h \in Pending)
  <2>1. Pending' \in SUBSET Pending
    BY <1>h, <1>2 DEF Pending
  <2>2. IsFiniteSet(Pending') /\ Cardinality(Pending') <= Cardinality(Pending)
    BY <1>f, <2>1, FS_Subset
  <2>3. Cardinality(Pending') \in Nat
    BY <2>2, FS_CardinalityType
  <2>4. document.revision + Cardinality(Pending') <= writes
    BY ONLY <1>t, <1>f, <1>n, <2>2, <2>3
  <2> QED BY <1>2, <2>2, <2>4 DEF Accounted
<1>3. CASE Saves(h) /\ UNCHANGED writes /\ h \in Pending /\ h \notin Pending'
           /\ host[h].at = "write"
  <2>1. document'.revision = document.revision + 1
    <3>1. host[h].read = document
      BY <1>3 DEF InHandOf
    <3> QED BY <1>3, <3>1 DEF Saves
  <2>2. Pending' = Pending \ {h}
    BY <1>h, <1>3 DEF Pending
  <2>3. IsFiniteSet(Pending \ {h}) /\ Cardinality(Pending \ {h}) = Cardinality(Pending) - 1
    BY <1>f, <1>3, FS_RemoveElement
  <2>4. IsFiniteSet(Pending') /\ Cardinality(Pending') = Cardinality(Pending) - 1
    BY <2>2, <2>3
  <2>5. (document.revision + 1) + (Cardinality(Pending) - 1) <= writes
    BY <1>t, <1>f, <1>n
  <2> QED BY <1>3, <2>1, <2>4, <2>5 DEF Accounted
<1>4. ASSUME ~\E req \in Requests : Ask(h, req)
      PROVE  UNCHANGED writes /\ (h \in Pending' => h \in Pending)
  BY <1>h, <1>4 DEF Works, Ask, Lock, Refuse, Apply, SecretsFail, Write, WriteFails, Reported, Revoke,
         RevokeFails, CheckScope, TaskReads, RecordGrant, TaskConsent, Crash, Release, Idle, Pending, Busy
<1>5. CASE host[h].at = "write" /\ (Write(h) \/ WriteFails(h))
  <2>1. h \in Pending /\ h \notin Pending' /\ UNCHANGED writes
    BY <1>h, <1>5 DEF Write, WriteFails, Pending, Busy, Idle
  <2>2. Saves(h) \/ UNCHANGED document
    BY <1>5 DEF Write, WriteFails
  <2> QED BY <1>2, <1>3, <1>5, <2>1, <2>2
<1> QED BY <1>1, <1>2, <1>4, <1>5, OnlyWrites

\* Every answer is past those before it: the file under the lock is the
\* one that was read.
LEMMA StepNothingLost ==
    ASSUME SettingsTyped, NoWriteLost, NEW h \in Hosts, InHandOf(h), Works(h)
    PROVE  NoWriteLost'
<1>t. document.revision \in Nat /\ committed \in Seq(Nat)
  BY DEF SettingsTyped
<1>c. /\ \A i, j \in DOMAIN committed : i < j => committed[i] < committed[j]
      /\ \A i \in DOMAIN committed : committed[i] <= document.revision
  BY DEF NoWriteLost
<1>1. CASE UNCHANGED <<document, committed>>
  BY <1>c, <1>1 DEF NoWriteLost
<1>s. ASSUME Saves(h), host[h].at = "write" PROVE document'.revision = document.revision + 1
  <2>1. host[h].read = document
    BY <1>s DEF InHandOf
  <2> QED BY <1>s, <2>1 DEF Saves
<1>n. Len(committed) \in Nat /\ DOMAIN committed = 1 .. Len(committed)
      /\ \A i \in DOMAIN committed : committed[i] \in Nat
  BY <1>t, LenProperties
<1>2. CASE Write(h)
  <2>1. document'.revision = document.revision + 1
    BY <1>s, <1>2 DEF Write
  <2>2. committed' = Append(committed, document.revision + 1)
    <3>1. host[h].read = document
      BY <1>2 DEF Write, InHandOf
    <3> QED BY <1>2, <3>1 DEF Write
  <2>n. PICK n \in Nat : n = document.revision + 1
    BY <1>t
  <2>3. /\ Len(committed') = Len(committed) + 1 /\ DOMAIN committed' = 1 .. (Len(committed) + 1)
        /\ \A i \in 1 .. Len(committed) : committed'[i] = committed[i]
        /\ committed'[Len(committed) + 1] = n
    BY <1>t, <2>2, <2>n, AppendProperties
  <2>4. \A i \in 1 .. Len(committed) : committed[i] < n
    BY <1>t, <1>n, <1>c, <2>n
  <2>5. ASSUME NEW i \in DOMAIN committed', NEW j \in DOMAIN committed', i < j
        PROVE  committed'[i] < committed'[j]
    <3>1. i \in 1 .. Len(committed)
      BY <1>n, <2>3, <2>5
    <3>2. CASE j \in 1 .. Len(committed)
      BY <1>n, <1>c, <2>3, <2>5, <3>1, <3>2
    <3>3. CASE j = Len(committed) + 1
      BY <2>3, <2>4, <3>1, <3>3
    <3> QED BY <1>n, <2>3, <3>2, <3>3
  <2>6. ASSUME NEW i \in DOMAIN committed' PROVE committed'[i] <= document'.revision
    <3>1. CASE i \in 1 .. Len(committed)
      <4>1. committed'[i] \in Nat /\ committed'[i] < n
        BY <1>n, <2>3, <2>4, <3>1
      <4> QED BY <4>1, <2>1, <2>n
    <3>2. CASE i = Len(committed) + 1
      BY <2>1, <2>3, <2>n, <3>2
    <3> QED BY <1>n, <2>3, <3>1, <3>2
  <2> QED BY <2>5, <2>6 DEF NoWriteLost
<1>3. CASE WriteFails(h)
  <2>1. UNCHANGED committed /\ (UNCHANGED document \/ document'.revision = document.revision + 1)
    BY <1>s, <1>3 DEF WriteFails
  <2>2. ASSUME NEW i \in DOMAIN committed PROVE committed[i] <= document'.revision
    <3>1. committed[i] \in Nat /\ committed[i] <= document.revision
      BY <1>n, <1>c
    <3> QED BY <1>t, <2>1, <3>1
  <2> QED BY <1>c, <2>1, <2>2 DEF NoWriteLost
<1> QED BY <1>1, <1>2, <1>3, OnlyWrites

\* A secret goes before its profile, and comes only to one that is there.
LEMMA StepSecrets ==
    ASSUME SettingsAssumption, SettingsTyped, Locked, NoOrphanSecret, \A g \in Hosts : Cleared(g),
           NEW h \in Hosts, InHandOf(h), Works(h)
    PROVE  NoOrphanSecret' /\ \A g \in Hosts : Cleared(g)'
<1>h. /\ host = [g \in Hosts |-> host[g]] /\ host' = [g \in Hosts |-> host'[g]]
      /\ \A g \in Hosts : g # h => host'[g] = host[g]
  BY OneMoves DEF SettingsTyped
<1>e. secrets \subseteq Profiles /\ document.endpoint \in [Profiles -> Endpoints \union {Unset, Missing}]
  BY DEF SettingsTyped, Locked
<1>o. \A q \in secrets : document.endpoint[q] # Missing
  BY DEF NoOrphanSecret, Known
<1>1. CASE Apply(h)
  <2>1. host[h].at = "apply" /\ host[h].req \in Requests /\ host[h].read = document
        /\ secrets' = SecretsAfter(host[h].req) /\ document' = document /\ ~Refused(h)
    BY <1>1 DEF Apply, InHandOf, Busy
  <2>2. PICK req \in Requests : req = host[h].req
    BY <2>1
  <2>3. \A q \in secrets' : q \in secrets \/ (req.kind = "secret" /\ q = req.profile)
    BY <2>1, <2>2 DEF SecretsAfter
  <2>4. req.kind = "secret" => document.endpoint[req.profile] # Missing
    BY <2>1, <2>2 DEF Refused, Known
  <2>5. NoOrphanSecret'
    BY <1>o, <2>1, <2>3, <2>4 DEF NoOrphanSecret, Known
  <2>6. ASSUME NEW g \in Hosts, host'[g].at = "write" PROVE g = h /\ host'[g].req = req
    <3>1. lock = h
      BY <2>1 DEF Locked
    <3>2. g = h
      <4>1. SUFFICES ASSUME g # h PROVE FALSE
        OBVIOUS
      <4>2. host[g].at = "write"
        BY <1>h, <2>6, <4>1
      <4> QED BY <3>1, <4>1, <4>2 DEF Locked
    <3>3. host'[h].req = req
      BY <1>1, <1>h, <2>2, <2>6, <3>2 DEF Apply, Release, Idle
    <3> QED BY <3>2, <3>3
  <2>7. /\ req.kind = "remove" => req.profile \notin secrets'
        /\ req.kind = "reset" => secrets' = {}
    BY <2>1, <2>2 DEF SecretsAfter
  <2> QED BY <2>5, <2>6, <2>7 DEF Cleared
<1>2. ASSUME ~Apply(h) PROVE secrets' \subseteq secrets
  BY <1>2 DEF Works, Ask, Lock, Refuse, SecretsFail, Write, WriteFails, Reported, Revoke,
         RevokeFails, CheckScope, TaskReads, RecordGrant, TaskConsent, Crash, shared
<1>3. ASSUME ~Apply(h) PROVE \A g \in Hosts : Cleared(g)'
  <2>1. ASSUME NEW g \in Hosts, host'[g].at = "write" PROVE host'[g] = host[g]
    <3>1. g # h
      BY <1>h, <1>3, <2>1, NextStages
    <3> QED BY <1>h, <3>1
  <2> QED BY <1>2, <1>3, <2>1 DEF Cleared
<1>4. CASE host[h].at = "write" /\ (Write(h) \/ WriteFails(h))
  <2>1. ~Apply(h) /\ secrets' = secrets
    BY <1>4 DEF Apply, Write, WriteFails
  <2>c. \A g \in Hosts : Cleared(g)'
    BY <1>3, <2>1
  <2>2. CASE UNCHANGED document
    BY <1>o, <2>1, <2>2, <2>c DEF NoOrphanSecret, Known
  <2>3. CASE Saves(h)
    <3>1. PICK req \in Requests : req = host[h].req /\ host[h].read = document
      BY <1>4 DEF InHandOf, Busy
    <3>2. document'.endpoint = Changed(document, req)
      BY <2>3, <3>1 DEF Saves
    <3>3. /\ req.kind = "remove" => req.profile \notin secrets
          /\ req.kind = "reset" => secrets = {}
      BY <1>4, <3>1 DEF Cleared
    <3>4. ASSUME NEW q \in secrets PROVE Changed(document, req)[q] # Missing
      <4>1. q \in Profiles /\ document.endpoint[q] # Missing /\ req.kind # "reset"
        BY <1>e, <1>o, <3>3
      <4>2. req.kind \in {"set", "create", "secret", "clear", "remove", "reset"}
        BY RequestsAre
      <4>3. req.kind \in {"secret", "clear"} \/ q # req.profile =>
              Changed(document, req)[q] = document.endpoint[q]
        BY <1>e, <4>1, <4>2, ChangedIs
      <4>4. req.kind \in {"set", "create"} /\ q = req.profile =>
              Changed(document, req)[q] \in Endpoints \union {Unset}
        BY <1>e, <4>1, ChangedIs
      <4>5. Missing \notin Endpoints \union {Unset}
        BY DEF SettingsAssumption, Missing, Unset
      <4> QED BY <3>3, <4>1, <4>2, <4>3, <4>4, <4>5
    <3> QED BY <2>1, <2>c, <3>2, <3>4 DEF NoOrphanSecret, Known
  <2>4. Saves(h) \/ UNCHANGED document
    BY <1>4 DEF Write, WriteFails
  <2> QED BY <2>2, <2>3, <2>4
<1>5. CASE ~Apply(h) /\ UNCHANGED document
  BY <1>o, <1>2, <1>3, <1>5 DEF NoOrphanSecret, Known
<1> QED BY <1>1, <1>4, <1>5, OnlyWrites


\* What is known of one process's consents.
ConsentKept(h) == Current(h) /\ NewOnes(h) /\ \A i \in DOMAIN grants : Passed(h, grants[i])

\* Of a consent, in numbers: given at one count of moves, now at another.
LEMMA Counting ==
    ASSUME NEW given \in Nat, NEW count \in Nat, NEW lostBefore \in Nat, NEW due \in {0, 1},
           given <= count, count <= given + lostBefore + due
    PROVE  /\ count + 1 # given /\ given <= count + 1
           /\ (count + 1 = given + 1 => count = given)
           /\ count + 1 <= given + lostBefore + due + 1
           /\ (count # given /\ count # given + 1 /\ due = 0 => lostBefore >= 2)
  OBVIOUS

\* Steps that touch neither the profiles nor the consents.
LEMMA ConsentRests ==
    ASSUME SettingsTyped, NEW h \in Hosts, ConsentKept(h),
           UNCHANGED <<document, moved, grants>>, created \subseteq created', lost' \in Nat,
           \A g \in Consents : lost + Due(h, g) <= lost' + Due(h, g)',
           Current(h)', \/ host'[h].at \notin Busy
                        \/ host[h].at \in Busy /\ host'[h].req = host[h].req
                        \/ host'[h].req.profile \notin created /\ host'[h].req.profile \in Profiles
    PROVE  ConsentKept(h)'
<1>1. NewOnes(h)'
  <2>1. \A q : Unborn(q) => Unborn(q)'
    BY DEF Unborn
  <2>2. \A q \in Profiles \ created' : Unborn(q)'
    BY <2>1 DEF ConsentKept, NewOnes
  <2>p. PICK p : p = host'[h].req.profile
    OBVIOUS
  <2>3. ASSUME host'[h].at \in Busy, host'[h].req.kind = "create" PROVE Unborn(p)'
    <3>1. CASE host[h].at \in Busy /\ host'[h].req = host[h].req
      BY <2>1, <2>3, <2>p, <3>1 DEF ConsentKept, NewOnes
    <3>2. CASE host'[h].req.profile \in Profiles \ created
      BY <2>1, <2>p, <3>2 DEF ConsentKept, NewOnes
    <3> QED BY <2>3, <2>p, <3>1, <3>2
  <2> QED BY <2>2, <2>p, <2>3 DEF NewOnes
<1>2. ASSUME NEW i \in DOMAIN grants PROVE Passed(h, grants[i])'
  <2>1. PICK g \in Consents : g = grants[i]
    BY LenProperties DEF SettingsTyped
  <2>2. Passed(h, g)
    BY <2>1 DEF ConsentKept
  <2>3. g.profile \in Profiles /\ g.given \in Nat /\ moved[g.profile] \in Nat /\ lost \in Nat
    BY DEF Consents, SettingsTyped
  <2>4. Due(h, g) \in {0, 1} /\ Due(h, g)' \in {0, 1}
    BY DEF Due
  <2>5. lost + Due(h, g) <= lost' + Due(h, g)'
    OBVIOUS
  <2>6. PICK a \in {0, 1} : a = Due(h, g)
    BY <2>4
  <2>7. PICK b \in {0, 1} : b = Due(h, g)'
    BY <2>4
  <2>8. PICK n \in Nat : n = moved[g.profile]
    BY <2>3
  <2>9. n <= g.given + lost + a => n <= g.given + lost' + b
    <3>1. lost + a <= lost' + b
      BY <2>5, <2>6, <2>7
    <3> QED BY <3>1, <2>3, <2>6, <2>7, <2>8
  <2>10. Passed(h, g)'
    BY <2>2, <2>6, <2>7, <2>8, <2>9 DEF Passed
  <2> QED BY <2>1, <2>10
<1> QED BY <1>1, <1>2 DEF ConsentKept

\* The file changes: whatever moves has its revocation next, or lost it.
LEMMA ConsentMoves ==
    ASSUME SettingsAssumption, SettingsTyped, NEW h \in Hosts, InHandOf(h), ConsentKept(h),
           host[h].at = "write", Saves(h), UNCHANGED <<grants, created>>,
           host'[h].at \in {"idle", "failed", "revoke"},
           \/ /\ Follows(host[h].req) /\ host'[h].at = "revoke" /\ host'[h].req = host[h].req /\ lost' = lost
           \/ /\ Follows(host[h].req) /\ lost' = lost + 1
           \/ /\ ~Follows(host[h].req) /\ lost' = lost
    PROVE  ConsentKept(h)'
<1>1. PICK req \in Requests : req = host[h].req
  BY DEF InHandOf, Busy
<1>2. /\ host[h].read = document /\ req.profile \in created /\ created \subseteq Profiles
      /\ document.endpoint \in [Profiles -> Endpoints \union {Unset, Missing}] /\ lost \in Nat
  BY <1>1 DEF InHandOf, Busy, SettingsTyped
<1>3. /\ document'.endpoint = Changed(document, req)
      /\ \A q \in Profiles : moved'[q] =
            IF Changed(document, req)[q] # document.endpoint[q] THEN moved[q] + 1 ELSE moved[q]
  BY <1>1, <1>2 DEF Saves, Moves
<1>k. req.kind \in {"set", "create", "secret", "clear", "remove", "reset"}
  BY RequestsAre
<1>4. \A q \in Profiles :
         /\ req.kind \in {"secret", "clear"} => Changed(document, req)[q] = document.endpoint[q]
         /\ req.kind = "reset" => Changed(document, req)[q] = Missing
         /\ q # req.profile /\ req.kind # "reset" => Changed(document, req)[q] = document.endpoint[q]
  BY <1>2, ChangedIs
<1>5. Current(h)'
  BY DEF Current
<1>6. NewOnes(h)'
  <2>1. ASSUME NEW q \in Profiles \ created PROVE Unborn(q)'
    <3>1. Unborn(q) /\ q # req.profile /\ q \in Profiles
      BY <1>2, <2>1 DEF ConsentKept, NewOnes
    <3>2. Changed(document, req)[q] = Missing
      BY <1>4, <3>1 DEF Unborn
    <3> QED BY <1>3, <3>1, <3>2 DEF Unborn
  <2>2. host'[h].at \notin Busy
    BY DEF Busy
  <2> QED BY <2>1, <2>2 DEF NewOnes
<1>7. ASSUME NEW i \in DOMAIN grants PROVE Passed(h, grants[i])'
  <2>1. PICK g \in Consents : g = grants[i]
    BY LenProperties DEF SettingsTyped
  <2>2. Passed(h, g) /\ Due(h, g) = 0
    BY <2>1 DEF ConsentKept, Due
  <2>3. g.profile \in Profiles /\ g.given \in Nat /\ moved[g.profile] \in Nat
    BY DEF Consents, SettingsTyped
  <2>4. PICK q \in Profiles : q = g.profile
    BY <2>3
  <2>5. PICK n \in Nat : n = moved[q]
    BY <2>3, <2>4
  <2>6. Due(h, g)' \in {0, 1}
    BY DEF Due
  <2>7. PICK d \in {0, 1} : d = Due(h, g)'
    BY <2>6
  <2>8. CASE ~g.live
    BY <2>1, <2>8 DEF Passed
  <2>9. CASE g.live /\ Changed(document, req)[q] = document.endpoint[q]
    <3>1. moved'[q] = n /\ document'.endpoint[q] = document.endpoint[q]
      BY <1>3, <2>5, <2>9
    <3>2. lost' \in Nat /\ lost <= lost'
      BY <1>2
    <3>3. g.given <= n /\ n <= g.given + lost
      BY <2>2, <2>3, <2>4, <2>5, <2>9, <1>2 DEF Passed
    <3>4. n <= g.given + lost' + d
      BY <3>2, <3>3, <2>3, <2>5, <2>7, <1>2
    <3> QED BY <2>1, <2>2, <2>4, <2>5, <2>7, <2>9, <3>1, <3>3, <3>4 DEF Passed
  <2>10. CASE g.live /\ Changed(document, req)[q] # document.endpoint[q]
    <3>1. req.kind # "create" \/ q # req.profile
      <4>1. SUFFICES ASSUME req.kind = "create" PROVE q # req.profile
        OBVIOUS
      <4>2. Unborn(req.profile)
        BY <1>1, <4>1 DEF ConsentKept, NewOnes, Busy
      <4> QED BY <2>1, <2>4, <4>2 DEF Unborn
    <3>2. req.kind \in {"set", "remove", "reset"} /\ (req.kind = "reset" \/ q = req.profile)
      BY <1>4, <1>k, <2>10, <3>1
    <3>3. Follows(host[h].req)
      BY <1>1, <3>2 DEF Follows
    <3>4. lost' + d >= lost + 1 /\ lost' \in Nat
      <4>1. CASE lost' = lost + 1
        BY <1>2, <2>7, <4>1
      <4>2. CASE lost' = lost /\ host'[h].at = "revoke" /\ host'[h].req = host[h].req
        <5>1. d = 1
          BY <1>1, <2>4, <2>7, <3>2, <4>2 DEF Due
        <5> QED BY <1>2, <4>2, <5>1
      <4> QED BY <3>3, <4>1, <4>2
    <3>5. moved'[q] = n + 1 /\ document'.endpoint[q] # document.endpoint[q]
      BY <1>3, <2>5, <2>10
    <3>6. g.given <= n /\ n <= g.given + lost
      BY <2>2, <2>3, <2>4, <2>5, <2>10, <1>2 DEF Passed
    <3>7. n = g.given => document.endpoint[q] = g.endpoint
      BY <2>2, <2>4, <2>5, <2>10 DEF Passed
    <3>8. n + 1 <= g.given + lost' + d /\ n + 1 # g.given /\ g.given <= n + 1
          /\ (n + 1 = g.given + 1 => n = g.given)
      BY ONLY <3>4, <3>6, <2>3, <2>5, <2>7, <1>2
    <3> QED BY <2>1, <2>4, <2>7, <2>10, <3>5, <3>7, <3>8 DEF Passed
  <2> QED BY <2>8, <2>9, <2>10
<1> QED BY <1>5, <1>6, <1>7 DEF ConsentKept

LEMMA ConsentRevoked ==
    ASSUME SettingsTyped, NEW h \in Hosts, ConsentKept(h), Revoke(h), host'[h] = Idle
    PROVE  ConsentKept(h)'
<1>1. Current(h)'
  BY DEF Current, Idle
<1>2. UNCHANGED <<document, moved, lost, created>> /\ host[h].at = "revoke"
      /\ grants' = [i \in DOMAIN grants |-> Revoked(grants[i], host[h].req)]
  BY DEF Revoke, ghosts
<1>3. ASSUME NEW i \in DOMAIN grants
      PROVE  /\ grants[i] \in Consents /\ grants'[i] = Revoked(grants[i], host[h].req)
             /\ grants'[i].profile = grants[i].profile
  <2>1. grants[i] \in Consents
    BY LenProperties DEF SettingsTyped
  <2> QED BY <1>2, <2>1 DEF Revoked, Consents
<1>4. NewOnes(h)'
  <2>1. \A q : Unborn(q) => Unborn(q)'
    BY <1>2, <1>3 DEF Unborn
  <2> QED BY <1>2, <2>1 DEF ConsentKept, NewOnes, Idle, Busy
<1>5. ASSUME NEW i \in DOMAIN grants PROVE Passed(h, grants[i])'
  <2>r. PICK r : r = grants'[i]
    OBVIOUS
  <2>1. PICK g \in Consents : g = grants[i]
    BY <1>3
  <2>2. Passed(h, g)
    BY <2>1 DEF ConsentKept
  <2>3. CASE host[h].req.kind = "reset" \/ g.profile = host[h].req.profile
    <3>1. ~r.live
      BY <1>3, <2>1, <2>r, <2>3 DEF Revoked, Consents
    <3>2. Passed(h, r)'
      BY <3>1 DEF Passed
    <3> QED BY <2>r, <3>2
  <2>4. CASE ~(host[h].req.kind = "reset" \/ g.profile = host[h].req.profile)
    <3>a. r = g
      BY <1>3, <2>1, <2>r, <2>4 DEF Revoked
    <3>b. Due(h, g) = 0
      BY <2>4 DEF Due
    <3>c. Due(h, g)' = 0
      BY DEF Due, Idle
    <3>1. r = g /\ Due(h, g) = 0 /\ Due(h, g)' = 0
      BY <3>a, <3>b, <3>c
    <3>2. Passed(h, g)'
      BY <1>2, <2>2, <3>1 DEF Passed
    <3> QED BY <2>r, <3>1, <3>2
  <2> QED BY <2>3, <2>4
<1>6. ASSUME NEW i \in DOMAIN grants' PROVE Passed(h, grants[i])'
  <2>1. i \in DOMAIN grants
    BY <1>2, <1>6
  <2> QED BY <1>5, <2>1
<1> QED BY <1>1, <1>4, <1>6 DEF ConsentKept

LEMMA ConsentRecorded ==
    ASSUME SettingsAssumption, SettingsTyped, NEW h \in Hosts, InHandOf(h), ConsentKept(h),
           RecordGrant(h), host'[h] = Idle
    PROVE  ConsentKept(h)'
<1>1. Current(h)'
  BY DEF Current, Idle
<1>2. UNCHANGED <<document, moved, lost, created>> /\ host[h].at = "grant"
  BY DEF RecordGrant, ghosts
<1>3. PICK q \in Profiles, e \in Endpoints : q = host[h].profile /\ e = host[h].endpoint
  BY <1>2 DEF InHandOf
<1>4. document.endpoint[q] = e
  BY <1>2, <1>3 DEF ConsentKept, Current
<1>5. \A g : Due(h, g) = 0 /\ Due(h, g)' = 0
  BY <1>2 DEF Due, Idle
<1>6. \A g : Passed(h, g) => Passed(h, g)'
  BY <1>2, <1>5 DEF Passed
<1>7. CASE grants' = grants
  <2>1. NewOnes(h)'
    BY <1>2, <1>7 DEF ConsentKept, NewOnes, Unborn, Idle, Busy
  <2>2. \A i \in DOMAIN grants : Passed(h, grants[i])'
    BY <1>6, <1>7 DEF ConsentKept
  <2> QED BY <1>1, <1>7, <2>1, <2>2 DEF ConsentKept
<1>8. CASE grants' = Append(grants, Grant(q, e))
  <2>1. PICK r : r = Grant(q, e)
    OBVIOUS
  <2>2. r.profile = q /\ r.endpoint = e /\ r.given = moved[q] /\ moved[q] \in Nat /\ lost \in Nat
    BY <2>1 DEF Grant, SettingsTyped
  <2>3. /\ Len(grants) \in Nat /\ DOMAIN grants = 1 .. Len(grants)
        /\ DOMAIN grants' = 1 .. (Len(grants) + 1)
        /\ \A i \in 1 .. Len(grants) : grants'[i] = grants[i]
        /\ grants'[Len(grants) + 1] = r
    <3>1. grants \in Seq(Consents) /\ r \in Consents
      BY <2>1 DEF SettingsTyped, Grant, Consents
    <3> QED BY <1>8, <2>1, <3>1, AppendProperties, LenProperties
  <2>4. Passed(h, r)'
    <3>1. moved[q] <= moved[q] /\ moved[q] <= moved[q] + lost + 0 /\ moved[q] # moved[q] + 1
      BY <2>2
    <3> QED BY <1>2, <1>4, <1>5, <2>2, <3>1 DEF Passed
  <2>5. ASSUME NEW i \in DOMAIN grants' PROVE Passed(h, grants[i])'
    <3>1. CASE i \in 1 .. Len(grants)
      <4>1. Passed(h, grants[i])
        BY <2>3, <3>1 DEF ConsentKept
      <4>3. PICK g : g = grants[i]
        OBVIOUS
      <4>4. Passed(h, g)' /\ grants'[i] = g
        BY <1>6, <2>3, <3>1, <4>1, <4>3
      <4> QED BY <4>4
    <3>2. CASE i = Len(grants) + 1
      BY <2>3, <2>4, <3>2
    <3> QED BY <2>3, <2>5, <3>1, <3>2
  <2>6. Missing \notin Endpoints
    BY DEF SettingsAssumption
  <2>7. ASSUME NEW p \in Profiles \ created PROVE Unborn(p)'
    <3>1. Unborn(p) /\ p # q
      BY <1>4, <2>6 DEF ConsentKept, NewOnes, Unborn
    <3> QED BY <1>2, <2>2, <2>3, <3>1 DEF Unborn
  <2>8. NewOnes(h)'
    BY <1>2, <2>7 DEF NewOnes, Idle, Busy
  <2> QED BY <1>1, <2>5, <2>8 DEF ConsentKept
<1> QED BY <1>3, <1>7, <1>8 DEF RecordGrant

\* Of one process alone, consent follows the endpoint but for what was
\* lost, and so a task runs by an earlier one only after two losses.
LEMMA StepConsented ==
    ASSUME SettingsAssumption, SettingsTyped, SettingsTyped', NEW h \in Hosts, InHandOf(h),
           ConsentKept(h), outdated => lost >= 2, Works(h)
    PROVE  ConsentKept(h)' /\ (outdated' => lost' >= 2)
<1>h. host = [g \in Hosts |-> host[g]]
  BY DEF SettingsTyped
<1>l. lost \in Nat /\ lost' \in Nat
  BY DEF SettingsTyped
<1>0. \A g : Due(h, g) \in {0, 1} /\ Due(h, g)' \in {0, 1} /\ (host[h].at # "revoke" => Due(h, g) = 0)
  BY DEF Due
<1>d. ASSUME host[h].at # "revoke" \/ lost' = lost + 1, lost' \in {lost, lost + 1}
      PROVE  \A g \in Consents : lost + Due(h, g) <= lost' + Due(h, g)'
  <2> SUFFICES ASSUME NEW g \in Consents PROVE lost + Due(h, g) <= lost' + Due(h, g)'
    OBVIOUS
  <2>1. PICK a \in {0, 1}, b \in {0, 1} : a = Due(h, g) /\ b = Due(h, g)' /\ (a = 0 \/ lost' = lost + 1)
    BY <1>0, <1>d
  <2>2. lost + a <= lost' + b
    BY <1>l, <1>d, <2>1
  <2> QED BY <2>1, <2>2
<1>1. CASE \E req \in Requests : Ask(h, req)
  <2>1. PICK req \in Requests : Ask(h, req)
    BY <1>1
  <2>2. /\ UNCHANGED <<document, moved, grants, lost, outdated>> /\ created \subseteq created'
        /\ host[h].at = "idle" /\ host'[h].at = "lock" /\ host'[h].req = req
    BY <1>h, <2>1 DEF Ask, Idle, shared, ghosts
  <2>3. req.profile \in Profiles /\ (req.kind = "create" => req.profile \notin created)
    BY <2>1, RequestsAre DEF Ask
  <2>4. Current(h)'
    BY <2>2 DEF Current
  <2>5. \A g \in Consents : lost + Due(h, g) <= lost' + Due(h, g)'
    BY <1>d, <2>2
  <2>6. CASE req.kind = "create"
    BY <1>l, <2>2, <2>3, <2>4, <2>5, <2>6, ConsentRests
  <2>7. CASE req.kind # "create"
    <3>1. \A q : Unborn(q) => Unborn(q)'
      BY <2>2 DEF Unborn
    <3>2. NewOnes(h)'
      BY <2>2, <2>7, <3>1 DEF ConsentKept, NewOnes
    <3>3. \A g : Due(h, g) = 0 /\ Due(h, g)' = 0
      BY <2>2 DEF Due
    <3>4. \A i \in DOMAIN grants : Passed(h, grants[i])'
      BY <2>2, <3>3 DEF ConsentKept, Passed
    <3> QED BY <2>2, <2>4, <3>2, <3>4 DEF ConsentKept
  <2> QED BY <2>6, <2>7
<1>2. CASE Lock(h) \/ Apply(h)
  <2>1. /\ UNCHANGED <<document, moved, grants, lost, outdated, created>>
        /\ host[h].at \in {"lock", "apply"}
        /\ \/ host'[h].at \in Busy /\ host'[h].req = host[h].req
           \/ host'[h].at = "idle"
    BY <1>2, <1>h DEF Lock, Apply, ghosts, Release, Idle, Busy
  <2>2. Current(h)'
    BY <2>1 DEF Current, Busy
  <2>3. \A g \in Consents : lost + Due(h, g) <= lost' + Due(h, g)'
    BY <1>d, <2>1
  <2>4. host[h].at \in Busy /\ (host'[h].at \in Busy => host'[h].req = host[h].req)
    BY <2>1 DEF Busy
  <2> QED BY <1>l, <2>1, <2>2, <2>3, <2>4, ConsentRests
<1>3. CASE Refuse(h) \/ SecretsFail(h) \/ Reported(h) \/ RevokeFails(h) \/ Crash(h)
           \/ (WriteFails(h) /\ UNCHANGED <<document, moved, lost>>)
  <2>1. /\ UNCHANGED <<document, moved, grants, outdated, created>> /\ lost' \in {lost, lost + 1}
        /\ host[h].at # "revoke" \/ lost' = lost + 1
        /\ host'[h].at \in {"idle", "failed"}
    <3>1. CASE Refuse(h) \/ SecretsFail(h)
      BY <3>1, <1>h DEF Refuse, SecretsFail, ghosts, Release, Idle
    <3>2. CASE Reported(h)
      BY <3>2, <1>h DEF Reported, shared, ghosts, Idle
    <3>3. CASE RevokeFails(h)
      BY <3>3, <1>h DEF RevokeFails, shared, Idle
    <3>4. CASE Crash(h)
      <4>1. lost' = lost + (IF host[h].at = "revoke" THEN 1 ELSE 0) /\ host'[h] = Idle
            /\ UNCHANGED <<document, moved, grants, outdated, created>>
        BY <3>4, <1>h DEF Crash
      <4> QED BY <1>l, <4>1 DEF Idle
    <3>5. CASE WriteFails(h) /\ UNCHANGED <<document, moved, lost>>
      BY <3>5, <1>h DEF WriteFails
    <3> QED BY <1>3, <3>1, <3>2, <3>3, <3>4, <3>5
  <2>2. Current(h)' /\ host'[h].at \notin Busy
    BY <2>1 DEF Current, Busy
  <2>3. \A g \in Consents : lost + Due(h, g) <= lost' + Due(h, g)'
    BY <1>d, <2>1
  <2> QED BY <1>l, <2>1, <2>2, <2>3, ConsentRests
<1>4. CASE Write(h) \/ (WriteFails(h) /\ ~UNCHANGED <<document, moved, lost>>)
  <2>1. /\ host[h].at = "write" /\ Saves(h) /\ UNCHANGED <<grants, created, outdated>>
        /\ host'[h].at \in {"idle", "failed", "revoke"}
        /\ \/ /\ Follows(host[h].req) /\ host'[h].at = "revoke" /\ host'[h].req = host[h].req /\ lost' = lost
           \/ /\ Follows(host[h].req) /\ lost' = lost + 1
           \/ /\ ~Follows(host[h].req) /\ lost' = lost
    BY <1>4, <1>h, <1>l DEF Write, WriteFails, Idle
  <2>2. ConsentKept(h)'
    BY <2>1, ConsentMoves
  <2>3. lost' \in {lost, lost + 1} /\ outdated' = outdated
    BY <2>1
  <2> QED BY <1>l, <2>2, <2>3
<1>5. CASE Revoke(h)
  <2>1. host'[h] = Idle /\ UNCHANGED <<outdated, lost>>
    BY <1>5, <1>h DEF Revoke, ghosts
  <2> QED BY <1>5, <2>1, ConsentRevoked
<1>6. CASE RecordGrant(h)
  <2>1. host'[h] = Idle /\ UNCHANGED <<outdated, lost>>
    BY <1>6, <1>h DEF RecordGrant, ghosts
  <2> QED BY <1>6, <2>1, ConsentRecorded
<1>7. CASE \E q \in Profiles : CheckScope(h, q) \/ TaskReads(h, q)
  <2>1. PICK q \in Profiles : CheckScope(h, q) \/ TaskReads(h, q)
    BY <1>7
  <2>2. /\ UNCHANGED <<document, moved, grants, lost, outdated, created>> /\ host[h].at = "idle"
        /\ host'[h].at \in {"grant", "task"} /\ host'[h].profile = q
        /\ host'[h].endpoint = document.endpoint[q]
        /\ host'[h].at = "task" => host'[h].moved = moved[q]
    BY <1>h, <2>1 DEF CheckScope, TaskReads, Idle, shared, ghosts
  <2>3. Current(h)' /\ host'[h].at \notin Busy
    BY <2>2 DEF Current, Busy
  <2>4. \A g \in Consents : lost + Due(h, g) <= lost' + Due(h, g)'
    BY <1>d, <2>2
  <2> QED BY <1>l, <2>2, <2>3, <2>4, ConsentRests
<1>8. CASE TaskConsent(h)
  <2>1. /\ UNCHANGED <<document, moved, grants, lost, created>> /\ host[h].at = "task" /\ host'[h].at = "idle"
    BY <1>8, <1>h DEF TaskConsent, Idle, shared
  <2>2. Current(h)' /\ host'[h].at \notin Busy
    BY <2>1 DEF Current, Busy
  <2>3. \A g \in Consents : lost + Due(h, g) <= lost' + Due(h, g)'
    BY <1>d, <2>1
  <2>4. ConsentKept(h)'
    BY <1>l, <2>1, <2>2, <2>3, ConsentRests
  <2>5. ASSUME outdated', ~outdated PROVE lost >= 2
    <3>1. PICK i \in DOMAIN grants : /\ Covers(grants[i], host[h].profile, host[h].endpoint)
                                     /\ grants[i].given < host[h].moved
      BY <1>8, <2>5 DEF TaskConsent
    <3>2. PICK g \in Consents : g = grants[i]
      BY LenProperties DEF SettingsTyped
    <3>3. g.live /\ g.endpoint = document.endpoint[g.profile] /\ g.given < moved[g.profile]
      BY <2>1, <3>1, <3>2 DEF Covers, ConsentKept, Current
    <3>4. Passed(h, g) /\ Due(h, g) = 0
      BY <2>1, <3>2 DEF ConsentKept, Due
    <3>5. g.given \in Nat /\ moved[g.profile] \in Nat
      BY DEF Consents, SettingsTyped
    <3>6. moved[g.profile] # g.given + 1 /\ moved[g.profile] <= g.given + lost + 0
      BY <3>3, <3>4 DEF Passed
    <3> QED BY ONLY <1>l, <3>3, <3>5, <3>6
  <2> QED BY <2>1, <2>4, <2>5
<1> QED BY <1>1, <1>2, <1>3, <1>4, <1>5, <1>6, <1>7, <1>8 DEF Works

LEMMA ConsentOfOne ==
    ASSUME Single, NEW h \in Hosts
    PROVE  Consented <=> ConsentKept(h)
  BY DEF Single, Consented, ConsentKept

LEMMA SettingsStep ==
    ASSUME SettingsAssumption, SettingsInv, [SettingsNext]_settingsVars
    PROVE  SettingsInv'
<1>1. CASE UNCHANGED settingsVars
  <2>1. UNCHANGED <<document, secrets, grants, lock, host, created, moved, committed, lost,
                    outdated, writes, faults>>
    BY <1>1 DEF settingsVars, shared, ghosts
  <2>2. SettingsTyped' /\ Locked' /\ Accounted' /\ NoWriteLost' /\ NoOrphanSecret'
    BY <2>1 DEF SettingsInv, SettingsTyped, Locked, Accounted, Pending, NoWriteLost, NoOrphanSecret,
                Known
  <2>3. \A h \in Hosts : InHandOf(h)' /\ Cleared(h)'
    BY <2>1 DEF SettingsInv, InHandOf, Cleared
  <2>4. Consented' /\ OneLossIsHarmless'
    BY <2>1 DEF SettingsInv, Consented, Current, NewOnes, Unborn, Passed, Due, OneLossIsHarmless
  <2> QED BY <2>2, <2>3, <2>4 DEF SettingsInv
<1>2. CASE \E h \in Hosts : Works(h)
  <2>1. PICK h \in Hosts : Works(h)
    BY <1>2
  <2>2. \A g \in Hosts : InHandOf(g) /\ Cleared(g)
    BY DEF SettingsInv
  <2>3. SettingsTyped' /\ Locked' /\ Accounted' /\ NoWriteLost'
    BY <2>1, <2>2, StepTyped, StepLocked, StepAccounted, StepNothingLost DEF SettingsInv
  <2>4. \A g \in Hosts : InHandOf(g)'
    BY <2>1, <2>2, StepInHand DEF SettingsInv
  <2>5. NoOrphanSecret' /\ \A g \in Hosts : Cleared(g)'
    BY <2>1, <2>2, StepSecrets DEF SettingsInv
  <2>6. CASE Single
    <3>1. ConsentKept(h) /\ (outdated => lost >= 2)
      BY <2>6, ConsentOfOne DEF SettingsInv, OneLossIsHarmless, Single
    <3>2. ConsentKept(h)' /\ (outdated' => lost' >= 2)
      BY <2>1, <2>2, <2>3, <3>1, StepConsented DEF SettingsInv
    <3>3. Consented'
      BY <2>6, <3>2 DEF Single, Consented, ConsentKept
    <3> QED BY <2>2, <2>3, <2>4, <2>5, <3>2, <3>3 DEF SettingsInv, OneLossIsHarmless
  <2>7. CASE ~Single
    BY <2>3, <2>4, <2>5, <2>7 DEF SettingsInv, Consented, OneLossIsHarmless, Single
  <2> QED BY <2>6, <2>7
<1> QED BY <1>1, <1>2, WorksAre

LEMMA SettingsBegins ==
    ASSUME SettingsAssumption, SettingsInit
    PROVE  SettingsInv
<1> USE DEF SettingsInit
<1>1. \A h \in Hosts : host[h].at = "idle"
  BY DEF Idle
<1>2. Pending = {}
  BY <1>1 DEF Pending, Busy
<1>3. Accounted
  BY <1>2, FS_EmptySet DEF Accounted
<1>4. SettingsTyped
  <2>1. grants \in Seq(Consents) /\ committed \in Seq(Nat)
    BY EmptySeq
  <2> QED BY <2>1 DEF SettingsTyped, SettingsAssumption
<1>8. Locked
  <2>1. lock = NoOne /\ NoOne \notin Hosts /\ secrets = {} /\ outdated = FALSE
    BY DEF SettingsAssumption
  <2> QED BY <1>1, <2>1 DEF Locked, Stages
<1>5. NoWriteLost /\ NoOrphanSecret /\ OneLossIsHarmless
  BY DEF NoWriteLost, NoOrphanSecret, OneLossIsHarmless
<1>6. \A h \in Hosts : InHandOf(h) /\ Cleared(h)
  BY <1>1 DEF InHandOf, Cleared, Busy
<1>7. Consented
  BY <1>1 DEF Consented, Current, NewOnes, Unborn, Busy
<1> QED BY <1>3, <1>4, <1>5, <1>6, <1>7, <1>8 DEF SettingsInv

LEMMA SettingsHold == ASSUME SettingsAssumption, SettingsInv PROVE SettingsKept
<1>1. document.revision \in 0 .. MaxWrites
  <2>1. /\ document.revision \in Nat /\ writes \in 0 .. MaxWrites /\ IsFiniteSet(Pending)
        /\ document.revision + Cardinality(Pending) <= writes /\ MaxWrites \in Nat
    BY DEF SettingsInv, SettingsTyped, Accounted, SettingsAssumption
  <2>2. Cardinality(Pending) \in Nat
    BY <2>1, FS_CardinalityType
  <2> QED BY ONLY <2>1, <2>2
<1>2. lost \in 0 .. MaxFaults
  BY DEF SettingsInv, SettingsTyped, SettingsAssumption
<1>3. \A i \in DOMAIN grants : grants[i].endpoint \in Endpoints
  <2>1. grants \in Seq(Consents)
    BY DEF SettingsInv, SettingsTyped
  <2>2. \A i \in DOMAIN grants : grants[i] \in Consents
    BY <2>1, LenProperties
  <2> QED BY <2>2 DEF Consents
<1>4. SettingsTypeOK
  BY <1>1, <1>2, <1>3 DEF SettingsInv, SettingsTyped, Locked, Stages, SettingsTypeOK
<1> QED BY <1>4 DEF SettingsInv, SettingsKept

\* Whatever processes do to one user's settings, and wherever they die: no
\* answered write is undone, no secret outlives its profile, and of one
\* process alone, a task uses an earlier consent only after two changes
\* lost their revocation.
THEOREM SettingsCorrect ==
    ASSUME SettingsAssumption
    PROVE  SettingsSpec => []SettingsKept
<1>1. SettingsInit => SettingsInv
  BY SettingsBegins
<1>2. SettingsInv /\ [SettingsNext]_settingsVars => SettingsInv'
  BY SettingsStep
<1>3. SettingsInv => SettingsKept
  BY SettingsHold
<1> QED BY <1>1, <1>2, <1>3, PTL DEF SettingsSpec

-----------------------------------------------------------------------------
\* Lanes: the invariant.

IdsOf(line) == {line[n] : n \in DOMAIN line}

WithIn(t, states) == {id \in DOMAIN t.entries : t.entries[id].status \in states}

\* The records: a job superseded is an activation, one that was cancelled
\* had been asked to stop.
Records(t) ==
    /\ t = [entries |-> t.entries, finished |-> t.finished,
            waiting |-> t.waiting, running |-> t.running, channel |-> t.channel]
    /\ t.entries \in [DOMAIN t.entries -> Jobs]
    /\ DOMAIN t.entries \subseteq Nat \ {0}
    /\ t.finished \in Seq(Nat) /\ t.waiting \in Seq(Nat)
    /\ t.running \in Nat /\ t.channel \in Nat
    /\ \A id \in DOMAIN t.entries :
          /\ t.entries[id].status = "superseded" => t.entries[id].kind = "activate"
          /\ t.entries[id].status = "cancelled" => t.entries[id].cancelled

\* The ring has every finished record, once.
Ring(t) ==
    /\ IdsOf(t.finished) = WithIn(t, Over)
    /\ \A n, k \in DOMAIN t.finished : t.finished[n] = t.finished[k] => n = k

\* One job runs, and everything else that is live came after it.
RunsOne(t) ==
    /\ {t.running} \ {0} = WithIn(t, {"running"})
    /\ \A id \in WithIn(t, {"queued"}) : t.running < id

InOrder(t) == IdsOf(t.waiting) = WithIn(t, {"queued"}) /\ Increasing(t.waiting)

NotIdle(t) == t.waiting # <<>> => t.running # 0

TableOk(t) == Records(t) /\ Ring(t) /\ RunsOne(t)

QueueOk(t) == InOrder(t) /\ NotIdle(t)

Activations(last) ==
    [state : {"inactive", "activating", "active", "failed"}, job : 0 .. last,
     pending : BOOLEAN]

LanesTyped ==
    /\ lastId \in Nat /\ requests \in 0 .. MaxRequests
    /\ DOMAIN table.entries \subseteq 1 .. lastId
    /\ activations \in [Modules -> Activations(lastId)]
    /\ granted \in [Grants -> {"never", "live", "revoked"}]
    /\ closing \in BOOLEAN
    /\ worker \in [id : 0 .. lastId, phase : {"resting", "working", "activated",
                                               "failed", "ended"}]
    /\ inbox \in [id : 0 .. lastId, result : Results]
    /\ loaded \in [Modules -> BOOLEAN]

\* A module that may still be released counts for the release.
Releasable == {m \in Modules : activations[m].state \in {"activating", "active"}}

LanesCounted ==
    /\ IsFiniteSet(Releasable)
    /\ lastId + Cardinality(Releasable) <= 2 * requests

\* The running job is in one place.
Located ==
    \/ table.running = 0 /\ table.channel = 0 /\ worker.id = 0 /\ inbox.id = 0
    \/ /\ table.running # 0
       /\ \/ table.channel = table.running /\ worker.id = 0 /\ inbox.id = 0
          \/ table.channel = 0 /\ worker.id = table.running /\ inbox.id = 0
          \/ table.channel = 0 /\ worker.id = 0 /\ inbox.id = table.running

Doing ==
    /\ worker.id = 0 <=> worker.phase \in {"resting", "ended"}
    /\ worker.phase = "ended" => closing
    /\ worker.phase \in {"activated", "failed"} =>
          table.entries[worker.id].kind = "activate"
    /\ worker.phase = "activated" => loaded[table.entries[worker.id].module]
    /\ inbox.id = 0 => inbox = NoResult
    /\ inbox.id # 0 =>
          /\ inbox.result = "cancelled" => table.entries[inbox.id].cancelled
          /\ inbox.result = "ready" /\ table.entries[inbox.id].kind = "activate" =>
                loaded[table.entries[inbox.id].module]

\* The live work that loads or unloads a module, and the tasks.
Movers(t, m) ==
    {id \in LiveIds(t) : t.entries[id].module = m /\ t.entries[id].kind # "task"}

Tasks(t, m) ==
    {id \in LiveIds(t) : t.entries[id].module = m /\ t.entries[id].kind = "task"}

\* What a module's activation, and what it has loaded, say of that work.
ModuleFits(t, activation, on, m) ==
    /\ activation.state = "active" =>
          on /\ Movers(t, m) = {} /\ activation.job = 0 /\ ~activation.pending
    /\ activation.state = "activating" =>
          /\ activation.job \in Movers(t, m)
          /\ t.entries[activation.job].kind = "activate"
          /\ \A id \in Movers(t, m) : id <= activation.job
    /\ activation.state \in {"inactive", "failed"} /\ activation.job # 0 =>
          /\ activation.job \in Movers(t, m)
          /\ t.entries[activation.job].kind = "deactivate"
    /\ \A id \in Tasks(t, m) : on /\ \A k \in Movers(t, m) : id < k
    /\ \A id, k \in Movers(t, m) :
          t.entries[id].kind = "deactivate" /\ t.entries[k].kind = "deactivate" => id = k

ModulesFit ==
    \A m \in Modules : ModuleFits(table, activations[m], loaded[m], m)

\* Only tasks run under a grant, and none that is revoked untold.
Stops(t, given) ==
    \A id \in LiveIds(t) :
        t.entries[id].grant # NoGrant =>
            /\ t.entries[id].kind = "task"
            /\ given[t.entries[id].grant] = "revoked" => t.entries[id].cancelled

LanesInv ==
    /\ LanesTyped /\ LanesCounted
    /\ TableOk(table) /\ (~closing => QueueOk(table))
    /\ Located /\ Doing
    /\ ModulesFit
    /\ Stops(table, granted)

-----------------------------------------------------------------------------
\* The sequences of ids in the table: its queue and its ring.

LEMMA AppendIds ==
    ASSUME NEW s \in Seq(Nat), NEW x \in Nat
    PROVE  /\ Append(s, x) \in Seq(Nat) /\ Len(Append(s, x)) = Len(s) + 1
           /\ IdsOf(Append(s, x)) = IdsOf(s) \union {x}
           /\ \A n \in 1 .. Len(s) : Append(s, x)[n] = s[n]
           /\ Append(s, x)[Len(s) + 1] = x
           /\ DOMAIN Append(s, x) = 1 .. Len(s) + 1 /\ DOMAIN s = 1 .. Len(s)
           /\ Len(s) \in Nat
<1> DEFINE a == Append(s, x)
<1>1. /\ a \in Seq(Nat) /\ Len(a) = Len(s) + 1 /\ Len(s) \in Nat
      /\ \A n \in 1 .. Len(s) : a[n] = s[n]
      /\ a[Len(s) + 1] = x
  BY AppendProperties, LenProperties
<1>2. DOMAIN a = 1 .. Len(s) + 1 /\ DOMAIN s = 1 .. Len(s)
  BY <1>1, LenProperties
<1> HIDE DEF a
<1>3. ASSUME NEW n \in DOMAIN a PROVE a[n] \in IdsOf(s) \union {x}
  <2>1. n \in 1 .. Len(s) \/ n = Len(s) + 1
    BY <1>1, <1>2
  <2> QED BY <1>1, <1>2, <2>1 DEF IdsOf
<1>4. IdsOf(s) \union {x} \subseteq IdsOf(a)
  <2>1. Len(s) + 1 \in DOMAIN a /\ \A n \in DOMAIN s : n \in DOMAIN a
    BY <1>1, <1>2
  <2> QED BY <1>1, <1>2, <2>1 DEF IdsOf
<1>5. IdsOf(a) \subseteq IdsOf(s) \union {x}
  BY <1>3 DEF IdsOf
<1> QED BY <1>1, <1>2, <1>4, <1>5 DEF a

LEMMA TailIds ==
    ASSUME NEW s \in Seq(Nat), s # <<>>,
           \A n, k \in DOMAIN s : s[n] = s[k] => n = k
    PROVE  /\ Tail(s) \in Seq(Nat) /\ Head(s) \in IdsOf(s) /\ Head(s) \in Nat
           /\ IdsOf(Tail(s)) = IdsOf(s) \ {Head(s)}
           /\ \A n, k \in DOMAIN Tail(s) : Tail(s)[n] = Tail(s)[k] => n = k
           /\ Len(Tail(s)) = Len(s) - 1
<1> DEFINE t == Tail(s)
           h == Head(s)
<1>1. Len(s) \in Nat /\ DOMAIN s = 1 .. Len(s) /\ Len(s) # 0
  BY LenProperties, EmptySeq
<1>2. t \in Seq(Nat) /\ Len(t) = Len(s) - 1 /\ \A n \in 1 .. Len(t) : t[n] = s[n + 1]
  BY <1>1, HeadTailProperties
<1>3. DOMAIN t = 1 .. Len(s) - 1 /\ h = s[1] /\ 1 \in DOMAIN s /\ h \in Nat
  BY <1>1, <1>2, LenProperties, HeadTailProperties, ElementOfSeq
<1> HIDE DEF t, h
<1>4. ASSUME NEW n \in DOMAIN t PROVE n + 1 \in DOMAIN s /\ n + 1 # 1 /\ t[n] = s[n + 1]
  BY <1>1, <1>2, <1>3
<1>5. ASSUME NEW n \in DOMAIN s, n # 1 PROVE n - 1 \in DOMAIN t /\ t[n - 1] = s[n]
  <2>1. n - 1 \in DOMAIN t /\ (n - 1) + 1 = n
    BY <1>1, <1>3, <1>5
  <2> QED BY <1>4, <2>1
<1>6. IdsOf(t) = IdsOf(s) \ {h}
  <2>1. IdsOf(t) \subseteq IdsOf(s) \ {h}
    BY <1>3, <1>4 DEF IdsOf
  <2>2. IdsOf(s) \ {h} \subseteq IdsOf(t)
    BY <1>3, <1>5 DEF IdsOf
  <2> QED BY <2>1, <2>2
<1>7. ASSUME NEW n \in DOMAIN t, NEW k \in DOMAIN t, t[n] = t[k] PROVE n = k
  <2>1. n + 1 = k + 1
    BY <1>4, <1>7
  <2> QED BY <1>1, <1>3, <2>1
<1> QED BY <1>2, <1>3, <1>6, <1>7 DEF t, h, IdsOf

LEMMA IncreasingOnce ==
    ASSUME NEW s \in Seq(Nat), Increasing(s)
    PROVE  \A n, k \in DOMAIN s : s[n] = s[k] => n = k
<1> SUFFICES ASSUME NEW n \in DOMAIN s, NEW k \in DOMAIN s, s[n] = s[k], n # k PROVE FALSE
  OBVIOUS
<1>1. s[n] \in Nat /\ s[k] \in Nat /\ n \in Nat /\ k \in Nat
  BY LenProperties, ElementOfSeq
<1>2. n < k \/ k < n
  BY <1>1
<1> QED BY <1>1, <1>2 DEF Increasing

LEMMA IncreasingTail ==
    ASSUME NEW s \in Seq(Nat), s # <<>>, Increasing(s)
    PROVE  /\ Increasing(Tail(s))
           /\ \A x \in IdsOf(Tail(s)) : Head(s) < x
<1> DEFINE t == Tail(s)
           h == Head(s)
<1>1. Len(s) \in Nat /\ DOMAIN s = 1 .. Len(s) /\ Len(s) # 0
  BY LenProperties, EmptySeq
<1>2. t \in Seq(Nat) /\ Len(t) = Len(s) - 1 /\ \A n \in 1 .. Len(t) : t[n] = s[n + 1]
  BY <1>1, HeadTailProperties
<1>3. DOMAIN t = 1 .. Len(s) - 1 /\ h = s[1] /\ 1 \in DOMAIN s
  BY <1>1, <1>2, LenProperties, HeadTailProperties
<1> HIDE DEF t, h
<1>4. ASSUME NEW n \in DOMAIN t PROVE n + 1 \in DOMAIN s /\ 1 < n + 1 /\ t[n] = s[n + 1] /\ n \in Nat
  BY <1>1, <1>2, <1>3
<1>5. ASSUME NEW n \in DOMAIN t, NEW k \in DOMAIN t, n < k PROVE t[n] < t[k]
  <2>1. n + 1 < k + 1 /\ n + 1 \in DOMAIN s /\ k + 1 \in DOMAIN s
    BY <1>4, <1>5
  <2> QED BY <1>4, <2>1 DEF Increasing
<1>6. \A n \in DOMAIN t : h < t[n]
  BY <1>3, <1>4 DEF Increasing
<1> QED BY <1>5, <1>6 DEF t, h, IdsOf, Increasing

LEMMA IncreasingAppend ==
    ASSUME NEW s \in Seq(Nat), NEW x \in Nat, Increasing(s), \A y \in IdsOf(s) : y < x
    PROVE  Increasing(Append(s, x))
<1> DEFINE a == Append(s, x)
<1>1. /\ Len(s) \in Nat /\ DOMAIN a = 1 .. Len(s) + 1 /\ DOMAIN s = 1 .. Len(s)
      /\ \A n \in 1 .. Len(s) : a[n] = s[n]
      /\ a[Len(s) + 1] = x
  BY AppendIds
<1> HIDE DEF a
<1>2. ASSUME NEW n \in DOMAIN a, NEW k \in DOMAIN a, n < k PROVE a[n] < a[k]
  <2>1. n \in DOMAIN s
    BY <1>1, <1>2
  <2>2. k \in DOMAIN s \/ k = Len(s) + 1
    BY <1>1
  <2>3. a[n] = s[n] /\ s[n] \in IdsOf(s)
    BY <1>1, <2>1 DEF IdsOf
  <2>4. CASE k \in DOMAIN s
    BY <1>1, <1>2, <2>1, <2>3, <2>4 DEF Increasing
  <2>5. CASE k = Len(s) + 1
    BY <1>1, <2>3, <2>5
  <2> QED BY <2>2, <2>4, <2>5
<1> QED BY <1>2 DEF a, Increasing

LEMMA WithoutIds ==
    ASSUME NEW s \in Seq(Nat), NEW x, Increasing(s), x \in IdsOf(s)
    PROVE  /\ Without(s, x) \in Seq(Nat) /\ Increasing(Without(s, x))
           /\ IdsOf(Without(s, x)) = IdsOf(s) \ {x}
<1> DEFINE w == Without(s, x)
           n == Len(s)
<1>1. n \in Nat /\ DOMAIN s = 1 .. n /\ \A i \in 1 .. n : s[i] \in Nat
  BY LenProperties, ElementOfSeq
<1>2. PICK p \in 1 .. n : s[p] = x
  BY <1>1 DEF IdsOf
<1>3. \A i \in 1 .. n : s[i] = x => i = p
  BY <1>1, <1>2, IncreasingOnce
<1>4. n - 1 \in Nat /\ n \in Nat /\ p \in Nat
  BY <1>1, <1>2
<1>5. ASSUME NEW i \in 1 .. n - 1
      PROVE  /\ w[i] = s[IF p <= i THEN i + 1 ELSE i]
             /\ (IF p <= i THEN i + 1 ELSE i) \in 1 .. n
             /\ (IF p <= i THEN i + 1 ELSE i) # p
  <2>1. w[i] = IF \E k \in 1 .. i : s[k] = x THEN s[i + 1] ELSE s[i]
    BY DEF Without
  <2>2. i \in Nat /\ i \in 1 .. n /\ i + 1 \in 1 .. n
    BY <1>4
  <2>3. (\E k \in 1 .. i : s[k] = x) <=> p <= i
    <3>1. ASSUME p <= i PROVE p \in 1 .. i
      BY <1>2, <2>2, <3>1
    <3>2. ASSUME NEW k \in 1 .. i, s[k] = x PROVE p <= i
      <4>1. k \in 1 .. n
        BY <2>2
      <4> QED BY <1>3, <3>2, <4>1
    <3> QED BY <1>2, <3>1, <3>2
  <2>4. (IF p <= i THEN i + 1 ELSE i) # p
    BY <1>4, <2>2
  <2> QED BY <2>1, <2>2, <2>3, <2>4
<1>6. DOMAIN w = 1 .. n - 1
  BY DEF Without
<1>7. w \in Seq(Nat)
  <2>1. \A i \in 1 .. n - 1 : w[i] \in Nat
    BY <1>1, <1>5
  <2>2. w = [i \in 1 .. n - 1 |-> w[i]]
    BY DEF Without
  <2> HIDE DEF w, n
  <2>3. w \in [1 .. n - 1 -> Nat]
    BY <2>1, <2>2
  <2> QED BY <1>4, <2>3, SeqDef
<1> HIDE DEF w, n
<1>8. ASSUME NEW i \in DOMAIN w, NEW k \in DOMAIN w, i < k PROVE w[i] < w[k]
  <2> DEFINE a == IF p <= i THEN i + 1 ELSE i
             b == IF p <= k THEN k + 1 ELSE k
  <2>1. i \in Nat /\ k \in Nat
    BY <1>6
  <2>2. a < b
    BY <1>4, <1>8, <2>1
  <2>3. a \in DOMAIN s /\ b \in DOMAIN s /\ w[i] = s[a] /\ w[k] = s[b]
    BY <1>1, <1>5, <1>6
  <2> QED BY <2>2, <2>3 DEF Increasing
<1>9. IdsOf(w) \subseteq IdsOf(s) \ {x}
  <2> SUFFICES ASSUME NEW i \in DOMAIN w PROVE w[i] \in IdsOf(s) \ {x}
    BY DEF IdsOf
  <2> DEFINE a == IF p <= i THEN i + 1 ELSE i
  <2>1. w[i] = s[a] /\ a \in 1 .. n /\ a # p
    BY <1>5, <1>6
  <2> HIDE DEF a
  <2> QED BY <1>1, <1>3, <2>1 DEF IdsOf
<1>10. IdsOf(s) \ {x} \subseteq IdsOf(w)
  <2> SUFFICES ASSUME NEW j \in 1 .. n, s[j] # x PROVE s[j] \in IdsOf(w)
    BY <1>1 DEF IdsOf
  <2> DEFINE i == IF j < p THEN j ELSE j - 1
  <2>1. j # p /\ j \in Nat /\ p <= n
    BY <1>2
  <2>2. i \in 1 .. n - 1 /\ (IF p <= i THEN i + 1 ELSE i) = j
    BY <1>4, <2>1, <1>2
  <2> HIDE DEF i
  <2>3. w[i] = s[j]
    BY <1>5, <2>2
  <2> QED BY <1>6, <2>2, <2>3 DEF IdsOf
<1> QED BY <1>7, <1>8, <1>9, <1>10 DEF w, Increasing

-----------------------------------------------------------------------------
\* The table.

Table(e, f, w, r, c) ==
    [entries |-> e, finished |-> f, waiting |-> w, running |-> r, channel |-> c]

Marked(e, id, status) == [e EXCEPT ![id].status = status]

\* What a table keeps of another's jobs.
Continues(t, u) ==
    \A id \in DOMAIN t.entries \intersect DOMAIN u.entries :
        /\ u.entries[id].kind = t.entries[id].kind
        /\ u.entries[id].module = t.entries[id].module
        /\ u.entries[id].grant = t.entries[id].grant
        /\ t.entries[id].cancelled => u.entries[id].cancelled
        /\ t.entries[id].status \in Over => u.entries[id].status = t.entries[id].status

LEMMA WithStatusIs ==
    ASSUME NEW t, Records(t), NEW id, NEW status
    PROVE  WithStatus(t, id, status) =
              Table(Marked(t.entries, id, status), t.finished, t.waiting, t.running, t.channel)
<1>1. t = Table(t.entries, t.finished, t.waiting, t.running, t.channel)
  BY DEF Records, Table
<1> DEFINE e == t.entries
           f == t.finished
           w == t.waiting
           r == t.running
           c == t.channel
<1> HIDE DEF e, f, w, r, c
<1>2. t = Table(e, f, w, r, c)
  BY <1>1 DEF e, f, w, r, c
<1>3. WithStatus(Table(e, f, w, r, c), id, status) = Table(Marked(e, id, status), f, w, r, c)
  BY DEF WithStatus, Table, Marked
<1> QED BY <1>2, <1>3 DEF e, f, w, r, c

\* A record marked.
LEMMA MarkedIs ==
    ASSUME NEW e, e \in [DOMAIN e -> Jobs], NEW id \in DOMAIN e,
           NEW status \in Live \union Over
    PROVE  LET u == Marked(e, id, status)
           IN  /\ DOMAIN u = DOMAIN e /\ u \in [DOMAIN u -> Jobs]
               /\ \A k \in DOMAIN e : k # id => u[k] = e[k]
               /\ u[id].status = status /\ u[id].kind = e[id].kind
               /\ u[id].module = e[id].module /\ u[id].grant = e[id].grant
               /\ u[id].cancelled = e[id].cancelled
<1> DEFINE u == Marked(e, id, status)
<1>1. DOMAIN u = DOMAIN e /\ \A k \in DOMAIN e : u[k] = IF k = id THEN [e[k] EXCEPT !.status = status] ELSE e[k]
  BY DEF Marked
<1>2. e[id] \in Jobs
  OBVIOUS
<1>3. [e[id] EXCEPT !.status = status] \in Jobs
  BY <1>2 DEF Jobs
<1>4. u = [k \in DOMAIN u |-> u[k]]
  BY DEF Marked
<1>5. u[id] = [e[id] EXCEPT !.status = status]
  BY <1>1
<1>6. /\ u[id].status = status /\ u[id].kind = e[id].kind
      /\ u[id].module = e[id].module /\ u[id].grant = e[id].grant
      /\ u[id].cancelled = e[id].cancelled
  BY <1>2, <1>5 DEF Jobs
<1> HIDE DEF u
<1>7. u \in [DOMAIN u -> Jobs]
  BY <1>1, <1>2, <1>3, <1>4
<1> QED BY <1>1, <1>6, <1>7 DEF u

\* The kinds of status.
LEMMA Statuses ==
    ASSUME NEW t, Records(t)
    PROVE  /\ LiveIds(t) = WithIn(t, {"queued"}) \union WithIn(t, {"running"})
           /\ DOMAIN t.entries = LiveIds(t) \union WithIn(t, Over)
           /\ LiveIds(t) \intersect WithIn(t, Over) = {}
           /\ WithIn(t, {"queued"}) \intersect WithIn(t, {"running"}) = {}
<1>1. \A id \in DOMAIN t.entries : t.entries[id].status \in Live \union Over
  BY DEF Records, Jobs
<1> QED BY <1>1 DEF LiveIds, WithIn, Live, Over, Results

LEMMA RetiredIs ==
    ASSUME LanesAssumption, NEW t, Records(t), NEW id \in WithIn(t, Over),
           IdsOf(t.finished) = WithIn(t, Over) \ {id},
           \A n, k \in DOMAIN t.finished : t.finished[n] = t.finished[k] => n = k
    PROVE  LET u == Retired(t, id)
           IN  /\ Records(u) /\ Ring(u)
               /\ u.waiting = t.waiting /\ u.running = t.running /\ u.channel = t.channel
               /\ WithIn(u, {"queued"}) = WithIn(t, {"queued"})
               /\ WithIn(u, {"running"}) = WithIn(t, {"running"})
               /\ DOMAIN u.entries \subseteq DOMAIN t.entries
               /\ \A k \in DOMAIN u.entries : u.entries[k] = t.entries[k]
<1> DEFINE u == Retired(t, id)
           ring == Append(t.finished, id)
<1>1. /\ t = Table(t.entries, t.finished, t.waiting, t.running, t.channel)
      /\ t.finished \in Seq(Nat) /\ id \in Nat /\ id \in DOMAIN t.entries
  BY DEF Records, Table, WithIn
<1>2. /\ ring \in Seq(Nat) /\ Len(ring) = Len(t.finished) + 1
      /\ IdsOf(ring) = IdsOf(t.finished) \union {id} /\ Len(t.finished) \in Nat
      /\ \A n \in 1 .. Len(t.finished) : ring[n] = t.finished[n]
      /\ ring[Len(t.finished) + 1] = id
      /\ DOMAIN ring = 1 .. Len(t.finished) + 1
      /\ DOMAIN t.finished = 1 .. Len(t.finished)
  BY <1>1, AppendIds
<1> HIDE DEF ring
<1>7. IdsOf(ring) = WithIn(t, Over)
  BY <1>2
<1>3. ring # <<>>
  BY <1>2, EmptySeq
<1>4. ASSUME NEW n \in DOMAIN ring, NEW k \in DOMAIN ring, ring[n] = ring[k] PROVE n = k
  <2>1. \A i \in DOMAIN t.finished : ring[i] # id
    <3>1. \A i \in DOMAIN t.finished : t.finished[i] \in IdsOf(t.finished)
      BY ONLY DEF IdsOf
    <3>2. id \notin IdsOf(t.finished)
      OBVIOUS
    <3>3. \A i \in DOMAIN t.finished : ring[i] = t.finished[i]
      BY ONLY <1>2
    <3> QED BY ONLY <3>1, <3>2, <3>3
  <2>2. \A i \in DOMAIN ring : i \in DOMAIN t.finished \/ i = Len(t.finished) + 1
    BY <1>2
  <2> QED BY <1>2, <1>4, <2>1, <2>2
<1>5. CASE Len(ring) <= FinishedRecords
  <2>1. u = Table(t.entries, ring, t.waiting, t.running, t.channel)
    <3> DEFINE e == t.entries
               f == t.finished
               w == t.waiting
               r == t.running
               c == t.channel
    <3>1. u = [t EXCEPT !.finished = ring]
      BY <1>5 DEF Retired, ring
    <3> HIDE DEF e, f, w, r, c, u
    <3>2. t = Table(e, f, w, r, c)
      BY <1>1 DEF e, f, w, r, c
    <3>3. u = Table(e, ring, w, r, c)
      BY <3>1, <3>2 DEF Table
    <3> QED BY <3>3 DEF e, f, w, r, c
  <2> HIDE DEF u
  <2>2. /\ Records(u) /\ u.entries = t.entries /\ u.finished = ring
        /\ u.waiting = t.waiting /\ u.running = t.running /\ u.channel = t.channel
    <3>1. \A k \in DOMAIN t.entries :
             /\ t.entries[k].status = "superseded" => t.entries[k].kind = "activate"
             /\ t.entries[k].status = "cancelled" => t.entries[k].cancelled
      BY DEF Records
    <3>2. /\ t.entries \in [DOMAIN t.entries -> Jobs] /\ DOMAIN t.entries \subseteq Nat \ {0}
          /\ t.waiting \in Seq(Nat) /\ t.running \in Nat /\ t.channel \in Nat
      BY DEF Records
    <3>3. ring \in Seq(Nat)
      BY <1>2
    <3> QED BY ONLY <2>1, <3>1, <3>2, <3>3 DEF Records, Table
  <2>3. WithIn(u, Over) = WithIn(t, Over) /\ WithIn(u, {"queued"}) = WithIn(t, {"queued"})
        /\ WithIn(u, {"running"}) = WithIn(t, {"running"})
    BY <2>2 DEF WithIn
  <2>4. Ring(u)
    BY <1>4, <1>7, <2>2, <2>3 DEF Ring
  <2> QED BY <2>2, <2>3, <2>4 DEF u
<1>6. CASE ~(Len(ring) <= FinishedRecords)
  <2> DEFINE first == Head(ring)
             left == [k \in DOMAIN t.entries \ {first} |-> t.entries[k]]
  <2>1. u = Table(left, Tail(ring), t.waiting, t.running, t.channel)
    <3> DEFINE e == t.entries
               f == t.finished
               w == t.waiting
               r == t.running
               c == t.channel
    <3>1. u = [t EXCEPT !.finished = Tail(ring), !.entries = left]
      BY <1>6 DEF Retired, ring
    <3> HIDE DEF e, f, w, r, c, u, left
    <3>2. t = Table(e, f, w, r, c)
      BY <1>1 DEF e, f, w, r, c
    <3>3. u = Table(left, Tail(ring), w, r, c)
      BY <3>1, <3>2 DEF Table
    <3> QED BY <3>3 DEF e, f, w, r, c
  <2>2. /\ Tail(ring) \in Seq(Nat) /\ first \in IdsOf(ring)
        /\ IdsOf(Tail(ring)) = IdsOf(ring) \ {first}
        /\ \A n, k \in DOMAIN Tail(ring) : Tail(ring)[n] = Tail(ring)[k] => n = k
    BY <1>2, <1>3, <1>4, TailIds
  <2>3. /\ DOMAIN left = DOMAIN t.entries \ {first}
        /\ \A k \in DOMAIN left : left[k] = t.entries[k]
        /\ left \in [DOMAIN left -> Jobs]
    BY DEF Records
  <2> HIDE DEF u, left, first
  <2>4. /\ Records(u) /\ u.entries = left /\ u.finished = Tail(ring)
        /\ u.waiting = t.waiting /\ u.running = t.running /\ u.channel = t.channel
    <3>1. \A k \in DOMAIN left :
             /\ left[k].status = "superseded" => left[k].kind = "activate"
             /\ left[k].status = "cancelled" => left[k].cancelled
      BY <2>3 DEF Records
    <3>2. /\ DOMAIN left \subseteq Nat \ {0} /\ t.waiting \in Seq(Nat)
          /\ t.running \in Nat /\ t.channel \in Nat
      BY <2>3 DEF Records
    <3>3. left \in [DOMAIN left -> Jobs] /\ Tail(ring) \in Seq(Nat)
      BY <2>2, <2>3
    <3> QED BY ONLY <2>1, <3>1, <3>2, <3>3 DEF Records, Table
  <2>5. first \in WithIn(t, Over)
    BY <1>7, <2>2
  <2>6. /\ WithIn(u, Over) = WithIn(t, Over) \ {first}
        /\ WithIn(u, {"queued"}) = WithIn(t, {"queued"})
        /\ WithIn(u, {"running"}) = WithIn(t, {"running"})
    BY <2>3, <2>4, <2>5 DEF WithIn, Over, Results
  <2>7. Ring(u)
    BY <1>7, <2>2, <2>4, <2>6 DEF Ring
  <2> QED BY <2>3, <2>4, <2>6, <2>7 DEF u
<1> QED BY <1>5, <1>6

\* What one operation leaves of the lane: the running job and the channel,
\* or an idle lane that takes a job.
Runs(t, u) ==
    \/ u.running = t.running /\ u.channel = t.channel
    \/ t.running = 0 /\ u.running # 0 /\ u.channel = u.running

LEMMA DispatchedIs ==
    ASSUME NEW t, Records(t), Ring(t), RunsOne(t), InOrder(t)
    PROVE  LET u == Dispatched(t)
           IN  /\ TableOk(u) /\ QueueOk(u) /\ Continues(t, u) /\ Runs(t, u)
               /\ LiveIds(u) = LiveIds(t) /\ DOMAIN u.entries = DOMAIN t.entries
               /\ \A k \in DOMAIN t.entries :
                     u.entries[k].cancelled = t.entries[k].cancelled
<1> DEFINE u == Dispatched(t)
           h == Head(t.waiting)
<1>1. CASE t.running # 0 \/ t.waiting = <<>>
  <2>1. u = t
    BY <1>1 DEF Dispatched
  <2>2. QueueOk(t) /\ TableOk(t)
    BY <1>1 DEF QueueOk, NotIdle, TableOk
  <2>3. Continues(t, t) /\ Runs(t, t)
    BY DEF Continues, Runs
  <2> QED BY <2>1, <2>2, <2>3
<1>2. CASE t.running = 0 /\ t.waiting # <<>>
  <2> DEFINE e == Marked(t.entries, h, "running")
  <2>1. /\ t.waiting \in Seq(Nat) /\ Increasing(t.waiting)
        /\ \A n, k \in DOMAIN t.waiting : t.waiting[n] = t.waiting[k] => n = k
    BY IncreasingOnce DEF Records, InOrder
  <2>2. /\ Tail(t.waiting) \in Seq(Nat) /\ h \in IdsOf(t.waiting) /\ h \in Nat
        /\ IdsOf(Tail(t.waiting)) = IdsOf(t.waiting) \ {h}
        /\ Increasing(Tail(t.waiting)) /\ \A x \in IdsOf(Tail(t.waiting)) : h < x
    BY <1>2, <2>1, TailIds, IncreasingTail
  <2>3. u = Table(e, t.finished, Tail(t.waiting), h, h)
    <3> DEFINE v == WithStatus(t, h, "running")
    <3>1. u = [v EXCEPT !.waiting = Tail(t.waiting), !.running = h, !.channel = h]
      BY <1>2 DEF Dispatched
    <3>2. v = Table(e, t.finished, t.waiting, t.running, t.channel)
      BY WithStatusIs
    <3> HIDE DEF u, v, e, h
    <3> QED BY <3>1, <3>2 DEF Table
  <2>4. h \in DOMAIN t.entries /\ t.entries[h].status = "queued" /\ h # 0
    BY <2>2 DEF InOrder, WithIn, Records
  <2>5. /\ DOMAIN e = DOMAIN t.entries /\ e \in [DOMAIN e -> Jobs]
        /\ \A k \in DOMAIN t.entries : k # h => e[k] = t.entries[k]
        /\ e[h].status = "running" /\ e[h].kind = t.entries[h].kind
        /\ e[h].module = t.entries[h].module /\ e[h].grant = t.entries[h].grant
        /\ e[h].cancelled = t.entries[h].cancelled
    <3>1. t.entries \in [DOMAIN t.entries -> Jobs] /\ "running" \in Live \union Over
      BY DEF Records, Live
    <3> QED BY ONLY <2>4, <3>1, MarkedIs DEF e
  <2> HIDE DEF u, e, h
  <2>6. /\ u.entries = e /\ u.finished = t.finished /\ u.waiting = Tail(t.waiting)
        /\ u.running = h /\ u.channel = h
    BY <2>3 DEF Table
  <2>7. Records(u)
    <3>1. \A k \in DOMAIN e :
             /\ e[k].status = "superseded" => e[k].kind = "activate"
             /\ e[k].status = "cancelled" => e[k].cancelled
      BY <2>5 DEF Records
    <3>2. t.finished \in Seq(Nat) /\ DOMAIN e \subseteq Nat \ {0}
      BY <2>5 DEF Records
    <3>3. e \in [DOMAIN e -> Jobs] /\ Tail(t.waiting) \in Seq(Nat) /\ h \in Nat
      BY <2>2, <2>5
    <3> QED BY ONLY <2>3, <3>1, <3>2, <3>3 DEF Records, Table
  <2>8. /\ WithIn(u, Over) = WithIn(t, Over)
        /\ WithIn(u, {"queued"}) = WithIn(t, {"queued"}) \ {h}
        /\ WithIn(u, {"running"}) = WithIn(t, {"running"}) \union {h}
        /\ LiveIds(u) = LiveIds(t)
    BY <2>4, <2>5, <2>6 DEF WithIn, LiveIds, Live, Over, Results
  <2>9. WithIn(t, {"running"}) = {}
    BY <1>2 DEF RunsOne
  <2>10. RunsOne(u)
    BY <2>2, <2>4, <2>6, <2>8, <2>9 DEF RunsOne, InOrder
  <2>11. Ring(u)
    BY <2>6, <2>8 DEF Ring
  <2>12. QueueOk(u)
    BY <2>2, <2>4, <2>6, <2>8 DEF QueueOk, InOrder, NotIdle
  <2>13. Continues(t, u)
    <3> SUFFICES ASSUME NEW k \in DOMAIN t.entries
                 PROVE  /\ e[k].kind = t.entries[k].kind /\ e[k].module = t.entries[k].module
                        /\ e[k].grant = t.entries[k].grant
                        /\ t.entries[k].cancelled => e[k].cancelled
                        /\ t.entries[k].status \in Over => e[k].status = t.entries[k].status
      BY <2>6 DEF Continues
    <3>1. t.entries[h].status \notin Over
      BY <2>4 DEF Over, Results
    <3> QED BY <2>5, <3>1
  <2>14. Runs(t, u)
    BY <1>2, <2>4, <2>6 DEF Runs
  <2>15. \A k \in DOMAIN t.entries : u.entries[k].cancelled = t.entries[k].cancelled
    BY <2>5, <2>6
  <2>16. DOMAIN u.entries = DOMAIN t.entries
    BY <2>5, <2>6
  <2> QED BY <2>7, <2>8, <2>10, <2>11, <2>12, <2>13, <2>14, <2>15, <2>16 DEF TableOk, u
<1> QED BY <1>1, <1>2

LEMMA TableWith ==
    ASSUME NEW t, Records(t), NEW e, NEW w
    PROVE  [t EXCEPT !.entries = e, !.waiting = w]
              = Table(e, t.finished, w, t.running, t.channel)
<1>1. PICK b, f, q, r, c : t = Table(b, f, q, r, c)
  BY DEF Records, Table
<1>2. [t EXCEPT !.entries = e, !.waiting = w] = Table(e, f, w, r, c)
  <2> DEFINE u == [t EXCEPT !.entries = e]
  <2>1. u = Table(e, f, q, r, c)
    BY <1>1 DEF Table
  <2> HIDE DEF u
  <2>2. [u EXCEPT !.waiting = w] = Table(e, f, w, r, c)
    BY <2>1 DEF Table
  <2>3. [t EXCEPT !.entries = e, !.waiting = w] = [u EXCEPT !.waiting = w]
    BY DEF u
  <2> QED BY <2>2, <2>3
<1>3. t.finished = f /\ t.running = r /\ t.channel = c
  BY <1>1 DEF Table
<1> QED BY <1>2, <1>3

\* u is the table t after that job entered its line under the number id.
EnteredAs(t, u, id, job) ==
    /\ TableOk(u) /\ QueueOk(u) /\ Continues(t, u) /\ Runs(t, u)
    /\ LiveIds(u) = LiveIds(t) \union {id}
    /\ DOMAIN u.entries = DOMAIN t.entries \union {id}
    /\ \A k \in DOMAIN t.entries : u.entries[k].cancelled = t.entries[k].cancelled
    /\ u.entries[id].kind = job.kind /\ u.entries[id].module = job.module
    /\ u.entries[id].grant = job.grant
    /\ u.entries[id].cancelled = job.cancelled

LEMMA SubmittedIs ==
    ASSUME NEW t, TableOk(t), QueueOk(t), NEW id \in Nat \ {0},
           \A k \in DOMAIN t.entries : k < id,
           NEW job \in Jobs, job.status = "queued"
    PROVE  EnteredAs(t, Submitted(t, id, job), id, job)
<1> DEFINE e == [k \in DOMAIN t.entries \union {id} |-> IF k = id THEN job ELSE t.entries[k]]
           w == Append(t.waiting, id)
           v == Table(e, t.finished, w, t.running, t.channel)
<1>1. Submitted(t, id, job) = Dispatched(v)
  <2>1. Submitted(t, id, job) = Dispatched([t EXCEPT !.entries = e, !.waiting = w])
    BY DEF Submitted
  <2>2. Records(t)
    BY DEF TableOk
  <2> HIDE DEF e, w
  <2>3. [t EXCEPT !.entries = e, !.waiting = w] = v
    BY <2>2, TableWith
  <2> QED BY <2>1, <2>3
<1>2. /\ w \in Seq(Nat) /\ IdsOf(w) = IdsOf(t.waiting) \union {id}
  BY AppendIds DEF TableOk, Records
<1>3. Increasing(w)
  <2>1. t.waiting \in Seq(Nat) /\ Increasing(t.waiting) /\ id \in Nat
    BY DEF TableOk, Records, QueueOk, InOrder
  <2>2. \A y \in IdsOf(t.waiting) : y < id
    BY DEF QueueOk, InOrder, WithIn
  <2> QED BY <2>1, <2>2, IncreasingAppend
<1>4. /\ DOMAIN e = DOMAIN t.entries \union {id} /\ id \notin DOMAIN t.entries
      /\ e[id] = job /\ \A k \in DOMAIN t.entries : e[k] = t.entries[k]
      /\ e \in [DOMAIN e -> Jobs]
  <2>1. id \notin DOMAIN t.entries
    <3> SUFFICES ASSUME id \in DOMAIN t.entries PROVE FALSE
      OBVIOUS
    <3>1. id < id /\ id \in Nat
      OBVIOUS
    <3> QED BY <3>1
  <2>2. \A k \in DOMAIN t.entries : t.entries[k] \in Jobs
    BY DEF TableOk, Records
  <2> QED BY <2>1, <2>2
<1>5. /\ v.entries = e /\ v.finished = t.finished /\ v.waiting = w
      /\ v.running = t.running /\ v.channel = t.channel
  BY DEF Table
<1>6. Records(v)
  <2> HIDE DEF e, w
  <2>1. \A k \in DOMAIN e :
           /\ e[k].status = "superseded" => e[k].kind = "activate"
           /\ e[k].status = "cancelled" => e[k].cancelled
    BY <1>4 DEF TableOk, Records
  <2>2. /\ t.finished \in Seq(Nat) /\ DOMAIN e \subseteq Nat \ {0}
        /\ t.running \in Nat /\ t.channel \in Nat
    BY <1>4 DEF TableOk, Records
  <2>3. e \in [DOMAIN e -> Jobs] /\ w \in Seq(Nat)
    BY <1>2, <1>4
  <2> QED BY ONLY <2>1, <2>2, <2>3 DEF Records, Table, v
<1> HIDE DEF e, w, v
<1>7. /\ WithIn(v, Over) = WithIn(t, Over)
      /\ WithIn(v, {"queued"}) = WithIn(t, {"queued"}) \union {id}
      /\ WithIn(v, {"running"}) = WithIn(t, {"running"})
      /\ LiveIds(v) = LiveIds(t) \union {id}
  BY <1>4, <1>5 DEF WithIn, LiveIds, Live, Over, Results
<1>8. Ring(v)
  BY <1>5, <1>7 DEF Ring, TableOk
<1>9. RunsOne(v)
  <2>1. t.running < id
    <3>1. t.running = 0 \/ t.running \in DOMAIN t.entries
      BY DEF TableOk, RunsOne, WithIn
    <3> QED BY <3>1
  <2> QED BY <1>5, <1>7, <2>1 DEF RunsOne, TableOk
<1>10. InOrder(v)
  BY <1>2, <1>3, <1>5, <1>7 DEF InOrder, QueueOk
<1>11. Continues(t, v)
  BY <1>4, <1>5 DEF Continues
<1> DEFINE u == Dispatched(v)
<1>12. /\ TableOk(u) /\ QueueOk(u) /\ Continues(v, u) /\ Runs(v, u)
       /\ LiveIds(u) = LiveIds(v) /\ DOMAIN u.entries = DOMAIN v.entries
       /\ \A k \in DOMAIN v.entries : u.entries[k].cancelled = v.entries[k].cancelled
  BY <1>6, <1>8, <1>9, <1>10, DispatchedIs
<1> HIDE DEF u
<1>13. Continues(t, u)
  BY <1>4, <1>5, <1>11, <1>12 DEF Continues
<1>14. Runs(t, u)
  BY <1>5, <1>12 DEF Runs
<1>15. \A k \in DOMAIN t.entries : u.entries[k].cancelled = t.entries[k].cancelled
  BY <1>4, <1>5, <1>12
<1>16. /\ u.entries[id].kind = job.kind /\ u.entries[id].module = job.module
       /\ u.entries[id].grant = job.grant /\ u.entries[id].cancelled = job.cancelled
  <2>1. id \in DOMAIN v.entries /\ id \in DOMAIN u.entries
    BY <1>4, <1>5, <1>12
  <2> QED BY <1>4, <1>5, <1>12, <2>1 DEF Continues
<1>17. DOMAIN u.entries = DOMAIN t.entries \union {id} /\ LiveIds(u) = LiveIds(t) \union {id}
  BY <1>4, <1>5, <1>7, <1>12
<1>18. EnteredAs(t, u, id, job)
  BY ONLY <1>12, <1>13, <1>14, <1>15, <1>16, <1>17 DEF EnteredAs
<1> QED BY ONLY <1>1, <1>18 DEF u

LEMMA DroppedIs ==
    ASSUME LanesAssumption, NEW t, TableOk(t), QueueOk(t),
           NEW id \in WithIn(t, {"queued"}), NEW status \in Over,
           status = "superseded" => t.entries[id].kind = "activate",
           status = "cancelled" => t.entries[id].cancelled
    PROVE  LET u == Dropped(t, id, status)
           IN  /\ TableOk(u) /\ QueueOk(u) /\ Continues(t, u)
               /\ u.running = t.running /\ u.channel = t.channel
               /\ LiveIds(u) = LiveIds(t) \ {id}
               /\ DOMAIN u.entries \subseteq DOMAIN t.entries
               /\ \A k \in DOMAIN u.entries : k # id => u.entries[k] = t.entries[k]
<1> DEFINE e == Marked(t.entries, id, status)
           w == Without(t.waiting, id)
           v == Table(e, t.finished, w, t.running, t.channel)
           u == Retired(v, id)
<1>1. Dropped(t, id, status) = u
  <2> DEFINE x == WithStatus(t, id, status)
  <2>1. Dropped(t, id, status) = Retired([x EXCEPT !.waiting = w], id)
    BY DEF Dropped
  <2>2. x = Table(e, t.finished, t.waiting, t.running, t.channel)
    BY WithStatusIs DEF TableOk
  <2> HIDE DEF x, e, w
  <2>3. [x EXCEPT !.waiting = w] = v
    BY <2>2 DEF Table
  <2> QED BY <2>1, <2>3
<1>2. /\ w \in Seq(Nat) /\ Increasing(w) /\ IdsOf(w) = IdsOf(t.waiting) \ {id}
  <2>1. t.waiting \in Seq(Nat) /\ Increasing(t.waiting) /\ id \in IdsOf(t.waiting)
    BY DEF TableOk, Records, QueueOk, InOrder
  <2> QED BY <2>1, WithoutIds
<1>3. /\ id \in DOMAIN t.entries /\ t.entries[id].status = "queued"
  BY DEF WithIn
<1>4. /\ DOMAIN e = DOMAIN t.entries /\ e \in [DOMAIN e -> Jobs]
      /\ \A k \in DOMAIN t.entries : k # id => e[k] = t.entries[k]
      /\ e[id].status = status /\ e[id].kind = t.entries[id].kind
      /\ e[id].module = t.entries[id].module /\ e[id].grant = t.entries[id].grant
      /\ e[id].cancelled = t.entries[id].cancelled
  <2>1. t.entries \in [DOMAIN t.entries -> Jobs] /\ status \in Live \union Over
    BY DEF TableOk, Records
  <2> QED BY ONLY <1>3, <2>1, MarkedIs DEF e
<1>5. /\ v.entries = e /\ v.finished = t.finished /\ v.waiting = w
      /\ v.running = t.running /\ v.channel = t.channel
  BY DEF Table
<1>6. Records(v)
  <2> HIDE DEF e, w
  <2>1. \A k \in DOMAIN e :
           /\ e[k].status = "superseded" => e[k].kind = "activate"
           /\ e[k].status = "cancelled" => e[k].cancelled
    BY <1>4 DEF TableOk, Records
  <2>2. /\ t.finished \in Seq(Nat) /\ DOMAIN e \subseteq Nat \ {0}
        /\ t.running \in Nat /\ t.channel \in Nat
    BY <1>4 DEF TableOk, Records
  <2>3. e \in [DOMAIN e -> Jobs] /\ w \in Seq(Nat)
    BY <1>2, <1>4
  <2> QED BY ONLY <2>1, <2>2, <2>3 DEF Records, Table, v
<1> HIDE DEF e, w, v, u
<1>7. /\ WithIn(v, Over) = WithIn(t, Over) \union {id} /\ id \notin WithIn(t, Over)
      /\ WithIn(v, {"queued"}) = WithIn(t, {"queued"}) \ {id}
      /\ WithIn(v, {"running"}) = WithIn(t, {"running"})
  BY <1>3, <1>4, <1>5 DEF WithIn, Live, Over, Results
<1>8. /\ IdsOf(v.finished) = WithIn(v, Over) \ {id} /\ id \in WithIn(v, Over)
      /\ \A n, k \in DOMAIN v.finished : v.finished[n] = v.finished[k] => n = k
  BY <1>5, <1>7 DEF Ring, TableOk
<1>9. /\ Records(u) /\ Ring(u)
      /\ u.waiting = v.waiting /\ u.running = v.running /\ u.channel = v.channel
      /\ WithIn(u, {"queued"}) = WithIn(v, {"queued"})
      /\ WithIn(u, {"running"}) = WithIn(v, {"running"})
      /\ DOMAIN u.entries \subseteq DOMAIN v.entries
      /\ \A k \in DOMAIN u.entries : u.entries[k] = v.entries[k]
  BY <1>6, <1>8, RetiredIs DEF u
<1>10. LiveIds(u) = LiveIds(t) \ {id}
  <2>1. Records(t)
    BY DEF TableOk
  <2>2. /\ LiveIds(u) = WithIn(u, {"queued"}) \union WithIn(u, {"running"})
        /\ LiveIds(t) = WithIn(t, {"queued"}) \union WithIn(t, {"running"})
        /\ WithIn(t, {"queued"}) \intersect WithIn(t, {"running"}) = {}
    BY <1>9, <2>1, Statuses
  <2> QED BY <1>7, <1>9, <2>2
<1>11. RunsOne(u)
  BY <1>5, <1>7, <1>9 DEF RunsOne, TableOk
<1>12. QueueOk(u)
  <2>1. t.waiting # <<>> => t.running # 0
    BY DEF QueueOk, NotIdle
  <2>2. t.waiting # <<>>
    <3>1. id \in IdsOf(t.waiting)
      BY DEF QueueOk, InOrder
    <3>2. DOMAIN <<>> = {}
      OBVIOUS
    <3> QED BY <3>1, <3>2 DEF IdsOf
  <2>3. InOrder(u)
    BY <1>2, <1>5, <1>7, <1>9 DEF QueueOk, InOrder
  <2> QED BY <1>5, <1>9, <2>1, <2>2, <2>3 DEF QueueOk, NotIdle
<1>13. \A k \in DOMAIN u.entries : k # id => u.entries[k] = t.entries[k]
  BY <1>4, <1>5, <1>9
<1>14. Continues(t, u)
  <2> SUFFICES ASSUME NEW k \in DOMAIN t.entries, k \in DOMAIN u.entries
               PROVE  /\ u.entries[k].kind = t.entries[k].kind
                      /\ u.entries[k].module = t.entries[k].module
                      /\ u.entries[k].grant = t.entries[k].grant
                      /\ t.entries[k].cancelled => u.entries[k].cancelled
                      /\ t.entries[k].status \in Over =>
                            u.entries[k].status = t.entries[k].status
    BY DEF Continues
  <2>1. CASE k = id
    <3>1. u.entries[k] = e[id] /\ t.entries[k].status \notin Over
      BY <1>3, <1>5, <1>9, <2>1 DEF Over, Results
    <3> QED BY <1>4, <2>1, <3>1
  <2>2. CASE k # id
    BY <1>13, <2>2
  <2> QED BY <2>1, <2>2
<1> QED BY <1>1, <1>4, <1>5, <1>9, <1>10, <1>11, <1>12, <1>13, <1>14 DEF TableOk

LEMMA AskedIs ==
    ASSUME NEW t, TableOk(t), QueueOk(t), NEW id \in DOMAIN t.entries
    PROVE  LET u == Asked(t, id)
           IN  /\ TableOk(u) /\ QueueOk(u) /\ Continues(t, u)
               /\ u.running = t.running /\ u.channel = t.channel
               /\ LiveIds(u) = LiveIds(t) /\ DOMAIN u.entries = DOMAIN t.entries
               /\ WithIn(u, {"queued"}) = WithIn(t, {"queued"})
               /\ u.entries[id].cancelled
               /\ \A k \in DOMAIN u.entries : k # id => u.entries[k] = t.entries[k]
<1> DEFINE e == [t.entries EXCEPT ![id].cancelled = TRUE]
           u == Table(e, t.finished, t.waiting, t.running, t.channel)
<1>1. Asked(t, id) = u
  <2>1. PICK b, f, q, r, c : t = Table(b, f, q, r, c)
    BY DEF TableOk, Records, Table
  <2>2. t.entries = b /\ t.finished = f /\ t.waiting = q /\ t.running = r /\ t.channel = c
    BY <2>1 DEF Table
  <2>3. Asked(t, id) = [t EXCEPT !.entries = [b EXCEPT ![id].cancelled = TRUE]]
    BY <2>2 DEF Asked
  <2> DEFINE d == [b EXCEPT ![id].cancelled = TRUE]
  <2>4. Asked(t, id) = [t EXCEPT !.entries = d]
    BY <2>3
  <2> HIDE DEF d
  <2>5. Asked(t, id) = Table(d, f, q, r, c)
    BY <2>1, <2>4 DEF Table
  <2> QED BY <2>2, <2>5 DEF d
<1>2. /\ DOMAIN e = DOMAIN t.entries
      /\ \A k \in DOMAIN t.entries :
            e[k] = IF k = id THEN [t.entries[k] EXCEPT !.cancelled = TRUE] ELSE t.entries[k]
      /\ e = [k \in DOMAIN e |-> e[k]]
  OBVIOUS
<1>3. t.entries[id] \in Jobs
  BY DEF TableOk, Records
<1>4. /\ [t.entries[id] EXCEPT !.cancelled = TRUE] \in Jobs
      /\ [t.entries[id] EXCEPT !.cancelled = TRUE].cancelled = TRUE
      /\ [t.entries[id] EXCEPT !.cancelled = TRUE].status = t.entries[id].status
      /\ [t.entries[id] EXCEPT !.cancelled = TRUE].kind = t.entries[id].kind
      /\ [t.entries[id] EXCEPT !.cancelled = TRUE].module = t.entries[id].module
      /\ [t.entries[id] EXCEPT !.cancelled = TRUE].grant = t.entries[id].grant
  BY <1>3 DEF Jobs
<1>5. e[id] = [t.entries[id] EXCEPT !.cancelled = TRUE]
  BY <1>2
<1>6. /\ u.entries = e /\ u.finished = t.finished /\ u.waiting = t.waiting
      /\ u.running = t.running /\ u.channel = t.channel
  BY DEF Table
<1> HIDE DEF e
<1>7. /\ e[id].cancelled = TRUE /\ e[id].status = t.entries[id].status
      /\ e[id].kind = t.entries[id].kind /\ e[id].module = t.entries[id].module
      /\ e[id].grant = t.entries[id].grant /\ e[id] \in Jobs
      /\ \A k \in DOMAIN e : k # id => e[k] = t.entries[k]
  BY <1>2, <1>4, <1>5
<1>8. e \in [DOMAIN e -> Jobs]
  <2>1. \A k \in DOMAIN t.entries : t.entries[k] \in Jobs
    BY DEF TableOk, Records
  <2>2. \A k \in DOMAIN e : e[k] \in Jobs
    BY ONLY <1>2, <1>7, <2>1
  <2> QED BY ONLY <1>2, <2>2
<1>9. Records(u)
  <2>1. \A k \in DOMAIN e :
           /\ e[k].status = "superseded" => e[k].kind = "activate"
           /\ e[k].status = "cancelled" => e[k].cancelled
    <3>1. \A k \in DOMAIN t.entries :
             /\ t.entries[k].status = "superseded" => t.entries[k].kind = "activate"
             /\ t.entries[k].status = "cancelled" => t.entries[k].cancelled
      BY DEF TableOk, Records
    <3>2. DOMAIN e = DOMAIN t.entries
      BY <1>2
    <3> QED BY ONLY <1>7, <3>1, <3>2
  <2>2. /\ t.finished \in Seq(Nat) /\ t.waiting \in Seq(Nat)
        /\ DOMAIN e \subseteq Nat \ {0} /\ t.running \in Nat /\ t.channel \in Nat
    BY <1>2 DEF TableOk, Records
  <2> QED BY ONLY <1>8, <2>1, <2>2 DEF Records, Table, u
<1> HIDE DEF u
<1>10. ASSUME NEW some PROVE WithIn(u, some) = WithIn(t, some)
  BY <1>2, <1>6, <1>7 DEF WithIn
<1>11. LiveIds(u) = LiveIds(t)
  BY <1>2, <1>6, <1>7 DEF LiveIds
<1>12. TableOk(u)
  <2>1. Ring(u)
    BY <1>6, <1>10 DEF TableOk, Ring
  <2>2. RunsOne(u)
    BY <1>6, <1>10 DEF TableOk, RunsOne
  <2> QED BY <1>9, <2>1, <2>2 DEF TableOk
<1>13. QueueOk(u)
  BY <1>6, <1>10 DEF QueueOk, InOrder, NotIdle
<1>14. Continues(t, u)
  <2> SUFFICES ASSUME NEW k \in DOMAIN t.entries
               PROVE  /\ e[k].kind = t.entries[k].kind /\ e[k].module = t.entries[k].module
                      /\ e[k].grant = t.entries[k].grant
                      /\ t.entries[k].cancelled => e[k].cancelled
                      /\ e[k].status = t.entries[k].status
    BY <1>6 DEF Continues
  <2> QED BY <1>2, <1>7
<1> QED BY <1>1, <1>2, <1>6, <1>7, <1>10, <1>11, <1>12, <1>13, <1>14

LEMMA CancelledIs ==
    ASSUME LanesAssumption, NEW t, TableOk(t), QueueOk(t), NEW id \in LiveIds(t)
    PROVE  LET u == Cancelled(t, id)
           IN  /\ TableOk(u) /\ QueueOk(u) /\ Continues(t, u)
               /\ u.running = t.running /\ u.channel = t.channel
               /\ LiveIds(u) = IF t.entries[id].status = "queued" THEN LiveIds(t) \ {id}
                               ELSE LiveIds(t)
               /\ DOMAIN u.entries \subseteq DOMAIN t.entries
               /\ id \in LiveIds(u) => u.entries[id].cancelled
               /\ \A k \in DOMAIN u.entries : k # id => u.entries[k] = t.entries[k]
<1> DEFINE a == Asked(t, id)
<1>1. id \in DOMAIN t.entries /\ t.entries[id].status \in Live
  BY DEF LiveIds
<1>2. /\ TableOk(a) /\ QueueOk(a) /\ Continues(t, a)
      /\ a.running = t.running /\ a.channel = t.channel
      /\ LiveIds(a) = LiveIds(t) /\ DOMAIN a.entries = DOMAIN t.entries
      /\ WithIn(a, {"queued"}) = WithIn(t, {"queued"})
      /\ a.entries[id].cancelled
      /\ \A k \in DOMAIN a.entries : k # id => a.entries[k] = t.entries[k]
  BY <1>1, AskedIs
<1> HIDE DEF a
<1>3. CASE t.entries[id].status = "queued"
  <2> DEFINE u == Dropped(a, id, "cancelled")
  <2>1. Cancelled(t, id) = u
    BY <1>3 DEF Cancelled, a
  <2>2. id \in WithIn(a, {"queued"}) /\ "cancelled" \in Over /\ "cancelled" # "superseded"
    BY <1>1, <1>2, <1>3 DEF WithIn, Over, Results
  <2>3. /\ TableOk(u) /\ QueueOk(u) /\ Continues(a, u)
        /\ u.running = a.running /\ u.channel = a.channel
        /\ LiveIds(u) = LiveIds(a) \ {id}
        /\ DOMAIN u.entries \subseteq DOMAIN a.entries
        /\ \A k \in DOMAIN u.entries : k # id => u.entries[k] = a.entries[k]
    BY <1>2, <2>2, DroppedIs
  <2> HIDE DEF u
  <2>4. Continues(t, u)
    BY <1>2, <2>3 DEF Continues
  <2> QED BY <1>2, <1>3, <2>1, <2>3, <2>4
<1>4. CASE t.entries[id].status # "queued"
  <2>1. t.entries[id].status = "running"
    BY <1>1, <1>4 DEF Live
  <2>2. Cancelled(t, id) = a
    BY <2>1 DEF Cancelled, a
  <2> QED BY <1>2, <1>4, <2>2
<1> QED BY <1>3, <1>4

LEMMA CompletedIs ==
    ASSUME LanesAssumption, NEW t, TableOk(t), QueueOk(t), t.running # 0,
           NEW result \in Results,
           result = "cancelled" => t.entries[t.running].cancelled
    PROVE  LET u == Completed(t, t.running, result)
           IN  /\ TableOk(u) /\ QueueOk(u) /\ Continues(t, u)
               /\ \/ u.running = 0 /\ u.channel = t.channel
                  \/ u.running # 0 /\ u.channel = u.running
               /\ LiveIds(u) = LiveIds(t) \ {t.running}
               /\ DOMAIN u.entries \subseteq DOMAIN t.entries
               /\ \A k \in DOMAIN u.entries :
                     u.entries[k].cancelled = t.entries[k].cancelled
<1> DEFINE id == t.running
           e == Marked(t.entries, id, result)
           v == Table(e, t.finished, t.waiting, 0, t.channel)
           r == Retired(v, id)
           u == Dispatched(r)
<1>1. Completed(t, id, result) = u
  <2> DEFINE x == WithStatus(t, id, result)
  <2>1. Completed(t, id, result) = Dispatched(Retired([x EXCEPT !.running = 0], id))
    BY DEF Completed
  <2>2. x = Table(e, t.finished, t.waiting, t.running, t.channel)
    BY WithStatusIs DEF TableOk
  <2> HIDE DEF x, e
  <2>3. [x EXCEPT !.running = 0] = v
    BY <2>2 DEF Table
  <2> QED BY <2>1, <2>3
<1>2. id \in WithIn(t, {"running"}) /\ WithIn(t, {"running"}) = {id}
  BY DEF TableOk, RunsOne
<1>3. /\ id \in DOMAIN t.entries /\ t.entries[id].status = "running"
      /\ id \in Nat /\ id # 0
  BY <1>2 DEF WithIn, TableOk, Records
<1>4. /\ DOMAIN e = DOMAIN t.entries /\ e \in [DOMAIN e -> Jobs]
      /\ \A k \in DOMAIN t.entries : k # id => e[k] = t.entries[k]
      /\ e[id].status = result /\ e[id].kind = t.entries[id].kind
      /\ e[id].module = t.entries[id].module /\ e[id].grant = t.entries[id].grant
      /\ e[id].cancelled = t.entries[id].cancelled
  <2>1. t.entries \in [DOMAIN t.entries -> Jobs] /\ result \in Live \union Over
    BY DEF TableOk, Records, Over
  <2> HIDE DEF id
  <2> QED BY ONLY <1>3, <2>1, MarkedIs DEF e
<1>5. /\ v.entries = e /\ v.finished = t.finished /\ v.waiting = t.waiting
      /\ v.running = 0 /\ v.channel = t.channel
  BY DEF Table
<1>6. Records(v)
  <2> HIDE DEF e, id
  <2>1. \A k \in DOMAIN e :
           /\ e[k].status = "superseded" => e[k].kind = "activate"
           /\ e[k].status = "cancelled" => e[k].cancelled
    <3>1. result # "superseded"
      BY DEF Results
    <3>2. result = "cancelled" => t.entries[id].cancelled
      BY DEF id
    <3> QED BY <1>4, <3>1, <3>2 DEF TableOk, Records
  <2>2. /\ t.finished \in Seq(Nat) /\ t.waiting \in Seq(Nat)
        /\ DOMAIN e \subseteq Nat \ {0} /\ 0 \in Nat /\ t.channel \in Nat
    BY <1>4 DEF TableOk, Records
  <2>3. e \in [DOMAIN e -> Jobs]
    BY <1>4
  <2> QED BY ONLY <2>1, <2>2, <2>3 DEF Records, Table, v
<1> HIDE DEF e, v, r, u, id
<1>7. /\ WithIn(v, Over) = WithIn(t, Over) \union {id} /\ id \notin WithIn(t, Over)
      /\ WithIn(v, {"queued"}) = WithIn(t, {"queued"})
      /\ WithIn(v, {"running"}) = {}
  <2>1. \A k \in DOMAIN t.entries : t.entries[k].status = "running" => k = id
    BY <1>2 DEF WithIn
  <2> QED BY <1>3, <1>4, <1>5, <2>1 DEF WithIn, Live, Over, Results
<1>8. /\ IdsOf(v.finished) = WithIn(v, Over) \ {id} /\ id \in WithIn(v, Over)
      /\ \A n, k \in DOMAIN v.finished : v.finished[n] = v.finished[k] => n = k
  BY <1>5, <1>7 DEF Ring, TableOk
<1>9. /\ Records(r) /\ Ring(r)
      /\ r.waiting = v.waiting /\ r.running = v.running /\ r.channel = v.channel
      /\ WithIn(r, {"queued"}) = WithIn(v, {"queued"})
      /\ WithIn(r, {"running"}) = WithIn(v, {"running"})
      /\ DOMAIN r.entries \subseteq DOMAIN v.entries
      /\ \A k \in DOMAIN r.entries : r.entries[k] = v.entries[k]
  BY <1>6, <1>8, RetiredIs DEF r
<1>10. RunsOne(r)
  <2>1. \A k \in WithIn(r, {"queued"}) : 0 < k
    <3>1. \A k \in DOMAIN r.entries : k \in Nat /\ k # 0
      BY <1>9 DEF Records
    <3> QED BY <3>1 DEF WithIn
  <2>2. {r.running} \ {0} = {} /\ r.running = 0 /\ WithIn(r, {"running"}) = {}
    BY <1>5, <1>7, <1>9
  <2> QED BY <2>1, <2>2 DEF RunsOne
<1>11. InOrder(r)
  BY <1>5, <1>7, <1>9 DEF QueueOk, InOrder
<1>12. /\ TableOk(u) /\ QueueOk(u) /\ Continues(r, u) /\ Runs(r, u)
       /\ LiveIds(u) = LiveIds(r) /\ DOMAIN u.entries = DOMAIN r.entries
       /\ \A k \in DOMAIN r.entries : u.entries[k].cancelled = r.entries[k].cancelled
  BY <1>9, <1>10, <1>11, DispatchedIs DEF u
<1>13. LiveIds(u) = LiveIds(t) \ {id}
  <2>1. Records(t)
    BY DEF TableOk
  <2>2. /\ LiveIds(r) = WithIn(r, {"queued"}) \union WithIn(r, {"running"})
        /\ LiveIds(t) = WithIn(t, {"queued"}) \union WithIn(t, {"running"})
        /\ WithIn(t, {"queued"}) \intersect WithIn(t, {"running"}) = {}
    BY <1>9, <2>1, Statuses
  <2> QED BY <1>2, <1>7, <1>9, <1>12, <2>2
<1>14. \A k \in DOMAIN u.entries : r.entries[k] = e[k] /\ k \in DOMAIN t.entries
  BY <1>4, <1>5, <1>9, <1>12
<1>15. \A k \in DOMAIN u.entries : u.entries[k].cancelled = t.entries[k].cancelled
  BY <1>4, <1>12, <1>14
<1>16. Continues(t, u)
  <2> SUFFICES ASSUME NEW k \in DOMAIN t.entries, k \in DOMAIN u.entries
               PROVE  /\ u.entries[k].kind = t.entries[k].kind
                      /\ u.entries[k].module = t.entries[k].module
                      /\ u.entries[k].grant = t.entries[k].grant
                      /\ t.entries[k].cancelled => u.entries[k].cancelled
                      /\ t.entries[k].status \in Over =>
                            u.entries[k].status = t.entries[k].status
    BY DEF Continues
  <2>1. /\ u.entries[k].kind = e[k].kind /\ u.entries[k].module = e[k].module
        /\ u.entries[k].grant = e[k].grant
        /\ e[k].status \in Over => u.entries[k].status = e[k].status
    BY <1>12, <1>14 DEF Continues
  <2>2. k = id => t.entries[k].status \notin Over
    BY <1>3 DEF Over, Results
  <2> QED BY <1>4, <1>15, <2>1, <2>2
<1>17. \/ u.running = 0 /\ u.channel = t.channel
       \/ u.running # 0 /\ u.channel = u.running
  BY <1>5, <1>9, <1>12 DEF Runs
<1>18. DOMAIN u.entries \subseteq DOMAIN t.entries
  BY <1>14
<1> QED BY <1>1, <1>12, <1>13, <1>15, <1>16, <1>17, <1>18 DEF id

-----------------------------------------------------------------------------
\* Every job of a set is cancelled, one after the other.

Cancels(t, ids, f, n) ==
    \A i \in 0 .. n :
        f[i] = IF i = 0 THEN t
               ELSE IF i \in ids THEN Cancelled(f[i - 1], i) ELSE f[i - 1]

LEMMA CancelsExists ==
    ASSUME NEW n \in Nat, NEW t, NEW ids
    PROVE  \E f : f = [i \in 0 .. n |-> f[i]] /\ Cancels(t, ids, f, n)
<1> DEFINE Has(k, f) == /\ f = [i \in 0 .. k |-> f[i]]
                        /\ Cancels(t, ids, f, k)
           S == {k \in Nat : \E f : Has(k, f)}
<1>1. 0 \in S
  <2> DEFINE f == [i \in 0 .. 0 |-> t]
  <2>1. Has(0, f)
    BY DEF Cancels
  <2> QED BY <2>1
<1>2. ASSUME NEW k \in Nat, k \in S PROVE k + 1 \in S
  <2>1. PICK f : Has(k, f)
    BY <1>2
  <2> DEFINE last == IF k + 1 \in ids THEN Cancelled(f[k], k + 1) ELSE f[k]
             g == [i \in 0 .. k + 1 |-> IF i = k + 1 THEN last ELSE f[i]]
  <2>2. \A i \in 0 .. k + 1 : g[i] = IF i = k + 1 THEN last ELSE f[i]
    OBVIOUS
  <2>3. g = [i \in 0 .. k + 1 |-> g[i]]
    OBVIOUS
  <2> HIDE DEF g
  <2>4. Cancels(t, ids, g, k + 1)
    <3> SUFFICES ASSUME NEW i \in 0 .. k + 1
                 PROVE  g[i] = IF i = 0 THEN t
                               ELSE IF i \in ids THEN Cancelled(g[i - 1], i) ELSE g[i - 1]
      BY DEF Cancels
    <3>1. CASE i = k + 1
      <4>1. g[i] = last /\ i # 0 /\ i - 1 = k /\ g[k] = f[k]
        BY <2>2, <3>1
      <4> QED BY <3>1, <4>1
    <3>2. CASE i # k + 1
      <4>1. i \in 0 .. k /\ (i # 0 => i - 1 \in 0 .. k)
        BY <3>2
      <4>2. g[i] = f[i] /\ (i # 0 => g[i - 1] = f[i - 1])
        BY <2>2, <3>2, <4>1
      <4>3. f[i] = IF i = 0 THEN t
                   ELSE IF i \in ids THEN Cancelled(f[i - 1], i) ELSE f[i - 1]
        BY <2>1, <4>1 DEF Cancels
      <4> QED BY <4>2, <4>3
    <3> QED BY <3>1, <3>2
  <2>5. Has(k + 1, g)
    BY <2>3, <2>4
  <2> QED BY <2>5
<1> HIDE DEF S
<1>3. Nat \subseteq S
  BY <1>1, <1>2, Induction
<1>4. n \in S
  BY <1>3
<1>5. PICK f : Has(n, f)
  BY <1>4 DEF S
<1> QED BY <1>5

LEMMA AllCancelledIs ==
    ASSUME LanesAssumption, lastId \in Nat, NEW t, TableOk(t), QueueOk(t),
           DOMAIN t.entries \subseteq 1 .. lastId, NEW ids \in SUBSET LiveIds(t)
    PROVE  LET u == AllCancelled(t, ids)
           IN  /\ TableOk(u) /\ QueueOk(u) /\ Continues(t, u)
               /\ u.running = t.running /\ u.channel = t.channel
               /\ LiveIds(u) \subseteq LiveIds(t) /\ LiveIds(t) \ ids \subseteq LiveIds(u)
               /\ DOMAIN u.entries \subseteq DOMAIN t.entries
               /\ \A k \in ids \intersect LiveIds(u) : u.entries[k].cancelled
<1> DEFINE n == lastId
           a == CHOOSE f : f = [i \in 0 .. n |->
                    IF i = 0 THEN t
                    ELSE IF i \in ids THEN Cancelled(f[i - 1], i) ELSE f[i - 1]]
<1>1. AllCancelled(t, ids) = a[n]
  BY DEF AllCancelled
<1>2. PICK f : f = [i \in 0 .. n |-> f[i]] /\ Cancels(t, ids, f, n)
  BY CancelsExists
<1>3. f = [i \in 0 .. n |-> IF i = 0 THEN t
             ELSE IF i \in ids THEN Cancelled(f[i - 1], i) ELSE f[i - 1]]
  BY <1>2 DEF Cancels
<1>4. a = [i \in 0 .. n |-> IF i = 0 THEN t
             ELSE IF i \in ids THEN Cancelled(a[i - 1], i) ELSE a[i - 1]]
  BY <1>3
<1> HIDE DEF a, n
<1>5. Cancels(t, ids, a, n)
  BY <1>4 DEF Cancels
<1>6. n \in Nat /\ LiveIds(t) \subseteq 1 .. n
  BY DEF n, LiveIds
<1> DEFINE Upto(k) == {i \in ids : i <= k}
           Good(k, u) == /\ TableOk(u) /\ QueueOk(u) /\ Continues(t, u)
                         /\ u.running = t.running /\ u.channel = t.channel
                         /\ LiveIds(u) \subseteq LiveIds(t)
                         /\ LiveIds(t) \ Upto(k) \subseteq LiveIds(u)
                         /\ DOMAIN u.entries \subseteq DOMAIN t.entries
                         /\ \A i \in Upto(k) \intersect LiveIds(u) : u.entries[i].cancelled
           S == {k \in Nat : k <= n => Good(k, a[k])}
<1>7. 0 \in S
  <2>1. a[0] = t
    BY <1>5, <1>6 DEF Cancels
  <2>2. Upto(0) = {}
    <3>1. \A i \in ids : ~(i <= 0)
      BY <1>6
    <3> QED BY <3>1
  <2> QED BY <2>1, <2>2 DEF Continues
<1>8. ASSUME NEW k \in Nat, k \in S PROVE k + 1 \in S
  <2> SUFFICES ASSUME k + 1 <= n PROVE Good(k + 1, a[k + 1])
    OBVIOUS
  <2> DEFINE u == a[k]
             v == a[k + 1]
  <2>1. Good(k, u) /\ k + 1 \in 0 .. n /\ (k + 1) - 1 = k /\ k + 1 # 0
    BY <1>6, <1>8
  <2>2. v = IF k + 1 \in ids THEN Cancelled(u, k + 1) ELSE u
    BY <2>1, <1>5 DEF Cancels
  <2>3. \A i \in ids : i <= k + 1 <=> (i <= k \/ i = k + 1)
    BY <1>6
  <2> HIDE DEF u, v
  <2>4. CASE k + 1 \notin ids
    <3>1. Upto(k + 1) = Upto(k) /\ v = u
      BY <2>2, <2>3, <2>4
    <3> HIDE DEF Upto
    <3> QED BY <2>1, <3>1 DEF v
  <2>5. CASE k + 1 \in ids
    <3> DEFINE id == k + 1
    <3>1. v = Cancelled(u, id) /\ id \in ids /\ Upto(id) = Upto(k) \union {id} /\ id \notin Upto(k)
      <4>1. Upto(k + 1) = Upto(k) \union {k + 1}
        BY <2>3, <2>5
      <4>2. k + 1 \notin Upto(k)
        OBVIOUS
      <4> QED BY <2>2, <2>5, <4>1, <4>2
    <3> HIDE DEF Upto, id
    <3>2. id \in LiveIds(u) /\ id \in LiveIds(t)
      BY <2>1, <3>1
    <3>3. /\ TableOk(v) /\ QueueOk(v) /\ Continues(u, v)
          /\ v.running = u.running /\ v.channel = u.channel
          /\ LiveIds(v) \subseteq LiveIds(u) /\ LiveIds(u) \ {id} \subseteq LiveIds(v)
          /\ DOMAIN v.entries \subseteq DOMAIN u.entries
          /\ id \in LiveIds(v) => v.entries[id].cancelled
          /\ \A i \in DOMAIN v.entries : i # id => v.entries[i] = u.entries[i]
      <4>1. TableOk(u) /\ QueueOk(u)
        BY <2>1
      <4> QED BY <3>1, <3>2, <4>1, CancelledIs
    <3>4. Continues(t, v)
      <4>1. Continues(t, u) /\ DOMAIN u.entries \subseteq DOMAIN t.entries
        BY <2>1
      <4> QED BY <3>3, <4>1 DEF Continues
    <3>5. \A i \in Upto(id) \intersect LiveIds(v) : v.entries[i].cancelled
      <4> SUFFICES ASSUME NEW i \in Upto(id), i \in LiveIds(v), i # id
                   PROVE  v.entries[i].cancelled
        BY <3>3
      <4>1. i \in Upto(k) /\ i \in LiveIds(u) /\ i \in DOMAIN v.entries
        BY <3>1, <3>3 DEF LiveIds
      <4>2. u.entries[i].cancelled
        BY <2>1, <4>1
      <4> QED BY <3>3, <4>1, <4>2
    <3>6. LiveIds(v) \subseteq LiveIds(t) /\ LiveIds(t) \ Upto(id) \subseteq LiveIds(v)
          /\ DOMAIN v.entries \subseteq DOMAIN t.entries
          /\ v.running = t.running /\ v.channel = t.channel
      BY <2>1, <3>1, <3>3
    <3> QED BY <3>3, <3>4, <3>5, <3>6 DEF v, id
  <2> QED BY <2>4, <2>5
<1> HIDE DEF S
<1>9. n \in S
  <2>1. Nat \subseteq S
    BY <1>7, <1>8, Induction
  <2> QED BY <1>6, <2>1
<1> HIDE DEF Good
<1>10. Good(n, a[n])
  BY <1>6, <1>9 DEF S
<1>11. Upto(n) = ids
  BY <1>6
<1> HIDE DEF Upto
<1> QED BY <1>1, <1>10, <1>11 DEF Good

-----------------------------------------------------------------------------
\* A module's activation and its work.

LEMMA MoversContinue ==
    ASSUME NEW t, NEW u, NEW m, Continues(t, u), LiveIds(u) \subseteq LiveIds(t)
    PROVE  /\ Movers(u, m) = {id \in Movers(t, m) : id \in LiveIds(u)}
           /\ Tasks(u, m) = {id \in Tasks(t, m) : id \in LiveIds(u)}
           /\ \A id \in LiveIds(u) : u.entries[id].kind = t.entries[id].kind
<1>1. \A id \in LiveIds(u) : id \in DOMAIN t.entries /\ id \in DOMAIN u.entries
  BY DEF LiveIds
<1>2. \A id \in LiveIds(u) : /\ u.entries[id].kind = t.entries[id].kind
                             /\ u.entries[id].module = t.entries[id].module
  BY <1>1 DEF Continues
<1> QED BY <1>2 DEF Movers, Tasks

LEMMA FitsKept ==
    ASSUME NEW t, NEW u, NEW m, NEW act, NEW on, Continues(t, u),
           LiveIds(u) \subseteq LiveIds(t), ModuleFits(t, act, on, m),
           act.job \in LiveIds(t) => act.job \in LiveIds(u)
    PROVE  ModuleFits(u, act, on, m)
<1>1. /\ Movers(u, m) = {id \in Movers(t, m) : id \in LiveIds(u)}
      /\ Tasks(u, m) = {id \in Tasks(t, m) : id \in LiveIds(u)}
      /\ \A id \in LiveIds(u) : u.entries[id].kind = t.entries[id].kind
  BY MoversContinue
<1>2. \A id \in Movers(t, m) : id \in LiveIds(t)
  BY DEF Movers
<1> QED BY <1>1, <1>2 DEF ModuleFits

\* Work of another module joins.
LEMMA FitsBeside ==
    ASSUME NEW t, NEW u, NEW m, NEW act, NEW on, Continues(t, u), NEW id,
           LiveIds(u) = LiveIds(t) \union {id}, id \notin DOMAIN t.entries,
           u.entries[id].module # m, DOMAIN t.entries \subseteq DOMAIN u.entries,
           ModuleFits(t, act, on, m)
    PROVE  ModuleFits(u, act, on, m)
<1>1. \A k \in LiveIds(t) : k \in DOMAIN t.entries /\ k \in DOMAIN u.entries
  BY DEF LiveIds
<1>2. \A k \in LiveIds(t) : /\ u.entries[k].kind = t.entries[k].kind
                            /\ u.entries[k].module = t.entries[k].module
  BY <1>1 DEF Continues
<1>3. Movers(u, m) = Movers(t, m) /\ Tasks(u, m) = Tasks(t, m)
  BY <1>2 DEF Movers, Tasks
<1>4. \A k \in Movers(t, m) : u.entries[k].kind = t.entries[k].kind
  BY <1>2 DEF Movers
<1> QED BY <1>3, <1>4 DEF ModuleFits

\* Nothing that the activation waits for.
LEMMA FitsIdle ==
    ASSUME NEW t, NEW u, NEW m, NEW act, NEW on, NEW new, Continues(t, u),
           LiveIds(u) \subseteq LiveIds(t), ModuleFits(t, act, on, m),
           new.state \in {"inactive", "failed"}, new.job = 0
    PROVE  ModuleFits(u, new, on, m)
<1>1. /\ Movers(u, m) = {id \in Movers(t, m) : id \in LiveIds(u)}
      /\ Tasks(u, m) = {id \in Tasks(t, m) : id \in LiveIds(u)}
      /\ \A id \in LiveIds(u) : u.entries[id].kind = t.entries[id].kind
  BY MoversContinue
<1> QED BY <1>1 DEF ModuleFits

\* An activation asked to stop.
LEMMA FitsPending ==
    ASSUME NEW t, NEW m, NEW act, NEW new, NEW on, ModuleFits(t, act, on, m),
           act.state = "activating", new.state = act.state, new.job = act.job
    PROVE  ModuleFits(t, new, on, m)
BY DEF ModuleFits

\* A module's new work: an activation, a release of a module that nothing
\* else moves, a task of an active one.
LEMMA FitsActivate ==
    ASSUME NEW t, NEW u, NEW m, NEW act, NEW on, NEW new, NEW id \in Nat,
           Continues(t, u), LiveIds(u) = LiveIds(t) \union {id},
           DOMAIN t.entries \subseteq DOMAIN u.entries,
           \A k \in DOMAIN t.entries : k \in Nat /\ k < id,
           u.entries[id].module = m, u.entries[id].kind = "activate",
           ModuleFits(t, act, on, m), new.state = "activating", new.job = id
    PROVE  ModuleFits(u, new, on, m)
<1>1. \A k \in LiveIds(t) : k \in DOMAIN t.entries /\ k \in DOMAIN u.entries
  BY DEF LiveIds
<1>2. \A k \in LiveIds(t) : /\ u.entries[k].kind = t.entries[k].kind
                            /\ u.entries[k].module = t.entries[k].module
                            /\ k \in Nat /\ k < id /\ k # id
  BY <1>1 DEF Continues
<1>3. Movers(u, m) = Movers(t, m) \union {id} /\ Tasks(u, m) = Tasks(t, m)
  BY <1>2 DEF Movers, Tasks
<1>4. \A k \in Movers(t, m) : u.entries[k].kind = t.entries[k].kind /\ k < id /\ k \in Nat
  BY <1>2 DEF Movers
<1>5. \A k \in Tasks(t, m) : k < id /\ k \in Nat
  BY <1>2 DEF Tasks
<1>6. \A k \in Movers(u, m) : k <= id
  BY <1>3, <1>4
<1>7. \A k \in Tasks(u, m) : on /\ \A j \in Movers(u, m) : k < j
  BY <1>3, <1>5 DEF ModuleFits
<1>8. \A j, k \in Movers(u, m) :
         u.entries[j].kind = "deactivate" /\ u.entries[k].kind = "deactivate" => j = k
  BY <1>3, <1>4 DEF ModuleFits
<1> QED BY <1>3, <1>6, <1>7, <1>8 DEF ModuleFits

LEMMA FitsRelease ==
    ASSUME NEW t, NEW u, NEW m, NEW act, NEW on, NEW new, NEW id \in Nat \ {0},
           Continues(t, u), LiveIds(u) = LiveIds(t) \union {id},
           DOMAIN t.entries \subseteq DOMAIN u.entries,
           \A k \in DOMAIN t.entries : k \in Nat /\ k < id,
           u.entries[id].module = m, u.entries[id].kind = "deactivate",
           Movers(t, m) = {}, \A k \in Tasks(t, m) : on,
           new.state = "inactive", new.job = id
    PROVE  ModuleFits(u, new, on, m)
<1>1. \A k \in LiveIds(t) : k \in DOMAIN t.entries /\ k \in DOMAIN u.entries
  BY DEF LiveIds
<1>2. \A k \in LiveIds(t) : /\ u.entries[k].kind = t.entries[k].kind
                            /\ u.entries[k].module = t.entries[k].module
                            /\ k \in Nat /\ k < id /\ k # id
  BY <1>1 DEF Continues
<1>3. Movers(u, m) = {id} /\ Tasks(u, m) = Tasks(t, m)
  BY <1>2 DEF Movers, Tasks
<1>4. \A k \in Tasks(t, m) : k < id
  BY <1>2 DEF Tasks
<1>5. \A k \in Tasks(u, m) : on /\ \A j \in Movers(u, m) : k < j
  BY <1>3, <1>4
<1> QED BY <1>3, <1>5 DEF ModuleFits

LEMMA FitsTask ==
    ASSUME NEW t, NEW u, NEW m, NEW act, NEW on, NEW id \in Nat,
           Continues(t, u), LiveIds(u) = LiveIds(t) \union {id},
           DOMAIN t.entries \subseteq DOMAIN u.entries,
           id \notin DOMAIN t.entries,
           u.entries[id].module = m, u.entries[id].kind = "task",
           ModuleFits(t, act, on, m), act.state = "active"
    PROVE  ModuleFits(u, act, on, m)
<1>1. \A k \in LiveIds(t) : k \in DOMAIN t.entries /\ k \in DOMAIN u.entries
  BY DEF LiveIds
<1>2. \A k \in LiveIds(t) : /\ u.entries[k].kind = t.entries[k].kind
                            /\ u.entries[k].module = t.entries[k].module
  BY <1>1 DEF Continues
<1>3. Movers(u, m) = Movers(t, m) /\ Tasks(u, m) = Tasks(t, m) \union {id}
  BY <1>2 DEF Movers, Tasks
<1> QED BY <1>3 DEF ModuleFits

\* An activation that has ended leaves nothing that moves its module.
LEMMA FitsEnded ==
    ASSUME NEW t, NEW u, NEW m, NEW act, NEW on, Continues(t, u),
           LiveIds(u) = LiveIds(t) \ {act.job}, ModuleFits(t, act, on, m),
           act.state = "activating", \A k \in LiveIds(t) : act.job <= k /\ k \in Nat,
           act.job \in Nat
    PROVE  Movers(u, m) = {} /\ \A k \in Tasks(u, m) : on
<1>1. /\ Movers(u, m) = {id \in Movers(t, m) : id \in LiveIds(u)}
      /\ Tasks(u, m) = {id \in Tasks(t, m) : id \in LiveIds(u)}
  <2>1. LiveIds(u) \subseteq LiveIds(t) /\ Continues(t, u)
    OBVIOUS
  <2> QED BY ONLY <2>1, MoversContinue
<1>2. \A id \in Movers(t, m) : id <= act.job /\ id \in LiveIds(t)
  BY DEF ModuleFits, Movers
<1>3. \A id \in Movers(t, m) : id = act.job
  BY <1>2
<1>4. Movers(u, m) = {}
  BY <1>1, <1>3
<1>5. \A k \in Tasks(u, m) : on
  BY <1>1 DEF ModuleFits
<1> QED BY <1>4, <1>5

LEMMA FitsActive ==
    ASSUME NEW u, NEW m, NEW on, NEW new, Movers(u, m) = {},
           new.state = "active", on, new.job = 0, ~new.pending
    PROVE  ModuleFits(u, new, on, m)
BY DEF ModuleFits

LEMMA FitsLoaded ==
    ASSUME NEW t, NEW m, NEW act, NEW on, ModuleFits(t, act, on, m)
    PROVE  ModuleFits(t, act, TRUE, m)
BY DEF ModuleFits

\* A module is unloaded while the first of the live jobs is one that does.
LEMMA FitsUnloaded ==
    ASSUME NEW t, NEW m, NEW act, NEW on, ModuleFits(t, act, on, m),
           NEW id \in Movers(t, m), id \in Nat,
           \A k \in LiveIds(t) : k \in Nat /\ id <= k
    PROVE  ModuleFits(t, act, FALSE, m)
<1>1. Tasks(t, m) = {}
  <2> SUFFICES ASSUME NEW k \in Tasks(t, m) PROVE FALSE
    OBVIOUS
  <2>1. k < id /\ k \in LiveIds(t)
    BY DEF ModuleFits, Tasks
  <2> QED BY <2>1
<1>2. act.state # "active"
  BY DEF ModuleFits
<1> QED BY <1>1, <1>2 DEF ModuleFits

-----------------------------------------------------------------------------
\* What the steps share.

LEMMA ContinuesOn ==
    ASSUME NEW t, NEW u, NEW v, Continues(t, u), Continues(u, v),
           DOMAIN t.entries \intersect DOMAIN v.entries \subseteq DOMAIN u.entries
    PROVE  Continues(t, v)
<1> SUFFICES ASSUME NEW k \in DOMAIN t.entries \intersect DOMAIN v.entries
             PROVE  /\ v.entries[k].kind = t.entries[k].kind
                    /\ v.entries[k].module = t.entries[k].module
                    /\ v.entries[k].grant = t.entries[k].grant
                    /\ t.entries[k].cancelled => v.entries[k].cancelled
                    /\ t.entries[k].status \in Over =>
                          v.entries[k].status = t.entries[k].status
  BY DEF Continues
<1>1. /\ k \in DOMAIN t.entries \intersect DOMAIN u.entries
      /\ k \in DOMAIN u.entries \intersect DOMAIN v.entries
  OBVIOUS
<1> QED BY <1>1 DEF Continues

LEMMA StopsKept ==
    ASSUME NEW t, NEW u, NEW given, Continues(t, u), LiveIds(u) \subseteq LiveIds(t),
           Stops(t, given)
    PROVE  Stops(u, given)
<1>1. \A id \in LiveIds(u) :
         /\ id \in LiveIds(t)
         /\ u.entries[id].kind = t.entries[id].kind
         /\ u.entries[id].grant = t.entries[id].grant
         /\ t.entries[id].cancelled => u.entries[id].cancelled
  BY DEF LiveIds, Continues
<1> QED BY <1>1 DEF Stops

LEMMA StopsJoined ==
    ASSUME NEW t, NEW u, NEW given, Continues(t, u), NEW id,
           LiveIds(u) = LiveIds(t) \union {id},
           u.entries[id].grant # NoGrant =>
              u.entries[id].kind = "task" /\ given[u.entries[id].grant] # "revoked",
           Stops(t, given)
    PROVE  Stops(u, given)
<1>1. \A k \in LiveIds(t) :
         /\ u.entries[k].kind = t.entries[k].kind
         /\ u.entries[k].grant = t.entries[k].grant
         /\ t.entries[k].cancelled => u.entries[k].cancelled
  BY DEF LiveIds, Continues
<1> QED BY <1>1 DEF Stops

LEMMA CountsDown ==
    ASSUME NEW S, IsFiniteSet(S), NEW T \in SUBSET S
    PROVE  /\ IsFiniteSet(T) /\ Cardinality(T) \in Nat /\ Cardinality(S) \in Nat
           /\ Cardinality(T) <= Cardinality(S)
BY FS_Subset, FS_CardinalityType

LEMMA CountsUp ==
    ASSUME NEW S, IsFiniteSet(S), NEW m, NEW T \in SUBSET (S \union {m})
    PROVE  /\ IsFiniteSet(T) /\ Cardinality(T) \in Nat /\ Cardinality(S) \in Nat
           /\ Cardinality(T) <= Cardinality(S) + 1
<1> DEFINE U == S \union {m}
<1>1. /\ IsFiniteSet(U)
      /\ Cardinality(U) = Cardinality(S) \/ Cardinality(U) = Cardinality(S) + 1
  BY FS_AddElement
<1>2. Cardinality(S) \in Nat
  BY FS_CardinalityType
<1> HIDE DEF U
<1>3. T \in SUBSET U
  BY DEF U
<1>4. IsFiniteSet(T) /\ Cardinality(T) \in Nat /\ Cardinality(T) <= Cardinality(U)
      /\ Cardinality(U) \in Nat
  BY <1>1, <1>3, CountsDown
<1> QED BY <1>1, <1>2, <1>4

LEMMA CountsLess ==
    ASSUME NEW S, IsFiniteSet(S), NEW m \in S, NEW T \in SUBSET (S \ {m})
    PROVE  /\ IsFiniteSet(T) /\ Cardinality(T) \in Nat /\ Cardinality(S) \in Nat
           /\ Cardinality(T) + 1 <= Cardinality(S)
<1> DEFINE U == S \ {m}
<1>1. IsFiniteSet(U) /\ Cardinality(U) = Cardinality(S) - 1
  BY FS_RemoveElement
<1>2. Cardinality(S) \in Nat
  BY FS_CardinalityType
<1> HIDE DEF U
<1>3. T \in SUBSET U
  BY DEF U
<1>4. IsFiniteSet(T) /\ Cardinality(T) \in Nat /\ Cardinality(T) <= Cardinality(U)
      /\ Cardinality(U) \in Nat
  BY <1>1, <1>3, CountsDown
<1> QED BY <1>1, <1>2, <1>4

LEMMA TakenIs ==
    ASSUME NEW t, TableOk(t)
    PROVE  LET u == [t EXCEPT !.channel = 0]
           IN  /\ TableOk(u) /\ (QueueOk(t) => QueueOk(u)) /\ Continues(t, u)
               /\ u.entries = t.entries /\ u.running = t.running /\ u.channel = 0
<1> DEFINE u == [t EXCEPT !.channel = 0]
<1>1. /\ u = Table(t.entries, t.finished, t.waiting, t.running, 0)
      /\ u.entries = t.entries /\ u.finished = t.finished /\ u.waiting = t.waiting
      /\ u.running = t.running /\ u.channel = 0
  <2>1. PICK e, f, w, r, c : t = Table(e, f, w, r, c)
    BY DEF TableOk, Records, Table
  <2> QED BY <2>1 DEF Table
<1> HIDE DEF u
<1>2. Records(u)
  <2>1. Records(t)
    BY DEF TableOk
  <2> QED BY ONLY <1>1, <2>1, 0 \in Nat DEF Records, Table
<1>3. \A s : WithIn(u, s) = WithIn(t, s)
  BY <1>1 DEF WithIn
<1>4. Ring(u) /\ RunsOne(u)
  BY <1>1, <1>3 DEF Ring, RunsOne, TableOk
<1>5. QueueOk(t) => QueueOk(u)
  BY <1>1, <1>3 DEF QueueOk, InOrder, NotIdle
<1>6. Continues(t, u)
  BY <1>1 DEF Continues
<1> QED BY <1>1, <1>2, <1>4, <1>5, <1>6 DEF TableOk, u

\* The table of a closing editor.
Stopped(t) ==
    [id \in DOMAIN t.entries |->
        IF id \in LiveIds(t) THEN [t.entries[id] EXCEPT !.cancelled = TRUE]
        ELSE t.entries[id]]

LEMMA StoppedIs ==
    ASSUME NEW t, TableOk(t)
    PROVE  LET u == [t EXCEPT !.waiting = <<>>, !.entries = Stopped(t)]
           IN  /\ TableOk(u) /\ Continues(t, u) /\ LiveIds(u) = LiveIds(t)
               /\ DOMAIN u.entries = DOMAIN t.entries
               /\ u.running = t.running /\ u.channel = t.channel
<1> DEFINE e == Stopped(t)
           u == [t EXCEPT !.waiting = <<>>, !.entries = e]
<1> HIDE DEF e
<1>1. /\ u = Table(e, t.finished, <<>>, t.running, t.channel)
      /\ u.entries = e /\ u.finished = t.finished /\ u.waiting = <<>>
      /\ u.running = t.running /\ u.channel = t.channel
  <2>1. PICK b, f, w, r, c : t = Table(b, f, w, r, c)
    BY DEF TableOk, Records, Table
  <2> DEFINE v == [t EXCEPT !.waiting = <<>>]
  <2>2. v = Table(b, f, <<>>, r, c)
    BY <2>1 DEF Table
  <2>3. u = [v EXCEPT !.entries = e]
    OBVIOUS
  <2> HIDE DEF u, v
  <2>4. u = Table(e, f, <<>>, r, c)
    BY <2>2, <2>3 DEF Table
  <2> QED BY <2>1, <2>4 DEF Table
<1> HIDE DEF u
<1>2. DOMAIN e = DOMAIN t.entries
  BY DEF e, Stopped
<1>3. ASSUME NEW k \in DOMAIN t.entries
      PROVE  /\ e[k] \in Jobs
             /\ e[k].status = t.entries[k].status /\ e[k].kind = t.entries[k].kind
             /\ e[k].module = t.entries[k].module /\ e[k].grant = t.entries[k].grant
             /\ t.entries[k].cancelled => e[k].cancelled
  <2>1. t.entries[k] \in Jobs
    BY DEF TableOk, Records
  <2>2. e[k] = IF k \in LiveIds(t) THEN [t.entries[k] EXCEPT !.cancelled = TRUE]
               ELSE t.entries[k]
    BY DEF e, Stopped
  <2> QED BY ONLY <2>1, <2>2 DEF Jobs
<1>4. e \in [DOMAIN e -> Jobs]
  <2>1. e = [k \in DOMAIN e |-> e[k]]
    BY DEF e, Stopped
  <2> QED BY <1>2, <1>3, <2>1
<1>5. Records(u)
  <2>1. /\ t.finished \in Seq(Nat) /\ DOMAIN e \subseteq Nat \ {0}
        /\ t.running \in Nat /\ t.channel \in Nat
    BY <1>2 DEF TableOk, Records
  <2>2. \A k \in DOMAIN e : /\ e[k].status = "superseded" => e[k].kind = "activate"
                            /\ e[k].status = "cancelled" => e[k].cancelled
    BY <1>2, <1>3 DEF TableOk, Records
  <2>3. <<>> \in Seq(Nat)
    OBVIOUS
  <2> QED BY ONLY <1>1, <1>4, <2>1, <2>2, <2>3 DEF Records, Table
<1>6. \A s : WithIn(u, s) = WithIn(t, s)
  BY <1>1, <1>2, <1>3 DEF WithIn
<1>7. LiveIds(u) = LiveIds(t)
  BY <1>1, <1>2, <1>3 DEF LiveIds
<1>8. Ring(u) /\ RunsOne(u)
  BY <1>1, <1>6 DEF Ring, RunsOne, TableOk
<1>9. Continues(t, u)
  BY <1>1, <1>3 DEF Continues
<1> QED BY <1>1, <1>2, <1>5, <1>7, <1>8, <1>9 DEF TableOk, u, e

\* u is the table t after the job n + 1 of that kind entered its line.
SubmittedTo(t, u, n, kind, m, g) ==
    /\ TableOk(u) /\ QueueOk(u) /\ Continues(t, u) /\ Runs(t, u)
    /\ LiveIds(u) = LiveIds(t) \union {n + 1}
    /\ DOMAIN u.entries = DOMAIN t.entries \union {n + 1}
    /\ DOMAIN u.entries \subseteq 1 .. n + 1
    /\ n + 1 \notin DOMAIN t.entries
    /\ \A k \in DOMAIN t.entries : k \in Nat /\ k < n + 1
    /\ u.entries[n + 1].kind = kind /\ u.entries[n + 1].module = m
    /\ u.entries[n + 1].grant = g

LEMMA SubmitIs ==
    ASSUME NEW t, TableOk(t), QueueOk(t), NEW n \in Nat, DOMAIN t.entries \subseteq 1 .. n,
           NEW kind \in Kinds, NEW m \in Modules, NEW g \in Grants \union {NoGrant}
    PROVE  SubmittedTo(t, Submitted(t, n + 1, NewJob(kind, m, g)), n, kind, m, g)
<1> DEFINE job == NewJob(kind, m, g)
           id == n + 1
           u == Submitted(t, id, job)
<1>1. id \in Nat \ {0} /\ \A k \in DOMAIN t.entries : k \in Nat /\ k < id
  OBVIOUS
<1>2. /\ job \in Jobs /\ job.status = "queued" /\ job.kind = kind /\ job.module = m
      /\ job.grant = g
  BY DEF NewJob, Jobs, Live
<1> HIDE DEF id, job
<1>3. /\ TableOk(u) /\ QueueOk(u) /\ Continues(t, u) /\ Runs(t, u)
      /\ LiveIds(u) = LiveIds(t) \union {id}
      /\ DOMAIN u.entries = DOMAIN t.entries \union {id}
      /\ u.entries[id].kind = job.kind /\ u.entries[id].module = job.module
      /\ u.entries[id].grant = job.grant
  <2>1. TableOk(t) /\ QueueOk(t)
    OBVIOUS
  <2>2. EnteredAs(t, u, id, job)
    BY ONLY <1>1, <1>2, <2>1, SubmittedIs DEF u
  <2> HIDE DEF u
  <2> QED BY ONLY <2>2 DEF EnteredAs
<1>4. id \notin DOMAIN t.entries
  <2> SUFFICES ASSUME id \in DOMAIN t.entries PROVE FALSE
    OBVIOUS
  <2>1. id < id /\ id \in Nat
    BY <1>1
  <2> QED BY <2>1
<1> HIDE DEF u
<1>5. DOMAIN u.entries \subseteq 1 .. n + 1
  <2>1. id = n + 1 /\ 1 .. n \subseteq 1 .. n + 1 /\ n + 1 \in 1 .. n + 1
    BY DEF id
  <2> QED BY <1>3, <2>1
<1>6. SubmittedTo(t, u, n, kind, m, g)
  BY ONLY <1>1, <1>2, <1>3, <1>4, <1>5 DEF SubmittedTo, id
<1> QED BY ONLY <1>6 DEF u, id, job

LEMMA OwnerStep ==
    ASSUME LanesInv, UNCHANGED laneSide, closing' \in BOOLEAN, closing => closing',
           TableOk(table'), ~closing' => QueueOk(table'),
           Continues(table, table'), Runs(table, table'),
           lastId' \in Nat, lastId <= lastId', requests' \in 0 .. MaxRequests,
           DOMAIN table'.entries \subseteq 1 .. lastId',
           activations' \in [Modules -> Activations(lastId')],
           granted' \in [Grants -> {"never", "live", "revoked"}],
           LanesCounted', ModulesFit', Stops(table', granted')
    PROVE  LanesInv'
<1>1. LanesTyped'
  <2>1. lastId \in Nat
    BY DEF LanesInv, LanesTyped
  <2>2. \A i : i \in 0 .. lastId => i \in 0 .. lastId'
    BY <2>1
  <2>3. worker' \in [id : 0 .. lastId', phase : {"resting", "working", "activated",
                                                 "failed", "ended"}]
    BY <2>2 DEF LanesInv, LanesTyped, laneSide
  <2>4. inbox' \in [id : 0 .. lastId', result : Results]
    BY <2>2 DEF LanesInv, LanesTyped, laneSide
  <2>5. loaded' \in [Modules -> BOOLEAN]
    BY DEF LanesInv, LanesTyped, laneSide
  <2> QED BY <2>3, <2>4, <2>5 DEF LanesTyped
<1>2. worker' = worker /\ inbox' = inbox /\ loaded' = loaded
  BY DEF laneSide
<1>3. Located'
  BY <1>2 DEF LanesInv, Located, Runs
<1>4. ASSUME NEW id, id # 0, id = table.running
      PROVE  /\ table'.entries[id].kind = table.entries[id].kind
             /\ table'.entries[id].module = table.entries[id].module
             /\ table.entries[id].cancelled => table'.entries[id].cancelled
  <2>1. table'.running = id
    BY <1>4 DEF Runs
  <2>2. id \in DOMAIN table.entries
    BY <1>4 DEF LanesInv, TableOk, RunsOne, WithIn
  <2>3. id \in DOMAIN table'.entries
    BY <1>4, <2>1 DEF TableOk, RunsOne, WithIn
  <2> QED BY <2>2, <2>3 DEF Continues
<1>5. /\ worker.id # 0 => worker.id = table.running
      /\ inbox.id # 0 => inbox.id = table.running
  BY DEF LanesInv, Located
<1>6. Doing'
  <2>1. Doing
    BY DEF LanesInv
  <2>2. /\ worker.id = 0 <=> worker.phase \in {"resting", "ended"}
        /\ worker.phase = "ended" => closing'
        /\ inbox.id = 0 => inbox = NoResult
    BY <2>1 DEF Doing
  <2>3. /\ worker.phase \in {"activated", "failed"} =>
             table'.entries[worker.id].kind = "activate"
        /\ worker.phase = "activated" => loaded[table'.entries[worker.id].module]
    BY <1>4, <1>5, <2>1 DEF Doing
  <2>4. inbox.id # 0 =>
          /\ inbox.result = "cancelled" => table'.entries[inbox.id].cancelled
          /\ inbox.result = "ready" /\ table'.entries[inbox.id].kind = "activate" =>
                loaded[table'.entries[inbox.id].module]
    BY <1>4, <1>5, <2>1 DEF Doing
  <2> QED BY ONLY <1>2, <2>2, <2>3, <2>4 DEF Doing, NoResult
<1> QED BY <1>1, <1>3, <1>6 DEF LanesInv

LEMMA SetIs ==
    ASSUME NEW n \in Nat, NEW k \in Nat, n <= k, NEW a \in [Modules -> Activations(n)],
           NEW m \in Modules, NEW new \in Activations(k)
    PROVE  LET b == [a EXCEPT ![m] = new]
           IN  /\ b \in [Modules -> Activations(k)] /\ b[m] = new
               /\ \A x \in Modules \ {m} : b[x] = a[x]
<1>1. \A i : i \in 0 .. n => i \in 0 .. k
  OBVIOUS
<1>2. Activations(n) \subseteq Activations(k)
  BY <1>1 DEF Activations
<1> QED BY <1>2

LEMMA ReleasableAfter ==
    ASSUME NEW m \in Modules, \A x \in Modules \ {m} : activations'[x] = activations[x]
    PROVE  /\ Releasable' \subseteq Releasable \union {m}
           /\ activations'[m].state \notin {"activating", "active"} =>
                 Releasable' \subseteq Releasable \ {m}
           /\ activations[m].state \in {"activating", "active"} =>
                 m \in Releasable /\ Releasable' \subseteq Releasable
BY DEF Releasable

LEMMA AskCounted ==
    ASSUME LanesInv, NEW m, Releasable' \subseteq Releasable \union {m},
           lastId' = lastId + 1, requests' = requests + 1
    PROVE  LanesCounted'
<1>1. /\ IsFiniteSet(Releasable') /\ Cardinality(Releasable') \in Nat
      /\ Cardinality(Releasable) \in Nat
      /\ Cardinality(Releasable') <= Cardinality(Releasable) + 1
  BY CountsUp DEF LanesInv, LanesCounted
<1>2. /\ lastId \in Nat /\ requests \in Nat
      /\ lastId + Cardinality(Releasable) <= 2 * requests
  BY DEF LanesInv, LanesTyped, LanesCounted
<1>3. lastId' + Cardinality(Releasable') <= 2 * requests'
  BY ONLY <1>1, <1>2, lastId' = lastId + 1, requests' = requests + 1
<1> QED BY <1>1, <1>3 DEF LanesCounted

LEMMA ReleaseCounted ==
    ASSUME LanesInv, NEW m \in Releasable, Releasable' \subseteq Releasable \ {m},
           lastId' = lastId + 1, requests' = requests
    PROVE  LanesCounted'
<1>1. /\ IsFiniteSet(Releasable') /\ Cardinality(Releasable') \in Nat
      /\ Cardinality(Releasable) \in Nat
      /\ Cardinality(Releasable') + 1 <= Cardinality(Releasable)
  BY CountsLess DEF LanesInv, LanesCounted
<1>2. /\ lastId \in Nat /\ requests \in Nat
      /\ lastId + Cardinality(Releasable) <= 2 * requests
  BY DEF LanesInv, LanesTyped, LanesCounted
<1>3. lastId' + Cardinality(Releasable') <= 2 * requests'
  BY ONLY <1>1, <1>2, lastId' = lastId + 1, requests' = requests
<1> QED BY <1>1, <1>3 DEF LanesCounted

LEMMA KeptCounted ==
    ASSUME LanesInv, Releasable' \subseteq Releasable, lastId' = lastId,
           requests' = requests
    PROVE  LanesCounted'
<1>1. /\ IsFiniteSet(Releasable') /\ Cardinality(Releasable') \in Nat
      /\ Cardinality(Releasable) \in Nat
      /\ Cardinality(Releasable') <= Cardinality(Releasable)
  BY CountsDown DEF LanesInv, LanesCounted
<1>2. /\ lastId \in Nat /\ requests \in Nat
      /\ lastId + Cardinality(Releasable) <= 2 * requests
  BY DEF LanesInv, LanesTyped, LanesCounted
<1>3. lastId' + Cardinality(Releasable') <= 2 * requests'
  BY ONLY <1>1, <1>2, lastId' = lastId, requests' = requests
<1> QED BY <1>1, <1>3 DEF LanesCounted

\* What the invariant says of one module.
LEMMA ModuleIs ==
    ASSUME LanesInv, NEW m \in Modules
    PROVE  /\ activations[m] \in Activations(lastId) /\ lastId \in Nat
           /\ ModuleFits(table, activations[m], loaded[m], m)
           /\ activations[m].job \in LiveIds(table) =>
                 activations[m].job \in Movers(table, m)
           /\ activations[m].state = "activating" =>
                 /\ activations[m].job \in LiveIds(table)
                 /\ table.entries[activations[m].job].kind = "activate"
                 /\ table.entries[activations[m].job].module = m
           /\ activations[m].job # 0 /\ activations[m].state # "activating" =>
                 table.entries[activations[m].job].kind = "deactivate"
<1>1. activations[m] \in Activations(lastId) /\ lastId \in Nat
  BY DEF LanesInv, LanesTyped
<1>2. ModuleFits(table, activations[m], loaded[m], m)
  BY DEF LanesInv, ModulesFit
<1>3. activations[m].job = 0 => activations[m].job \notin LiveIds(table)
  BY DEF LanesInv, TableOk, Records, LiveIds
<1>4. activations[m].state \in {"inactive", "activating", "active", "failed"}
  BY <1>1 DEF Activations
<1>5. activations[m].state = "activating" =>
         /\ activations[m].job \in Movers(table, m)
         /\ table.entries[activations[m].job].kind = "activate"
  BY <1>2 DEF ModuleFits
<1>6. activations[m].job # 0 /\ activations[m].state # "activating" =>
         /\ activations[m].job \in Movers(table, m)
         /\ table.entries[activations[m].job].kind = "deactivate"
  BY <1>2, <1>4 DEF ModuleFits
<1> QED BY <1>1, <1>2, <1>3, <1>5, <1>6 DEF Movers

\* The running job is the first of the live ones.
LEMMA FirstRuns ==
    ASSUME LanesInv, table.running # 0
    PROVE  /\ table.running \in LiveIds(table) /\ table.running \in 1 .. lastId
           /\ \A k \in LiveIds(table) : k \in Nat /\ table.running <= k
<1>1. TableOk(table) /\ Records(table) /\ DOMAIN table.entries \subseteq 1 .. lastId
      /\ lastId \in Nat
  BY DEF LanesInv, TableOk, LanesTyped
<1>2. LiveIds(table) = WithIn(table, {"queued"}) \union WithIn(table, {"running"})
  BY <1>1, Statuses
<1>3. /\ WithIn(table, {"running"}) = {table.running}
      /\ \A k \in WithIn(table, {"queued"}) : table.running < k
  BY <1>1 DEF TableOk, RunsOne
<1>4. \A k \in LiveIds(table) : k \in DOMAIN table.entries
  BY DEF LiveIds
<1>5. table.running \in LiveIds(table) /\ table.running \in 1 .. lastId
  BY <1>1, <1>2, <1>3, <1>4
<1>6. \A k \in LiveIds(table) : k \in Nat
  BY <1>1, <1>4
<1>7. \A k \in LiveIds(table) : k = table.running \/ table.running < k
  BY <1>2, <1>3
<1> QED BY <1>5, <1>6, <1>7

LEMMA OwnerFacts ==
    ASSUME LanesInv
    PROVE  /\ lastId \in Nat /\ requests \in Nat /\ requests \in 0 .. MaxRequests
           /\ DOMAIN table.entries \subseteq 1 .. lastId
           /\ activations \in [Modules -> Activations(lastId)]
           /\ granted \in [Grants -> {"never", "live", "revoked"}]
           /\ TableOk(table) /\ (~closing => QueueOk(table)) /\ closing \in BOOLEAN
           /\ Stops(table, granted) /\ Records(table)
BY DEF LanesInv, LanesTyped, TableOk

-----------------------------------------------------------------------------
\* The owner's steps.

LEMMA ActivateStep ==
    ASSUME LanesAssumption, LanesInv, NEW m \in Modules, Activate(m)
    PROVE  LanesInv' /\ Continues(table, table')
<1> DEFINE u == Submitted(table, lastId + 1, NewJob("activate", m, NoGrant))
           new == [state |-> "activating", job |-> lastId + 1, pending |-> FALSE]
<1>1. /\ table' = u /\ lastId' = lastId + 1 /\ requests' = requests + 1
      /\ requests < MaxRequests /\ ~closing
      /\ activations' = [activations EXCEPT ![m] = new]
      /\ granted' = granted /\ closing' = closing /\ UNCHANGED laneSide
  BY DEF Activate
<1>2. /\ lastId \in Nat /\ requests \in Nat /\ requests \in 0 .. MaxRequests
      /\ DOMAIN table.entries \subseteq 1 .. lastId
      /\ activations \in [Modules -> Activations(lastId)]
      /\ granted \in [Grants -> {"never", "live", "revoked"}]
      /\ TableOk(table) /\ QueueOk(table) /\ closing \in BOOLEAN
      /\ Stops(table, granted)
  BY <1>1, OwnerFacts
<1>3. /\ TableOk(u) /\ QueueOk(u) /\ Continues(table, u) /\ Runs(table, u)
      /\ LiveIds(u) = LiveIds(table) \union {lastId + 1}
      /\ DOMAIN u.entries = DOMAIN table.entries \union {lastId + 1}
      /\ DOMAIN u.entries \subseteq 1 .. lastId + 1
      /\ lastId + 1 \notin DOMAIN table.entries
      /\ \A k \in DOMAIN table.entries : k \in Nat /\ k < lastId + 1
      /\ u.entries[lastId + 1].kind = "activate" /\ u.entries[lastId + 1].module = m
      /\ u.entries[lastId + 1].grant = NoGrant
  <2>1. "activate" \in Kinds /\ NoGrant \in Grants \union {NoGrant}
    BY DEF Kinds
  <2>2. SubmittedTo(table, u, lastId, "activate", m, NoGrant)
    BY ONLY <1>2, <2>1, SubmitIs DEF u
  <2> QED BY ONLY <2>2 DEF SubmittedTo
<1> HIDE DEF u
<1>4. lastId + 1 \in Nat /\ lastId <= lastId + 1
  BY <1>2
<1>5. /\ activations' \in [Modules -> Activations(lastId + 1)] /\ activations'[m] = new
      /\ \A x \in Modules \ {m} : activations'[x] = activations[x]
  <2>1. new \in Activations(lastId + 1)
    BY <1>2 DEF Activations
  <2> HIDE DEF new
  <2> QED BY <1>1, <1>2, <1>4, <2>1, SetIs
<1>6. LanesCounted'
  BY <1>1, <1>5, ReleasableAfter, AskCounted
<1>7. ModulesFit'
  <2> SUFFICES ASSUME NEW x \in Modules
               PROVE  ModuleFits(u, activations'[x], loaded[x], x)
    BY <1>1 DEF ModulesFit, laneSide
  <2>1. ModuleFits(table, activations[x], loaded[x], x)
    BY ModuleIs
  <2>2. CASE x = m
    <3> DEFINE id == lastId + 1
               old == activations[m]
               on == loaded[m]
    <3>1. id \in Nat /\ new.state = "activating" /\ new.job = id
      BY <1>4
    <3>2. ModuleFits(table, old, on, m)
      BY <2>1, <2>2
    <3>3. /\ Continues(table, u) /\ LiveIds(u) = LiveIds(table) \union {id}
          /\ DOMAIN table.entries \subseteq DOMAIN u.entries
          /\ \A k \in DOMAIN table.entries : k \in Nat /\ k < id
          /\ u.entries[id].module = m /\ u.entries[id].kind = "activate"
      BY <1>3
    <3> HIDE DEF new, id, old, on
    <3>4. ModuleFits(u, new, on, m)
      BY ONLY <3>1, <3>2, <3>3, FitsActivate
    <3> QED BY <1>5, <2>2, <3>4 DEF on
  <2>3. CASE x # m
    <3>1. ModuleFits(u, activations[x], loaded[x], x)
      BY <1>3, <2>1, <2>3, FitsBeside
    <3> QED BY <1>5, <2>3, <3>1
  <2> QED BY <2>2, <2>3
<1>8. Stops(u, granted)
  BY <1>2, <1>3, StopsJoined
<1>9. requests' \in 0 .. MaxRequests
  <2>1. MaxRequests \in Nat
    BY DEF LanesAssumption
  <2> QED BY ONLY <1>1, <1>2, <2>1
<1> QED BY <1>1, <1>2, <1>3, <1>4, <1>5, <1>6, <1>7, <1>8, <1>9, OwnerStep

LEMMA TaskStep ==
    ASSUME LanesAssumption, LanesInv, NEW m \in Modules, NEW g \in Grants, Task(m, g)
    PROVE  LanesInv' /\ Continues(table, table')
<1> DEFINE u == Submitted(table, lastId + 1, NewJob("task", m, g))
<1>1. /\ table' = u /\ lastId' = lastId + 1 /\ requests' = requests + 1
      /\ requests < MaxRequests /\ ~closing
      /\ activations[m].state = "active" /\ granted[g] = "live"
      /\ activations' = activations
      /\ granted' = granted /\ closing' = closing /\ UNCHANGED laneSide
  BY DEF Task
<1>2. /\ lastId \in Nat /\ requests \in Nat /\ requests \in 0 .. MaxRequests
      /\ DOMAIN table.entries \subseteq 1 .. lastId
      /\ activations \in [Modules -> Activations(lastId)]
      /\ granted \in [Grants -> {"never", "live", "revoked"}]
      /\ TableOk(table) /\ QueueOk(table) /\ closing \in BOOLEAN
      /\ Stops(table, granted)
  BY <1>1, OwnerFacts
<1>3. /\ TableOk(u) /\ QueueOk(u) /\ Continues(table, u) /\ Runs(table, u)
      /\ LiveIds(u) = LiveIds(table) \union {lastId + 1}
      /\ DOMAIN u.entries = DOMAIN table.entries \union {lastId + 1}
      /\ DOMAIN u.entries \subseteq 1 .. lastId + 1
      /\ lastId + 1 \notin DOMAIN table.entries
      /\ u.entries[lastId + 1].kind = "task" /\ u.entries[lastId + 1].module = m
      /\ u.entries[lastId + 1].grant = g
  <2>1. "task" \in Kinds /\ g \in Grants \union {NoGrant}
    BY DEF Kinds
  <2>2. SubmittedTo(table, u, lastId, "task", m, g)
    BY ONLY <1>2, <2>1, SubmitIs DEF u
  <2> QED BY ONLY <2>2 DEF SubmittedTo
<1> HIDE DEF u
<1>4. lastId + 1 \in Nat /\ lastId <= lastId + 1
  BY <1>2
<1>5. activations' \in [Modules -> Activations(lastId + 1)]
  <2>1. \A i : i \in 0 .. lastId => i \in 0 .. lastId + 1
    BY <1>2
  <2> QED BY <1>1, <1>2, <2>1 DEF Activations
<1>6. LanesCounted'
  <2>1. Releasable' = Releasable
    BY <1>1 DEF Releasable
  <2> QED BY <1>1, <2>1, AskCounted
<1>7. ModulesFit'
  <2> SUFFICES ASSUME NEW x \in Modules
               PROVE  ModuleFits(u, activations[x], loaded[x], x)
    BY <1>1 DEF ModulesFit, laneSide
  <2>1. ModuleFits(table, activations[x], loaded[x], x)
    BY ModuleIs
  <2>2. CASE x = m
    BY <1>1, <1>3, <1>4, <2>1, <2>2, FitsTask
  <2>3. CASE x # m
    BY <1>3, <2>1, <2>3, FitsBeside
  <2> QED BY <2>2, <2>3
<1>8. Stops(u, granted)
  BY <1>1, <1>2, <1>3, StopsJoined
<1>9. requests' \in 0 .. MaxRequests
  <2>1. MaxRequests \in Nat
    BY DEF LanesAssumption
  <2> QED BY ONLY <1>1, <1>2, <2>1
<1> QED BY <1>1, <1>2, <1>3, <1>4, <1>5, <1>6, <1>7, <1>8, <1>9, OwnerStep

\* A step of the owner that gives out no id and asks for nothing.
LEMMA OwnerQuietStep ==
    ASSUME LanesInv, UNCHANGED <<lastId, requests, closing, laneSide>>, ~closing,
           TableOk(table'), QueueOk(table'), Continues(table, table'), Runs(table, table'),
           DOMAIN table'.entries \subseteq DOMAIN table.entries,
           activations' \in [Modules -> Activations(lastId)],
           Releasable' \subseteq Releasable,
           granted' \in [Grants -> {"never", "live", "revoked"}],
           \A x \in Modules : ModuleFits(table', activations'[x], loaded[x], x),
           Stops(table', granted')
    PROVE  LanesInv'
<1>1. lastId' = lastId /\ requests' = requests /\ closing' = closing /\ UNCHANGED laneSide
  OBVIOUS
<1>2. /\ lastId \in Nat /\ requests \in Nat /\ requests \in 0 .. MaxRequests
      /\ DOMAIN table.entries \subseteq 1 .. lastId /\ closing \in BOOLEAN
  BY OwnerFacts
<1>3. LanesCounted'
  BY <1>1, KeptCounted
<1>4. ModulesFit'
  BY <1>1 DEF ModulesFit, laneSide
<1>5. lastId <= lastId /\ DOMAIN table'.entries \subseteq 1 .. lastId
  BY <1>2
<1> QED BY <1>1, <1>2, <1>3, <1>4, <1>5, OwnerStep

LEMMA GiveGrantStep ==
    ASSUME LanesInv, NEW g \in Grants, GiveGrant(g)
    PROVE  LanesInv' /\ Continues(table, table')
<1>1. /\ table' = table /\ UNCHANGED <<lastId, requests, closing, laneSide>> /\ ~closing
      /\ activations' = activations
      /\ granted' = [granted EXCEPT ![g] = "live"]
  BY DEF GiveGrant
<1>2. /\ activations \in [Modules -> Activations(lastId)]
      /\ granted \in [Grants -> {"never", "live", "revoked"}]
      /\ TableOk(table) /\ QueueOk(table) /\ Stops(table, granted) /\ Records(table)
  BY <1>1, OwnerFacts
<1>3. Continues(table, table) /\ Runs(table, table)
  BY DEF Continues, Runs
<1>4. granted' \in [Grants -> {"never", "live", "revoked"}]
  BY <1>1, <1>2
<1>5. Stops(table, granted')
  <2>1. \A k \in Grants : granted'[k] = "revoked" => granted[k] = "revoked"
    BY <1>1, <1>2
  <2>2. \A id \in LiveIds(table) : table.entries[id].grant \in Grants \union {NoGrant}
    BY <1>2 DEF Records, Jobs, LiveIds
  <2> QED BY <1>2, <2>1, <2>2 DEF Stops
<1>6. Releasable' \subseteq Releasable
  BY <1>1 DEF Releasable
<1>7. \A x \in Modules : ModuleFits(table, activations[x], loaded[x], x)
  BY ModuleIs
<1> QED BY <1>1, <1>2, <1>3, <1>4, <1>5, <1>6, <1>7, OwnerQuietStep

LEMMA RevokeGrantStep ==
    ASSUME LanesAssumption, LanesInv, NEW g \in Grants, RevokeGrant(g)
    PROVE  LanesInv' /\ Continues(table, table')
<1> DEFINE ids == DependingOn(table, g)
           u == AllCancelled(table, ids)
<1>1. /\ table' = u /\ UNCHANGED <<lastId, requests, closing, laneSide>> /\ ~closing
      /\ activations' = activations
      /\ granted' = [granted EXCEPT ![g] = "revoked"]
  BY DEF RevokeGrant
<1>2. /\ activations \in [Modules -> Activations(lastId)] /\ lastId \in Nat
      /\ granted \in [Grants -> {"never", "live", "revoked"}]
      /\ DOMAIN table.entries \subseteq 1 .. lastId
      /\ TableOk(table) /\ QueueOk(table) /\ Stops(table, granted) /\ Records(table)
  BY <1>1, OwnerFacts
<1>3. ids \in SUBSET LiveIds(table) /\ \A id \in ids : table.entries[id].grant = g
  BY DEF DependingOn
<1> HIDE DEF ids
<1>4. /\ TableOk(u) /\ QueueOk(u) /\ Continues(table, u)
      /\ u.running = table.running /\ u.channel = table.channel
      /\ LiveIds(u) \subseteq LiveIds(table) /\ LiveIds(table) \ ids \subseteq LiveIds(u)
      /\ DOMAIN u.entries \subseteq DOMAIN table.entries
      /\ \A k \in ids \intersect LiveIds(u) : u.entries[k].cancelled
  BY <1>2, <1>3, AllCancelledIs
<1> HIDE DEF u
<1>5. Runs(table, u)
  BY <1>4 DEF Runs
<1>6. \A id \in ids : table.entries[id].kind = "task"
  BY <1>2, <1>3 DEF Stops, LanesAssumption
<1>7. ASSUME NEW x \in Modules PROVE ModuleFits(u, activations[x], loaded[x], x)
  <2>1. /\ ModuleFits(table, activations[x], loaded[x], x)
        /\ activations[x].job \in LiveIds(table) => activations[x].job \in Movers(table, x)
    BY ModuleIs
  <2>2. activations[x].job \in LiveIds(table) => activations[x].job \notin ids
    BY <1>6, <2>1 DEF Movers
  <2>3. activations[x].job \in LiveIds(table) => activations[x].job \in LiveIds(u)
    BY <1>4, <2>2
  <2> QED BY <1>4, <2>1, <2>3, FitsKept
<1>8. Stops(u, granted')
  <2> SUFFICES ASSUME NEW id \in LiveIds(u), u.entries[id].grant # NoGrant
               PROVE  /\ u.entries[id].kind = "task"
                      /\ granted'[u.entries[id].grant] = "revoked" =>
                            u.entries[id].cancelled
    BY DEF Stops
  <2>1. id \in LiveIds(table)
    BY <1>4
  <2>2. /\ u.entries[id].kind = table.entries[id].kind
        /\ u.entries[id].grant = table.entries[id].grant
        /\ table.entries[id].cancelled => u.entries[id].cancelled
    BY <1>4, <2>1 DEF Continues, LiveIds
  <2>3. table.entries[id].grant \in Grants \union {NoGrant}
    BY <1>2, <2>1 DEF Records, Jobs, LiveIds
  <2>4. u.entries[id].kind = "task"
    BY <1>2, <2>1, <2>2 DEF Stops
  <2>5. CASE table.entries[id].grant = g
    <3>1. id \in ids
      BY <2>1, <2>5 DEF ids, DependingOn
    <3> QED BY <1>4, <2>4, <3>1
  <2>6. CASE table.entries[id].grant # g
    <3>1. granted'[table.entries[id].grant] = granted[table.entries[id].grant]
      BY <1>1, <1>2, <2>2, <2>3, <2>6
    <3> QED BY <1>2, <2>1, <2>2, <2>4, <3>1 DEF Stops
  <2> QED BY <2>5, <2>6
<1>9. Releasable' \subseteq Releasable
  BY <1>1 DEF Releasable
<1>10. granted' \in [Grants -> {"never", "live", "revoked"}]
  BY <1>1, <1>2
<1> QED BY <1>1, <1>2, <1>4, <1>5, <1>7, <1>8, <1>9, <1>10, OwnerQuietStep

LEMMA CloseStep ==
    ASSUME LanesInv, Close
    PROVE  LanesInv' /\ Continues(table, table')
<1> DEFINE u == [table EXCEPT !.waiting = <<>>, !.entries = Stopped(table)]
<1>1. /\ table' = u /\ lastId' = lastId /\ requests' = requests
      /\ activations' = activations /\ granted' = granted
      /\ UNCHANGED laneSide /\ closing' = TRUE
  BY DEF Close, Stopped
<1>2. /\ lastId \in Nat /\ requests \in Nat /\ requests \in 0 .. MaxRequests
      /\ activations \in [Modules -> Activations(lastId)]
      /\ granted \in [Grants -> {"never", "live", "revoked"}]
      /\ DOMAIN table.entries \subseteq 1 .. lastId
      /\ TableOk(table) /\ Stops(table, granted)
  BY OwnerFacts
<1>3. /\ TableOk(u) /\ Continues(table, u) /\ LiveIds(u) = LiveIds(table)
      /\ DOMAIN u.entries = DOMAIN table.entries
      /\ u.running = table.running /\ u.channel = table.channel
  BY <1>2, StoppedIs
<1> HIDE DEF u
<1>4. Runs(table, u)
  BY <1>3 DEF Runs
<1>5. ModulesFit'
  <2> SUFFICES ASSUME NEW x \in Modules
               PROVE  ModuleFits(u, activations[x], loaded[x], x)
    BY <1>1 DEF ModulesFit, laneSide
  <2>1. ModuleFits(table, activations[x], loaded[x], x)
    BY ModuleIs
  <2> QED BY <1>3, <2>1, FitsKept
<1>6. Stops(u, granted)
  BY <1>2, <1>3, StopsKept
<1>7. LanesCounted'
  <2>1. Releasable' = Releasable
    BY <1>1 DEF Releasable
  <2> QED BY <1>1, <2>1, KeptCounted
<1>8. lastId <= lastId
  BY <1>2
<1> QED BY <1>1, <1>2, <1>3, <1>4, <1>5, <1>6, <1>7, <1>8, OwnerStep

\* Nothing a module's activation waits for, when one job leaves the lane.
LEMMA OthersFit ==
    ASSUME LanesInv, NEW u, NEW id, Continues(table, u),
           LiveIds(table) \ {id} \subseteq LiveIds(u), LiveIds(u) \subseteq LiveIds(table),
           NEW x \in Modules, activations[x].job # id
    PROVE  ModuleFits(u, activations[x], loaded[x], x)
<1>1. ModuleFits(table, activations[x], loaded[x], x)
  BY ModuleIs
<1>2. activations[x].job \in LiveIds(table) => activations[x].job \in LiveIds(u)
  OBVIOUS
<1> QED BY <1>1, <1>2, FitsKept

LEMMA DeactivateFailedStep ==
    ASSUME LanesInv, NEW m \in Modules, DeactivateFailed(m), ~closing,
           UNCHANGED <<requests, granted, closing, laneSide>>
    PROVE  LanesInv' /\ Continues(table, table')
<1> DEFINE new == [activations[m] EXCEPT !.state = "inactive"]
<1>1. /\ table' = table /\ UNCHANGED <<lastId, requests, closing, laneSide>>
      /\ activations' = [activations EXCEPT ![m] = new] /\ granted' = granted
      /\ activations[m].state = "failed"
  BY DEF DeactivateFailed
<1>2. /\ activations \in [Modules -> Activations(lastId)] /\ lastId \in Nat
      /\ granted \in [Grants -> {"never", "live", "revoked"}]
      /\ TableOk(table) /\ QueueOk(table) /\ Stops(table, granted)
  BY OwnerFacts
<1>3. Continues(table, table) /\ Runs(table, table)
  BY DEF Continues, Runs
<1>4. /\ new \in Activations(lastId) /\ new.state = "inactive"
      /\ new.job = activations[m].job /\ new.pending = activations[m].pending
  <2>1. activations[m] \in Activations(lastId)
    BY <1>2
  <2> QED BY <2>1 DEF Activations
<1> HIDE DEF new
<1>5. /\ activations' \in [Modules -> Activations(lastId)] /\ activations'[m] = new
      /\ \A x \in Modules \ {m} : activations'[x] = activations[x]
  BY <1>1, <1>2, <1>4, lastId <= lastId, SetIs
<1>6. Releasable' \subseteq Releasable
  BY <1>4, <1>5, ReleasableAfter
<1>7. ASSUME NEW x \in Modules PROVE ModuleFits(table, activations'[x], loaded[x], x)
  <2>1. ModuleFits(table, activations[x], loaded[x], x)
    BY ModuleIs
  <2>2. CASE x = m
    BY <1>1, <1>4, <1>5, <2>1, <2>2 DEF ModuleFits
  <2>3. CASE x # m
    BY <1>5, <2>1, <2>3
  <2> QED BY <2>2, <2>3
<1> QED BY <1>1, <1>2, <1>3, <1>5, <1>6, <1>7, OwnerQuietStep

LEMMA DeactivateWaitingStep ==
    ASSUME LanesAssumption, LanesInv, NEW m \in Modules, DeactivateWaiting(m), ~closing,
           UNCHANGED <<requests, granted, closing, laneSide>>
    PROVE  LanesInv' /\ Continues(table, table')
<1> DEFINE id == activations[m].job
           u == Dropped(table, id, "superseded")
           new == [activations[m] EXCEPT !.state = "inactive", !.job = 0]
<1>1. /\ table' = u /\ UNCHANGED <<lastId, requests, closing, laneSide>>
      /\ activations' = [activations EXCEPT ![m].state = "inactive", ![m].job = 0]
      /\ granted' = granted
      /\ activations[m].state = "activating" /\ table.entries[id].status = "queued"
  BY DEF DeactivateWaiting, Job
<1>2. /\ activations \in [Modules -> Activations(lastId)] /\ lastId \in Nat
      /\ granted \in [Grants -> {"never", "live", "revoked"}]
      /\ TableOk(table) /\ QueueOk(table) /\ Stops(table, granted)
  BY OwnerFacts
<1>3. /\ new \in Activations(lastId) /\ new.state = "inactive" /\ new.job = 0
      /\ activations' = [activations EXCEPT ![m] = new]
  <2>1. activations[m] \in Activations(lastId) /\ 0 \in 0 .. lastId
    BY <1>2
  <2>2. activations' = [activations EXCEPT ![m] = new]
    BY <1>1, <1>2
  <2> QED BY <2>1, <2>2 DEF Activations
<1>4. /\ id \in LiveIds(table) /\ id \in WithIn(table, {"queued"})
      /\ table.entries[id].kind = "activate" /\ table.entries[id].module = m
  BY <1>1, ModuleIs DEF LiveIds, WithIn
<1> HIDE DEF new, id
<1>5. /\ TableOk(u) /\ QueueOk(u) /\ Continues(table, u)
      /\ u.running = table.running /\ u.channel = table.channel
      /\ LiveIds(u) = LiveIds(table) \ {id}
      /\ DOMAIN u.entries \subseteq DOMAIN table.entries
  <2>1. "superseded" \in Over
    BY DEF Over
  <2> QED BY <1>2, <1>4, <2>1, DroppedIs
<1> HIDE DEF u
<1>6. Runs(table, u)
  BY <1>5 DEF Runs
<1>7. /\ activations' \in [Modules -> Activations(lastId)] /\ activations'[m] = new
      /\ \A x \in Modules \ {m} : activations'[x] = activations[x]
  BY <1>2, <1>3, lastId <= lastId, SetIs
<1>8. Releasable' \subseteq Releasable
  BY <1>3, <1>7, ReleasableAfter
<1>9. ASSUME NEW x \in Modules PROVE ModuleFits(u, activations'[x], loaded[x], x)
  <2>1. CASE x = m
    <3>1. ModuleFits(table, activations[m], loaded[m], m)
      BY ModuleIs
    <3>2. new.state \in {"inactive", "failed"} /\ LiveIds(u) \subseteq LiveIds(table)
      BY <1>3, <1>5
    <3>3. ModuleFits(u, new, loaded[m], m)
      BY <1>3, <1>5, <3>1, <3>2, FitsIdle
    <3> QED BY <1>7, <2>1, <3>3
  <2>2. CASE x # m
    <3>1. activations[x].job # id
      BY <1>4, <2>2, ModuleIs DEF Movers
    <3>2. LiveIds(table) \ {id} \subseteq LiveIds(u) /\ LiveIds(u) \subseteq LiveIds(table)
      BY <1>5
    <3>3. ModuleFits(u, activations[x], loaded[x], x)
      BY <1>5, <3>1, <3>2, OthersFit
    <3> QED BY <1>7, <2>2, <3>3
  <2> QED BY <2>1, <2>2
<1>10. Stops(u, granted)
  <2>1. LiveIds(u) \subseteq LiveIds(table)
    BY <1>5
  <2> QED BY <1>2, <1>5, <2>1, StopsKept
<1> QED BY <1>1, <1>2, <1>5, <1>6, <1>7, <1>8, <1>9, <1>10, OwnerQuietStep

\* A running job is asked to stop, and its activation with it or not.
LEMMA AskedStep ==
    ASSUME LanesAssumption, LanesInv, ~closing,
           UNCHANGED <<lastId, requests, granted, closing, laneSide>>,
           NEW id \in LiveIds(table), table.entries[id].status = "running",
           table' = Cancelled(table, id), NEW m \in Modules,
           \/ activations' = activations
           \/ /\ activations[m].state = "activating"
              /\ activations' = [activations EXCEPT ![m].pending = TRUE]
    PROVE  LanesInv' /\ Continues(table, table')
<1> DEFINE u == Cancelled(table, id)
           new == [activations[m] EXCEPT !.pending = TRUE]
<1>1. /\ table' = u /\ UNCHANGED <<lastId, requests, closing, laneSide>>
      /\ granted' = granted
  OBVIOUS
<1>2. /\ activations \in [Modules -> Activations(lastId)] /\ lastId \in Nat
      /\ granted \in [Grants -> {"never", "live", "revoked"}]
      /\ TableOk(table) /\ QueueOk(table) /\ Stops(table, granted)
  BY OwnerFacts
<1>3. /\ new \in Activations(lastId) /\ new.state = activations[m].state
      /\ new.job = activations[m].job
  <2>1. activations[m] \in Activations(lastId)
    BY <1>2
  <2> QED BY <2>1 DEF Activations
<1>4. \/ activations' = activations
      \/ /\ activations[m].state = "activating"
         /\ activations' = [activations EXCEPT ![m] = new]
  OBVIOUS
<1> HIDE DEF new
<1>5. /\ TableOk(u) /\ QueueOk(u) /\ Continues(table, u)
      /\ u.running = table.running /\ u.channel = table.channel
      /\ LiveIds(u) = LiveIds(table)
      /\ DOMAIN u.entries \subseteq DOMAIN table.entries
  BY <1>2, CancelledIs
<1> HIDE DEF u
<1>6. Runs(table, u)
  BY <1>5 DEF Runs
<1>7. /\ activations' \in [Modules -> Activations(lastId)]
      /\ \A x \in Modules : activations'[x] = activations[x]
            \/ (x = m /\ activations'[x] = new /\ activations[m].state = "activating")
  <2>1. CASE activations' = activations
    BY <1>2, <2>1
  <2>2. CASE /\ activations[m].state = "activating"
             /\ activations' = [activations EXCEPT ![m] = new]
    <3>1. /\ activations' \in [Modules -> Activations(lastId)] /\ activations'[m] = new
          /\ \A x \in Modules \ {m} : activations'[x] = activations[x]
      BY <1>2, <1>3, <2>2, lastId <= lastId, SetIs
    <3> QED BY <2>2, <3>1
  <2> QED BY <1>4, <2>1, <2>2
<1>8. Releasable' \subseteq Releasable
  BY <1>3, <1>7 DEF Releasable
<1>9. ASSUME NEW x \in Modules PROVE ModuleFits(u, activations'[x], loaded[x], x)
  <2>1. ModuleFits(table, activations[x], loaded[x], x)
    BY ModuleIs
  <2>2. ModuleFits(u, activations[x], loaded[x], x)
    BY <1>5, <2>1, FitsKept
  <2>3. CASE x = m /\ activations'[x] = new /\ activations[m].state = "activating"
    BY <1>3, <2>2, <2>3, FitsPending
  <2> QED BY <1>7, <2>2, <2>3
<1>10. Stops(u, granted)
  BY <1>2, <1>5, StopsKept
<1> QED BY <1>1, <1>2, <1>5, <1>6, <1>7, <1>8, <1>9, <1>10, OwnerQuietStep

LEMMA DeactivateActiveStep ==
    ASSUME LanesInv, NEW m \in Modules, DeactivateActive(m), ~closing,
           UNCHANGED <<requests, granted, closing, laneSide>>
    PROVE  LanesInv' /\ Continues(table, table')
<1> DEFINE u == Submitted(table, lastId + 1, NewJob("deactivate", m, NoGrant))
           new == [Inactive EXCEPT !.job = lastId + 1]
<1>1. /\ table' = u /\ lastId' = lastId + 1 /\ requests' = requests
      /\ activations' = [activations EXCEPT ![m] = new]
      /\ granted' = granted /\ closing' = closing /\ UNCHANGED laneSide
      /\ activations[m].state = "active"
  BY DEF DeactivateActive, ReleaseLoaded
<1>2. /\ lastId \in Nat /\ requests \in 0 .. MaxRequests
      /\ DOMAIN table.entries \subseteq 1 .. lastId
      /\ activations \in [Modules -> Activations(lastId)]
      /\ granted \in [Grants -> {"never", "live", "revoked"}]
      /\ TableOk(table) /\ QueueOk(table) /\ closing \in BOOLEAN
      /\ Stops(table, granted)
  BY OwnerFacts
<1>3. /\ TableOk(u) /\ QueueOk(u) /\ Continues(table, u) /\ Runs(table, u)
      /\ LiveIds(u) = LiveIds(table) \union {lastId + 1}
      /\ DOMAIN u.entries = DOMAIN table.entries \union {lastId + 1}
      /\ DOMAIN u.entries \subseteq 1 .. lastId + 1
      /\ lastId + 1 \notin DOMAIN table.entries
      /\ \A k \in DOMAIN table.entries : k \in Nat /\ k < lastId + 1
      /\ u.entries[lastId + 1].kind = "deactivate" /\ u.entries[lastId + 1].module = m
      /\ u.entries[lastId + 1].grant = NoGrant
  <2>1. "deactivate" \in Kinds /\ NoGrant \in Grants \union {NoGrant}
    BY DEF Kinds
  <2>2. SubmittedTo(table, u, lastId, "deactivate", m, NoGrant)
    BY ONLY <1>2, <2>1, SubmitIs DEF u
  <2> QED BY ONLY <2>2 DEF SubmittedTo
<1> HIDE DEF u
<1>4. lastId + 1 \in Nat /\ lastId <= lastId + 1 /\ lastId + 1 \in Nat \ {0}
  BY <1>2
<1>5. /\ new \in Activations(lastId + 1) /\ new.state = "inactive"
      /\ new.job = lastId + 1
  <2> DEFINE id == lastId + 1
             rest == Inactive
  <2>1. id \in 0 .. id /\ 0 \in 0 .. id
    BY <1>2
  <2>2. rest \in Activations(id) /\ rest.state = "inactive"
    BY <2>1 DEF Activations, Inactive
  <2> HIDE DEF id, rest
  <2>3. LET a == [rest EXCEPT !.job = id]
        IN  a \in Activations(id) /\ a.state = "inactive" /\ a.job = id
    BY <2>1, <2>2 DEF Activations
  <2> QED BY <2>3 DEF rest, id
<1> HIDE DEF new
<1>6. /\ activations' \in [Modules -> Activations(lastId + 1)] /\ activations'[m] = new
      /\ \A x \in Modules \ {m} : activations'[x] = activations[x]
  BY <1>1, <1>2, <1>4, <1>5, SetIs
<1>7. LanesCounted'
  <2>1. m \in Releasable /\ Releasable' \subseteq Releasable \ {m}
    BY <1>1, <1>5, <1>6, ReleasableAfter
  <2> QED BY <1>1, <2>1, ReleaseCounted
<1>8. ModulesFit'
  <2> SUFFICES ASSUME NEW x \in Modules
               PROVE  ModuleFits(u, activations'[x], loaded[x], x)
    BY <1>1 DEF ModulesFit, laneSide
  <2>1. ModuleFits(table, activations[x], loaded[x], x)
    BY ModuleIs
  <2>2. CASE x = m
    <3> DEFINE id == lastId + 1
               old == activations[m]
               on == loaded[m]
    <3>1. Movers(table, m) = {} /\ \A k \in Tasks(table, m) : on
      BY <1>1, <2>1, <2>2 DEF ModuleFits
    <3>2. /\ Continues(table, u) /\ LiveIds(u) = LiveIds(table) \union {id}
          /\ DOMAIN table.entries \subseteq DOMAIN u.entries
          /\ \A k \in DOMAIN table.entries : k \in Nat /\ k < id
          /\ u.entries[id].module = m /\ u.entries[id].kind = "deactivate"
      BY <1>3
    <3>3. id \in Nat \ {0} /\ new.state = "inactive" /\ new.job = id
      BY <1>4, <1>5
    <3> HIDE DEF id, old, on
    <3>4. ModuleFits(u, new, on, m)
      BY ONLY <3>1, <3>2, <3>3, FitsRelease
    <3> QED BY <1>6, <2>2, <3>4 DEF on
  <2>3. CASE x # m
    <3>1. ModuleFits(u, activations[x], loaded[x], x)
      BY <1>3, <2>1, <2>3, FitsBeside
    <3> QED BY <1>6, <2>3, <3>1
  <2> QED BY <2>2, <2>3
<1>9. Stops(u, granted)
  BY <1>2, <1>3, StopsJoined
<1> QED BY <1>1, <1>2, <1>3, <1>4, <1>6, <1>7, <1>8, <1>9, OwnerStep

LEMMA DeactivateStep ==
    ASSUME LanesAssumption, LanesInv, NEW m \in Modules, Deactivate(m)
    PROVE  LanesInv' /\ Continues(table, table')
<1>1. ~closing /\ UNCHANGED <<requests, granted, closing, laneSide>>
  BY DEF Deactivate
<1>2. CASE DeactivateRunning(m)
  <2>1. /\ table' = Cancelled(table, activations[m].job) /\ lastId' = lastId
        /\ activations[m].state = "activating"
        /\ table.entries[activations[m].job].status = "running"
        /\ activations' = [activations EXCEPT ![m].pending = TRUE]
    BY <1>2 DEF DeactivateRunning, Job
  <2>2. activations[m].job \in LiveIds(table)
    BY <2>1, ModuleIs
  <2> QED BY <1>1, <2>1, <2>2, AskedStep
<1> QED BY <1>1, <1>2, DeactivateFailedStep, DeactivateWaitingStep, DeactivateActiveStep
        DEF Deactivate

\* A waiting job is withdrawn, and with it the activation it is, if any.
LEMMA WithdrawnStep ==
    ASSUME LanesAssumption, LanesInv, NEW id \in LiveIds(table),
           CancelJob(id), table.entries[id].status = "queued"
    PROVE  LanesInv' /\ Continues(table, table')
<1> DEFINE u == Cancelled(table, id)
           m == table.entries[id].module
           new == [activations[m] EXCEPT !.state = "inactive", !.job = 0]
<1>1. /\ table' = u /\ UNCHANGED <<lastId, requests, closing, laneSide>>
      /\ granted' = granted /\ ~closing
      /\ table.entries[id].kind # "deactivate"
      /\ activations' = IF table.entries[id].kind # "activate" \/ activations[m].job # id
                          THEN activations
                          ELSE [activations EXCEPT ![m] = new]
  BY DEF CancelJob, CancelledActivation, Job
<1>2. /\ activations \in [Modules -> Activations(lastId)] /\ lastId \in Nat
      /\ granted \in [Grants -> {"never", "live", "revoked"}]
      /\ TableOk(table) /\ QueueOk(table) /\ Stops(table, granted) /\ Records(table)
  BY <1>1, OwnerFacts
<1>3. m \in Modules /\ id \in Nat \ {0} /\ table.entries[id].kind \in Kinds
  BY <1>2 DEF Records, Jobs, LiveIds
<1>4. /\ new \in Activations(lastId) /\ new.state = "inactive" /\ new.job = 0
  <2>1. activations[m] \in Activations(lastId) /\ 0 \in 0 .. lastId
    BY <1>2, <1>3
  <2> QED BY <2>1 DEF Activations
<1> HIDE DEF new
<1>5. /\ TableOk(u) /\ QueueOk(u) /\ Continues(table, u)
      /\ u.running = table.running /\ u.channel = table.channel
      /\ LiveIds(u) = LiveIds(table) \ {id}
      /\ DOMAIN u.entries \subseteq DOMAIN table.entries
  BY <1>2, CancelledIs
<1> HIDE DEF u
<1>6. Runs(table, u)
  BY <1>5 DEF Runs
<1>7. LiveIds(table) \ {id} \subseteq LiveIds(u) /\ LiveIds(u) \subseteq LiveIds(table)
  BY <1>5
\* Only its own module's activation is about a job.
<1>8. \A x \in Modules : activations[x].job = id =>
         x = m /\ (table.entries[id].kind = "activate")
  <2> SUFFICES ASSUME NEW x \in Modules, activations[x].job = id
               PROVE  x = m /\ table.entries[id].kind = "activate"
    OBVIOUS
  <2>1. id \in Movers(table, x)
    BY ModuleIs
  <2>2. table.entries[id].module = x /\ table.entries[id].kind # "task"
    BY <2>1 DEF Movers
  <2> QED BY <1>1, <1>3, <2>2 DEF Kinds
<1>9. CASE activations' = activations /\ activations[m].job # id
  <2>1. \A x \in Modules : activations[x].job # id
    BY <1>8, <1>9
  <2>2. \A x \in Modules : ModuleFits(u, activations[x], loaded[x], x)
    BY <1>5, <1>7, <2>1, OthersFit
  <2>3. Releasable' \subseteq Releasable
    BY <1>9 DEF Releasable
  <2>4. Stops(u, granted)
    BY <1>2, <1>5, <1>7, StopsKept
  <2> QED BY <1>1, <1>2, <1>5, <1>6, <1>9, <2>2, <2>3, <2>4, OwnerQuietStep
<1>10. CASE activations' = [activations EXCEPT ![m] = new]
  <2>1. /\ activations' \in [Modules -> Activations(lastId)] /\ activations'[m] = new
        /\ \A x \in Modules \ {m} : activations'[x] = activations[x]
    BY <1>2, <1>3, <1>4, <1>10, lastId <= lastId, SetIs
  <2>2. Releasable' \subseteq Releasable
    BY <1>3, <1>4, <2>1, ReleasableAfter
  <2>3. ASSUME NEW x \in Modules PROVE ModuleFits(u, activations'[x], loaded[x], x)
    <3>1. CASE x = m
      <4>1. ModuleFits(table, activations[m], loaded[m], m)
        BY <1>3, ModuleIs
      <4>2. new.state \in {"inactive", "failed"}
        BY <1>4
      <4>3. ModuleFits(u, new, loaded[m], m)
        BY <1>4, <1>5, <1>7, <4>1, <4>2, FitsIdle
      <4> QED BY <2>1, <3>1, <4>3
    <3>2. CASE x # m
      <4>1. ModuleFits(u, activations[x], loaded[x], x)
        BY <1>5, <1>7, <1>8, <3>2, OthersFit
      <4> QED BY <2>1, <3>2, <4>1
    <3> QED BY <3>1, <3>2
  <2>4. Stops(u, granted)
    BY <1>2, <1>5, <1>7, StopsKept
  <2> QED BY <1>1, <1>2, <1>5, <1>6, <2>1, <2>2, <2>3, <2>4, OwnerQuietStep
<1> QED BY <1>1, <1>3, <1>8, <1>9, <1>10

LEMMA CancelJobStep ==
    ASSUME LanesAssumption, LanesInv, NEW id, CancelJob(id)
    PROVE  LanesInv' /\ Continues(table, table')
<1>1. id \in LiveIds(table)
  BY DEF CancelJob
<1>2. table.entries[id].status \in {"queued", "running"}
  BY <1>1 DEF LiveIds, Live
<1>3. CASE table.entries[id].status = "running"
  <2> DEFINE m == table.entries[id].module
  <2>1. /\ ~closing /\ UNCHANGED <<lastId, requests, granted, closing, laneSide>>
        /\ table' = Cancelled(table, id)
        /\ \/ activations' = activations
           \/ /\ activations[m].job = id /\ table.entries[id].kind = "activate"
              /\ activations' = [activations EXCEPT ![m].pending = TRUE]
    BY <1>3 DEF CancelJob, CancelledActivation
  <2>2. m \in Modules /\ id # 0
    BY <1>1, OwnerFacts DEF Records, Jobs, LiveIds
  <2>3. activations[m].job = id /\ table.entries[id].kind = "activate" =>
           activations[m].state = "activating"
    BY <2>2, ModuleIs
  <2> HIDE DEF m
  <2>4. \/ activations' = activations
        \/ /\ activations[m].state = "activating"
           /\ activations' = [activations EXCEPT ![m].pending = TRUE]
    BY <2>1, <2>3
  <2> QED BY <1>1, <1>3, <2>1, <2>2, <2>4, AskedStep
<1>4. CASE table.entries[id].status = "queued"
  BY <1>1, <1>4, WithdrawnStep
<1> QED BY <1>2, <1>3, <1>4

-----------------------------------------------------------------------------
\* A result served.

LEMMA ServeShape ==
    ASSUME LanesInv, inbox.id # 0, ~closing, inbox' = NoResult,
           UNCHANGED <<requests, granted, closing, worker, loaded>>,
           TableOk(table'), QueueOk(table'),
           \/ table'.running = 0 /\ table'.channel = 0
           \/ table'.running # 0 /\ table'.channel = table'.running,
           lastId' \in Nat, lastId <= lastId',
           DOMAIN table'.entries \subseteq 1 .. lastId',
           activations' \in [Modules -> Activations(lastId')],
           LanesCounted', Stops(table', granted),
           \A x \in Modules : ModuleFits(table', activations'[x], loaded[x], x)
    PROVE  LanesInv'
<1>1. worker.id = 0
  BY DEF LanesInv, Located
<1>2. /\ worker' = worker /\ loaded' = loaded /\ requests' = requests
      /\ granted' = granted /\ closing' = closing
  OBVIOUS
<1>3. LanesTyped'
  <2>1. lastId \in Nat
    BY DEF LanesInv, LanesTyped
  <2>2. \A i : i \in 0 .. lastId => i \in 0 .. lastId'
    BY <2>1
  <2>3. worker' \in [id : 0 .. lastId', phase : {"resting", "working", "activated",
                                                 "failed", "ended"}]
    BY <1>2, <2>2 DEF LanesInv, LanesTyped
  <2>4. inbox' \in [id : 0 .. lastId', result : Results]
    <3>1. 0 \in 0 .. lastId'
      OBVIOUS
    <3> QED BY ONLY <3>1, inbox' = NoResult DEF NoResult, Results
  <2>5. /\ loaded' \in [Modules -> BOOLEAN] /\ closing' \in BOOLEAN
        /\ requests' \in 0 .. MaxRequests
        /\ granted' \in [Grants -> {"never", "live", "revoked"}]
    BY <1>2 DEF LanesInv, LanesTyped
  <2> QED BY <2>3, <2>4, <2>5 DEF LanesTyped
<1>4. inbox'.id = 0
  BY DEF NoResult
<1>5. Located'
  BY <1>1, <1>2, <1>4 DEF Located
<1>6. Doing'
  <2>1. Doing
    BY DEF LanesInv
  <2>2. worker.phase \in {"resting", "ended"} /\ (worker.phase = "ended" => closing')
    BY <1>1, <1>2, <2>1 DEF Doing
  <2>3. worker.phase \notin {"activated", "failed"}
    BY <2>2
  <2> QED BY ONLY <1>1, <1>2, <1>4, <2>2, <2>3, inbox' = NoResult DEF Doing, NoResult
<1>7. ModulesFit'
  BY <1>2 DEF ModulesFit
<1> QED BY <1>2, <1>3, <1>5, <1>6, <1>7 DEF LanesInv

\* A result is served: the table t is the one it leaves, without the job.
ServedTo(id, t) ==
    /\ id # 0 /\ id = inbox.id /\ id \in LiveIds(table)
    /\ \A k \in LiveIds(table) : k \in Nat /\ id <= k
    /\ TableOk(t) /\ QueueOk(t) /\ Continues(table, t)
    /\ \/ t.running = 0 /\ t.channel = 0
       \/ t.running # 0 /\ t.channel = t.running
    /\ LiveIds(t) = LiveIds(table) \ {id}
    /\ DOMAIN t.entries \subseteq DOMAIN table.entries
    /\ ~closing /\ inbox' = NoResult
    /\ UNCHANGED <<requests, granted, closing, worker, loaded>>

\* What is known when a result is served.
LEMMA Served ==
    ASSUME LanesAssumption, LanesInv, ServeResult
    PROVE  LET id == inbox.id
               job == table.entries[id]
               result == TaskResult(job, inbox.result)
               t == Completed(table, id, result)
           IN  /\ ServedTo(id, t)
               /\ job \in Jobs /\ result \in Results
               /\ (result = "ready" /\ job.kind = "activate" => loaded[job.module])
<1> DEFINE id == inbox.id
           job == table.entries[id]
           result == TaskResult(job, inbox.result)
           t == Completed(table, id, result)
<1>1. /\ id # 0 /\ Doing /\ ~closing /\ inbox' = NoResult
      /\ UNCHANGED <<requests, granted, closing, worker, loaded>>
  BY DEF ServeResult, LanesInv, Doing
<1>2. id = table.running /\ table.channel = 0
  BY <1>1 DEF LanesInv, Located
<1>3. /\ id \in LiveIds(table) /\ \A k \in LiveIds(table) : k \in Nat /\ id <= k
  BY <1>1, <1>2, FirstRuns
<1>4. TableOk(table) /\ QueueOk(table) /\ Records(table)
  BY <1>1, OwnerFacts
<1>5. job \in Jobs
  BY <1>3, <1>4 DEF Records, LiveIds
<1>6. inbox.result \in Results
  BY DEF LanesInv, LanesTyped
<1>7. /\ result \in Results
      /\ result = "cancelled" => table.entries[id].cancelled
      /\ result = "ready" => inbox.result = "ready"
  BY <1>1, <1>6 DEF TaskResult, Doing, Results
<1>8. result = "ready" /\ job.kind = "activate" => loaded[job.module]
  BY <1>1, <1>7 DEF Doing
<1> HIDE DEF job, result
<1>9. /\ TableOk(t) /\ QueueOk(t) /\ Continues(table, t)
      /\ \/ t.running = 0 /\ t.channel = table.channel
         \/ t.running # 0 /\ t.channel = t.running
      /\ LiveIds(t) = LiveIds(table) \ {id}
      /\ DOMAIN t.entries \subseteq DOMAIN table.entries
  <2> DEFINE first == table.running
  <2>1. t = Completed(table, first, result)
    BY <1>2
  <2>2. table.running # 0 /\ (result = "cancelled" => table.entries[table.running].cancelled)
    BY <1>1, <1>2, <1>7
  <2>3. LET u == Completed(table, table.running, result)
        IN  /\ TableOk(u) /\ QueueOk(u) /\ Continues(table, u)
            /\ \/ u.running = 0 /\ u.channel = table.channel
               \/ u.running # 0 /\ u.channel = u.running
            /\ LiveIds(u) = LiveIds(table) \ {table.running}
            /\ DOMAIN u.entries \subseteq DOMAIN table.entries
    <3>1. result \in Results
      BY <1>7
    <3> QED BY ONLY LanesAssumption, <1>4, <2>2, <3>1, CompletedIs
  <2> QED BY <1>2, <2>1, <2>3
<1> HIDE DEF t
<1>10. ServedTo(id, t)
  BY ONLY <1>1, <1>2, <1>3, <1>9 DEF ServedTo
<1> QED BY <1>5, <1>7, <1>8, <1>10 DEF job, result, t

\* An activation asked to stop has succeeded: it is released.
LEMMA UndoneStep ==
    ASSUME LanesInv, NEW id, NEW m \in Modules, NEW t, ServedTo(id, t),
           activations[m].job = id, ReleaseLoaded(t, activations, m),
           activations[m].state = "activating"
    PROVE  LanesInv' /\ Continues(table, table')
<1> DEFINE u == Submitted(t, lastId + 1, NewJob("deactivate", m, NoGrant))
           new == [Inactive EXCEPT !.job = lastId + 1]
<1>1. /\ table' = u /\ lastId' = lastId + 1
      /\ activations' = [activations EXCEPT ![m] = new]
  BY DEF ReleaseLoaded
<1>2. /\ id # 0 /\ id = inbox.id /\ id \in LiveIds(table)
      /\ (\A k \in LiveIds(table) : k \in Nat /\ id <= k)
      /\ TableOk(t) /\ QueueOk(t) /\ Continues(table, t)
      /\ \/ t.running = 0 /\ t.channel = 0
         \/ t.running # 0 /\ t.channel = t.running
      /\ LiveIds(t) = LiveIds(table) \ {id}
      /\ DOMAIN t.entries \subseteq DOMAIN table.entries
  BY DEF ServedTo
<1>3. /\ ~closing /\ inbox' = NoResult
      /\ UNCHANGED <<requests, granted, closing, worker, loaded>>
  BY DEF ServedTo
<1>4. /\ lastId \in Nat /\ DOMAIN table.entries \subseteq 1 .. lastId
      /\ activations \in [Modules -> Activations(lastId)]
      /\ Stops(table, granted)
  BY OwnerFacts
<1>5. DOMAIN t.entries \subseteq 1 .. lastId
  BY ONLY <1>2, <1>4
<1>6. /\ TableOk(u) /\ QueueOk(u) /\ Continues(t, u) /\ Runs(t, u)
      /\ LiveIds(u) = LiveIds(t) \union {lastId + 1}
      /\ DOMAIN u.entries = DOMAIN t.entries \union {lastId + 1}
      /\ DOMAIN u.entries \subseteq 1 .. lastId + 1
      /\ lastId + 1 \notin DOMAIN t.entries
      /\ \A k \in DOMAIN t.entries : k \in Nat /\ k < lastId + 1
      /\ u.entries[lastId + 1].kind = "deactivate" /\ u.entries[lastId + 1].module = m
      /\ u.entries[lastId + 1].grant = NoGrant
  <2>1. "deactivate" \in Kinds /\ NoGrant \in Grants \union {NoGrant} /\ m \in Modules
    BY DEF Kinds
  <2>2. TableOk(t) /\ QueueOk(t) /\ lastId \in Nat
    BY <1>2, <1>4
  <2>3. SubmittedTo(t, u, lastId, "deactivate", m, NoGrant)
    BY ONLY <1>5, <2>1, <2>2, SubmitIs DEF u
  <2> QED BY ONLY <2>3 DEF SubmittedTo
<1> HIDE DEF u
<1>7. lastId + 1 \in Nat /\ lastId <= lastId + 1 /\ lastId + 1 \in Nat \ {0}
  BY ONLY <1>4
<1>8. new \in Activations(lastId + 1) /\ new.state = "inactive" /\ new.job = lastId + 1
  <2> DEFINE k == lastId + 1
             rest == Inactive
  <2>1. k \in 0 .. k /\ 0 \in 0 .. k
    BY ONLY <1>7
  <2>2. rest \in Activations(k) /\ rest.state = "inactive"
    BY ONLY <2>1 DEF Activations, Inactive
  <2> HIDE DEF k, rest
  <2>3. LET a == [rest EXCEPT !.job = k]
        IN  a \in Activations(k) /\ a.state = "inactive" /\ a.job = k
    BY ONLY <2>1, <2>2 DEF Activations
  <2> QED BY ONLY <2>3 DEF rest, k
<1> HIDE DEF new
<1>9. /\ activations' \in [Modules -> Activations(lastId + 1)] /\ activations'[m] = new
      /\ \A x \in Modules \ {m} : activations'[x] = activations[x]
  BY ONLY <1>1, <1>4, <1>7, <1>8, m \in Modules, SetIs
<1>10. LanesCounted'
  <2>1. m \in Releasable /\ Releasable' \subseteq Releasable \ {m}
    <3>1. new.state \notin {"activating", "active"}
      BY ONLY <1>8
    <3> QED BY <1>9, <3>1, ReleasableAfter
  <2> QED BY <1>1, <1>3, <2>1, ReleaseCounted
<1>11. ASSUME NEW x \in Modules PROVE ModuleFits(u, activations'[x], loaded[x], x)
  <2>1. CASE x = m
    <3> DEFINE k == lastId + 1
               old == activations[m]
               on == loaded[m]
    <3>1. ModuleFits(table, old, on, m)
      BY ModuleIs
    <3>2. old.job = id /\ old.state = "activating" /\ id \in Nat
      BY <1>2
    <3> HIDE DEF old, on
    <3>3. Movers(t, m) = {} /\ \A j \in Tasks(t, m) : on
      <4>1. LiveIds(t) = LiveIds(table) \ {old.job} /\ old.job \in Nat
            /\ \A j \in LiveIds(table) : old.job <= j /\ j \in Nat
        BY ONLY <1>2, <3>2
      <4>2. Continues(table, t)
        BY ONLY <1>2
      <4> QED BY ONLY <3>1, <3>2, <4>1, <4>2, FitsEnded
    <3>4. /\ Continues(t, u) /\ LiveIds(u) = LiveIds(t) \union {k}
          /\ DOMAIN t.entries \subseteq DOMAIN u.entries
          /\ \A j \in DOMAIN t.entries : j \in Nat /\ j < k
          /\ u.entries[k].module = m /\ u.entries[k].kind = "deactivate"
      BY ONLY <1>6
    <3>5. k \in Nat \ {0} /\ new.state = "inactive" /\ new.job = k
      BY ONLY <1>7, <1>8
    <3> HIDE DEF k
    <3>6. ModuleFits(u, new, on, m)
      BY ONLY <3>3, <3>4, <3>5, FitsRelease
    <3> QED BY ONLY <1>9, <2>1, <3>6 DEF on
  <2>2. CASE x # m
    <3>1. activations[x].job # id
      <4>1. /\ activations[x].job \in LiveIds(table) => activations[x].job \in Movers(table, x)
            /\ table.entries[id].module = m
        BY ModuleIs
      <4> QED BY ONLY <1>2, <2>2, <4>1 DEF Movers
    <3>2. LiveIds(table) \ {id} \subseteq LiveIds(t) /\ LiveIds(t) \subseteq LiveIds(table)
          /\ Continues(table, t)
      BY ONLY <1>2
    <3>3. ModuleFits(t, activations[x], loaded[x], x)
      BY ONLY LanesInv, x \in Modules, <3>1, <3>2, OthersFit
    <3>4. ModuleFits(u, activations[x], loaded[x], x)
      <4>1. /\ Continues(t, u) /\ LiveIds(u) = LiveIds(t) \union {lastId + 1}
            /\ lastId + 1 \notin DOMAIN t.entries /\ u.entries[lastId + 1].module # x
            /\ DOMAIN t.entries \subseteq DOMAIN u.entries
        BY ONLY <1>6, <2>2
      <4> QED BY ONLY <3>3, <4>1, FitsBeside
    <3>5. activations'[x] = activations[x]
      BY ONLY <1>9, <2>2, x \in Modules
    <3> QED BY ONLY <3>4, <3>5
  <2> QED BY ONLY <2>1, <2>2
<1>12. Stops(u, granted)
  <2>1. LiveIds(t) \subseteq LiveIds(table) /\ Continues(table, t) /\ Stops(table, granted)
    BY ONLY <1>2, <1>4
  <2>2. Stops(t, granted)
    BY ONLY <2>1, StopsKept
  <2>3. /\ Continues(t, u) /\ LiveIds(u) = LiveIds(t) \union {lastId + 1}
        /\ u.entries[lastId + 1].grant = NoGrant
    BY ONLY <1>6
  <2> QED BY ONLY <2>2, <2>3, StopsJoined
<1>13. \/ u.running = 0 /\ u.channel = 0
       \/ u.running # 0 /\ u.channel = u.running
  BY ONLY <1>2, <1>6 DEF Runs
<1>14. Continues(table, u)
  <2>1. lastId + 1 \notin DOMAIN table.entries
    BY ONLY <1>4
  <2>2. DOMAIN table.entries \intersect DOMAIN u.entries \subseteq DOMAIN t.entries
    BY ONLY <1>6, <2>1
  <2>3. Continues(table, t) /\ Continues(t, u)
    BY ONLY <1>2, <1>6
  <2> QED BY ONLY <2>2, <2>3, ContinuesOn
<1>15. inbox.id # 0
  BY ONLY <1>2
<1>16. TableOk(u) /\ QueueOk(u) /\ DOMAIN u.entries \subseteq 1 .. lastId + 1
  BY ONLY <1>6
<1> QED BY ONLY LanesInv, <1>1, <1>3, <1>7, <1>9, <1>10, <1>11, <1>12, <1>13, <1>14, <1>15,
                <1>16, ServeShape

\* The other results change one activation or none, in the way of Settles.
Settles(m, id, new) ==
    /\ activations[m].job = id /\ new.job = 0
    /\ \/ new.state \in {"inactive", "failed"}
       \/ /\ new.state = "active" /\ ~new.pending /\ loaded[m]
          /\ activations[m].state = "activating"

LEMMA SettlesFits ==
    ASSUME LanesInv, NEW id, NEW m \in Modules, NEW t, ServedTo(id, t), NEW new,
           Settles(m, id, new)
    PROVE  ModuleFits(t, new, loaded[m], m)
<1> DEFINE old == activations[m]
           on == loaded[m]
<1>1. ModuleFits(table, old, on, m)
  BY ModuleIs
<1>2. /\ old.job = id /\ new.job = 0
      /\ \/ new.state \in {"inactive", "failed"}
         \/ new.state = "active" /\ ~new.pending /\ on /\ old.state = "activating"
  BY DEF Settles
<1>3. /\ id \in Nat /\ LiveIds(t) = LiveIds(table) \ {id} /\ Continues(table, t)
      /\ \A j \in LiveIds(table) : id <= j /\ j \in Nat
      /\ LiveIds(t) \subseteq LiveIds(table)
  BY DEF ServedTo
<1> HIDE DEF old, on
<1>4. CASE new.state \in {"inactive", "failed"}
  <2>1. new.job = 0 /\ Continues(table, t) /\ LiveIds(t) \subseteq LiveIds(table)
    BY ONLY <1>2, <1>3
  <2>2. ModuleFits(t, new, on, m)
    BY ONLY <1>1, <1>4, <2>1, FitsIdle
  <2> QED BY ONLY <2>2 DEF on
<1>5. CASE new.state = "active" /\ ~new.pending /\ on /\ old.state = "activating"
  <2>1. LiveIds(t) = LiveIds(table) \ {old.job} /\ old.job \in Nat
        /\ \A j \in LiveIds(table) : old.job <= j /\ j \in Nat
    BY ONLY <1>2, <1>3
  <2>2. Continues(table, t) /\ old.state = "activating"
    BY ONLY <1>3, <1>5
  <2>3. Movers(t, m) = {}
    BY ONLY <1>1, <2>1, <2>2, FitsEnded
  <2>4. ModuleFits(t, new, on, m)
    BY ONLY <1>2, <1>5, <2>3, FitsActive
  <2> QED BY ONLY <2>4 DEF on
<1> QED BY ONLY <1>2, <1>4, <1>5

LEMMA ServedOthers ==
    ASSUME LanesInv, NEW id, NEW t, ServedTo(id, t), NEW x \in Modules,
           activations[x].job # id
    PROVE  ModuleFits(t, activations[x], loaded[x], x)
<1>1. LiveIds(table) \ {id} \subseteq LiveIds(t) /\ LiveIds(t) \subseteq LiveIds(table)
      /\ Continues(table, t)
  BY DEF ServedTo
<1> QED BY <1>1, OthersFit

\* An activation is about one job of its module.
LEMMA OwnJob ==
    ASSUME LanesInv, NEW id \in LiveIds(table), NEW x \in Modules, activations[x].job = id
    PROVE  table.entries[id].module = x /\ table.entries[id].kind # "task"
<1>1. activations[x].job \in LiveIds(table) => activations[x].job \in Movers(table, x)
  BY ModuleIs
<1> QED BY <1>1 DEF Movers

LEMMA SettledTable ==
    ASSUME LanesInv, NEW id, NEW t, ServedTo(id, t), table' = t, lastId' = lastId,
           activations' \in [Modules -> Activations(lastId)],
           Releasable' \subseteq Releasable,
           \A x \in Modules : ModuleFits(t, activations'[x], loaded[x], x)
    PROVE  LanesInv' /\ Continues(table, table')
<1>1. /\ ~closing /\ inbox' = NoResult
      /\ UNCHANGED <<requests, granted, closing, worker, loaded>>
  BY DEF ServedTo
<1>2. /\ inbox.id # 0 /\ TableOk(t) /\ QueueOk(t) /\ Continues(table, t)
      /\ \/ t.running = 0 /\ t.channel = 0
         \/ t.running # 0 /\ t.channel = t.running
      /\ LiveIds(t) \subseteq LiveIds(table)
      /\ DOMAIN t.entries \subseteq DOMAIN table.entries
  BY DEF ServedTo
<1>3. /\ lastId \in Nat /\ DOMAIN table.entries \subseteq 1 .. lastId
      /\ Stops(table, granted)
  BY OwnerFacts
<1>4. LanesCounted'
  BY <1>1, KeptCounted
<1>5. Stops(t, granted)
  BY ONLY <1>2, <1>3, StopsKept
<1>6. DOMAIN t.entries \subseteq 1 .. lastId
  BY ONLY <1>2, <1>3
<1>7. lastId <= lastId
  BY ONLY <1>3
<1> QED BY <1>1, <1>2, <1>3, <1>4, <1>5, <1>6, <1>7, ServeShape

LEMMA SettledStep ==
    ASSUME LanesInv, NEW id, NEW m \in Modules, NEW t, ServedTo(id, t),
           table' = t, lastId' = lastId, NEW new \in Activations(lastId),
           Settles(m, id, new), activations' = [activations EXCEPT ![m] = new]
    PROVE  LanesInv' /\ Continues(table, table')
<1>1. activations \in [Modules -> Activations(lastId)] /\ lastId \in Nat
  BY OwnerFacts
<1>2. lastId <= lastId
  BY ONLY <1>1
<1>3. /\ activations' \in [Modules -> Activations(lastId)] /\ activations'[m] = new
      /\ \A x \in Modules \ {m} : activations'[x] = activations[x]
  BY <1>1, <1>2, SetIs
<1>4. Releasable' \subseteq Releasable
  <2>1. \/ new.state \notin {"activating", "active"}
        \/ activations[m].state \in {"activating", "active"}
    BY DEF Settles
  <2>2. /\ new.state \notin {"activating", "active"} => Releasable' \subseteq Releasable \ {m}
        /\ activations[m].state \in {"activating", "active"} =>
              Releasable' \subseteq Releasable
    BY <1>3, ReleasableAfter
  <2> QED BY ONLY <2>1, <2>2
<1>5. ASSUME NEW x \in Modules PROVE ModuleFits(t, activations'[x], loaded[x], x)
  <2>1. CASE x = m
    <3>1. ModuleFits(t, new, loaded[m], m)
      BY SettlesFits
    <3> QED BY ONLY <1>3, <2>1, <3>1
  <2>2. CASE x # m
    <3>1. id \in LiveIds(table) /\ activations[m].job = id
      BY DEF ServedTo, Settles
    <3>2. activations[x].job # id
      <4>1. table.entries[id].module = m
        BY <3>1, OwnJob
      <4>2. activations[x].job = id => table.entries[id].module = x
        BY <3>1, OwnJob
      <4> QED BY ONLY <2>2, <4>1, <4>2
    <3>3. ModuleFits(t, activations[x], loaded[x], x)
      BY <3>2, ServedOthers
    <3>4. activations'[x] = activations[x]
      BY ONLY <1>3, <2>2, x \in Modules
    <3> QED BY ONLY <3>3, <3>4
  <2> QED BY ONLY <2>1, <2>2
<1> QED BY <1>3, <1>4, <1>5, SettledTable

LEMMA UnsettledStep ==
    ASSUME LanesInv, NEW id, NEW t, ServedTo(id, t),
           table' = t, lastId' = lastId, activations' = activations,
           \A x \in Modules : activations[x].job # id
    PROVE  LanesInv' /\ Continues(table, table')
<1>1. activations \in [Modules -> Activations(lastId)]
  BY OwnerFacts
<1>2. Releasable' \subseteq Releasable
  BY DEF Releasable
<1>3. \A x \in Modules : ModuleFits(t, activations[x], loaded[x], x)
  BY ServedOthers
<1> QED BY <1>1, <1>2, <1>3, SettledTable

\* An activation's result lands: the module is active, failed or inactive.
LEMMA LandedStep ==
    ASSUME LanesInv, NEW id, NEW m \in Modules, NEW t, ServedTo(id, t), NEW result,
           result = "ready" => loaded[m],
           activations[m].job = id, activations[m].state = "activating",
           ~(result = "ready" /\ activations[m].pending),
           table' = t, lastId' = lastId,
           activations' = [activations EXCEPT ![m] =
                              CASE result = "ready" -> [Inactive EXCEPT !.state = "active"]
                                [] result = "failed" /\ ~activations[m].pending ->
                                       [Inactive EXCEPT !.state = "failed"]
                                [] OTHER -> Inactive]
    PROVE  LanesInv' /\ Continues(table, table')
<1> DEFINE ended == CASE result = "ready" -> [Inactive EXCEPT !.state = "active"]
                      [] result = "failed" /\ ~activations[m].pending ->
                             [Inactive EXCEPT !.state = "failed"]
                      [] OTHER -> Inactive
           Lands == \/ ended.state \in {"inactive", "failed"}
                    \/ ended.state = "active" /\ ~ended.pending /\ result = "ready"
<1>1. lastId \in Nat
  BY ModuleIs
<1>2. 0 \in 0 .. lastId
  BY ONLY <1>1
<1>3. ended \in Activations(lastId) /\ ended.job = 0 /\ Lands
  <2>1. CASE result = "ready"
    <3>1. ended = [Inactive EXCEPT !.state = "active"]
      BY ONLY <2>1
    <3> HIDE DEF ended
    <3> QED BY ONLY <1>2, <2>1, <3>1 DEF Activations, Inactive
  <2>2. CASE result # "ready"
    <3>1. ended = [Inactive EXCEPT !.state = "failed"] \/ ended = Inactive
      BY ONLY <2>2
    <3> HIDE DEF ended
    <3>2. CASE ended = Inactive
      BY ONLY <1>2, <3>2 DEF Activations, Inactive
    <3>3. CASE ended = [Inactive EXCEPT !.state = "failed"]
      BY ONLY <1>2, <3>3 DEF Activations, Inactive
    <3> QED BY ONLY <3>1, <3>2, <3>3
  <2> QED BY ONLY <2>1, <2>2
<1>4. activations' = [activations EXCEPT ![m] = ended]
  OBVIOUS
<1> HIDE DEF ended
<1>5. Settles(m, id, ended)
  <2>1. result = "ready" => loaded[m]
    OBVIOUS
  <2>2. activations[m].job = id /\ activations[m].state = "activating"
    OBVIOUS
  <2> QED BY ONLY <1>3, <2>1, <2>2 DEF Settles
<1> QED BY <1>3, <1>4, <1>5, SettledStep

\* A deactivation's result lands: the module no longer has a job.
LEMMA QuitStep ==
    ASSUME LanesInv, NEW id, id # 0, id \in LiveIds(table), NEW m \in Modules, NEW t,
           ServedTo(id, t), activations[m].job = id,
           table.entries[id].kind = "deactivate",
           table' = t, lastId' = lastId,
           activations' = [activations EXCEPT ![m] = [activations[m] EXCEPT !.job = 0]]
    PROVE  LanesInv' /\ Continues(table, table')
<1> DEFINE a == activations[m]
           quit == [a EXCEPT !.job = 0]
<1>1. /\ a \in Activations(lastId) /\ lastId \in Nat
      /\ ModuleFits(table, a, loaded[m], m)
      /\ a.state = "activating" => table.entries[a.job].kind = "activate"
      /\ a.job # 0 /\ a.job \in LiveIds(table)
  BY ModuleIs
<1>2. a.job = id /\ table.entries[a.job].kind = "deactivate"
  OBVIOUS
<1>3. activations' = [activations EXCEPT ![m] = quit]
  OBVIOUS
<1>4. Settles(m, id, quit) =
         (/\ a.job = id /\ quit.job = 0
          /\ \/ quit.state \in {"inactive", "failed"}
             \/ /\ quit.state = "active" /\ ~quit.pending /\ loaded[m]
                /\ a.state = "activating")
  BY ONLY DEF Settles
<1> HIDE DEF a
<1>5. a.state # "activating" /\ a.state # "active"
  BY ONLY <1>1, <1>2 DEF ModuleFits
<1>6. 0 \in 0 .. lastId
  BY ONLY <1>1
<1>7. quit \in Activations(lastId) /\ quit.job = 0 /\ quit.state = a.state
  BY ONLY <1>1, <1>6 DEF Activations
<1>8. a.state \in {"inactive", "failed"}
  BY ONLY <1>1, <1>5 DEF Activations
<1> HIDE DEF quit
<1>9. Settles(m, id, quit)
  BY ONLY <1>2, <1>4, <1>7, <1>8
<1> QED BY <1>3, <1>7, <1>9, SettledStep

LEMMA ServeResultStep ==
    ASSUME LanesAssumption, LanesInv, ServeResult
    PROVE  LanesInv' /\ Continues(table, table')
<1> DEFINE id == inbox.id
           job == table.entries[id]
           m == job.module
           result == TaskResult(job, inbox.result)
           t == Completed(table, id, result)
<1>1. IF job.kind = "activate" /\ activations[m].job = id
        THEN IF result = "ready" /\ activations[m].pending
               THEN ReleaseLoaded(t, activations, m)
               ELSE /\ table' = t /\ lastId' = lastId
                    /\ activations' = [activations EXCEPT ![m] =
                          CASE result = "ready" -> [Inactive EXCEPT !.state = "active"]
                            [] result = "failed" /\ ~activations[m].pending ->
                                   [Inactive EXCEPT !.state = "failed"]
                            [] OTHER -> Inactive]
        ELSE /\ table' = t /\ lastId' = lastId
             /\ activations' = IF job.kind = "deactivate" /\ activations[m].job = id
                                 THEN [activations EXCEPT ![m] = [activations[m] EXCEPT !.job = 0]]
                                 ELSE activations
  BY DEF ServeResult, Activated, IsCurrent, Job
<1>2. /\ ServedTo(id, t) /\ job \in Jobs
      /\ result = "ready" /\ job.kind = "activate" => loaded[job.module]
  BY Served
<1> HIDE DEF id, result
<1>3. id \in LiveIds(table) /\ id # 0
  BY ONLY <1>2 DEF ServedTo
<1>4. m \in Modules /\ job.kind \in Kinds
  BY ONLY <1>2 DEF Jobs
<1> HIDE DEF t
<1>5. activations[m].job = id => activations[m].job # 0 /\ activations[m].job = id
  BY ONLY <1>3
<1>6. CASE job.kind = "activate" /\ activations[m].job = id
  <2>1. activations[m].state = "activating"
    <3>1. activations[m].job # 0 /\ table.entries[activations[m].job].kind # "deactivate"
      BY ONLY <1>3, <1>6
    <3>2. activations[m].job # 0 /\ activations[m].state # "activating" =>
             table.entries[activations[m].job].kind = "deactivate"
      BY ONLY LanesInv, <1>4, ModuleIs
    <3> QED BY ONLY <3>1, <3>2
  <2>2. CASE result = "ready" /\ activations[m].pending
    <3>1. ReleaseLoaded(t, activations, m) /\ activations[m].job = id
      BY ONLY <1>1, <1>6, <2>2
    <3> QED BY ONLY LanesInv, <1>2, <1>4, <2>1, <3>1, UndoneStep
  <2>3. CASE ~(result = "ready" /\ activations[m].pending)
    <3>1. /\ table' = t /\ lastId' = lastId
          /\ activations' = [activations EXCEPT ![m] =
                CASE result = "ready" -> [Inactive EXCEPT !.state = "active"]
                  [] result = "failed" /\ ~activations[m].pending ->
                         [Inactive EXCEPT !.state = "failed"]
                  [] OTHER -> Inactive]
      BY ONLY <1>1, <1>6, <2>3
    <3>2. (result = "ready" => loaded[m]) /\ activations[m].job = id
      BY ONLY <1>2, <1>6
    <3> HIDE DEF m
    <3> QED BY ONLY LanesInv, <1>2, <1>4, <2>1, <2>3, <3>1, <3>2, LandedStep
  <2> QED BY ONLY <2>2, <2>3
<1>7. CASE job.kind = "deactivate" /\ activations[m].job = id
  <2>1. /\ table' = t /\ lastId' = lastId
        /\ activations' = [activations EXCEPT ![m] = [activations[m] EXCEPT !.job = 0]]
    BY ONLY <1>1, <1>7
  <2>2. table.entries[id].kind = "deactivate" /\ activations[m].job = id
    BY ONLY <1>7
  <2> HIDE DEF m
  <2> QED BY ONLY LanesInv, <1>2, <1>3, <1>4, <2>1, <2>2, QuitStep
<1>8. CASE ~(job.kind \in {"activate", "deactivate"} /\ activations[m].job = id)
  <2>1. ASSUME NEW x \in Modules PROVE activations[x].job # id
    <3>1. activations[x].job = id => table.entries[id].module = x /\ table.entries[id].kind # "task"
      BY ONLY LanesInv, <1>3, x \in Modules, OwnJob
    <3>2. activations[x].job = id => m = x /\ job.kind # "task"
      BY ONLY <3>1
    <3> HIDE DEF m, job
    <3> QED BY ONLY <1>4, <1>8, <3>2 DEF Kinds
  <2>2. activations' = activations /\ table' = t /\ lastId' = lastId
    BY ONLY <1>1, <1>8
  <2> QED BY ONLY LanesInv, <1>2, <2>1, <2>2, UnsettledStep
<1> HIDE DEF job, m
<1> QED BY ONLY <1>6, <1>7, <1>8

-----------------------------------------------------------------------------
\* The lane's steps.

LEMMA LaneShape ==
    ASSUME LanesInv, UNCHANGED ownerSide,
           worker' \in [id : 0 .. lastId, phase : {"resting", "working", "activated",
                                                   "failed", "ended"}],
           inbox' \in [id : 0 .. lastId, result : Results],
           loaded' \in [Modules -> BOOLEAN],
           Located', Doing',
           \A x \in Modules : ModuleFits(table, activations[x], loaded'[x], x)
    PROVE  LanesInv' /\ Continues(table, table')
<1>1. /\ table' = table /\ lastId' = lastId /\ requests' = requests
      /\ activations' = activations /\ granted' = granted /\ closing' = closing
  BY DEF ownerSide
<1>2. LanesTyped'
  BY <1>1 DEF LanesInv, LanesTyped
<1>3. LanesCounted'
  <2>1. Releasable' = Releasable
    BY <1>1 DEF Releasable
  <2> QED BY <1>1, <2>1, KeptCounted
<1>4. ModulesFit'
  BY <1>1 DEF ModulesFit
<1>5. TableOk(table') /\ (~closing' => QueueOk(table')) /\ Stops(table', granted')
  BY <1>1 DEF LanesInv
<1>6. Continues(table, table')
  BY <1>1 DEF Continues
<1> QED BY <1>2, <1>3, <1>4, <1>5, <1>6 DEF LanesInv

\* What is known when the worker is at a job.
LEMMA AtWork ==
    ASSUME LanesInv, worker.phase \notin {"resting", "ended"}
    PROVE  LET id == worker.id
               job == table.entries[id]
           IN  /\ id # 0 /\ id = table.running /\ table.channel = 0 /\ inbox.id = 0
               /\ id \in LiveIds(table) /\ id \in 0 .. lastId /\ inbox = NoResult
               /\ job \in Jobs /\ job.module \in Modules
               /\ (\A k \in LiveIds(table) : k \in Nat /\ id <= k)
               /\ (worker.phase = "activated" =>
                      job.kind = "activate" /\ loaded[job.module])
               /\ (worker.phase = "failed" => job.kind = "activate")
<1>1. worker.id # 0 /\ Doing
  BY DEF LanesInv, Doing
<1>2. worker.id = table.running /\ table.channel = 0 /\ inbox.id = 0
  BY <1>1 DEF LanesInv, Located
<1>3. /\ worker.id \in LiveIds(table)
      /\ \A k \in LiveIds(table) : k \in Nat /\ worker.id <= k
  BY <1>1, <1>2, FirstRuns
<1>4. table.entries[worker.id] \in Jobs
  BY <1>3, OwnerFacts DEF Records, LiveIds
<1>5. table.entries[worker.id].module \in Modules
  BY <1>4 DEF Jobs
<1>6. worker.id \in 0 .. lastId
  BY DEF LanesInv, LanesTyped
<1> QED BY <1>1, <1>2, <1>3, <1>4, <1>5, <1>6 DEF Doing

LEMMA TakeJobStep ==
    ASSUME LanesInv, TakeJob
    PROVE  LanesInv' /\ Continues(table, table')
<1> DEFINE u == [table EXCEPT !.channel = 0]
           id == table.channel
<1>1. /\ table' = u /\ id # 0 /\ worker = Resting
      /\ lastId' = lastId /\ requests' = requests /\ activations' = activations
      /\ granted' = granted /\ closing' = closing /\ loaded' = loaded
      /\ \/ /\ table.entries[id].cancelled
            /\ inbox' = [id |-> id, result |-> "cancelled"] /\ worker' = Resting
         \/ inbox' = inbox /\ worker' = [id |-> id, phase |-> "working"]
  BY DEF TakeJob, Post, Job
<1>2. id = table.running /\ inbox.id = 0 /\ inbox = NoResult
  BY <1>1 DEF LanesInv, Located, Doing
<1>3. TableOk(table) /\ Stops(table, granted) /\ lastId \in Nat
  BY OwnerFacts
<1>4. /\ TableOk(u) /\ (QueueOk(table) => QueueOk(u)) /\ Continues(table, u)
      /\ u.entries = table.entries /\ u.running = table.running /\ u.channel = 0
  BY <1>3, TakenIs
<1> HIDE DEF u
<1>5. id \in 0 .. lastId
  <2>1. table.running # 0
    BY <1>1, <1>2
  <2>2. table.running \in 1 .. lastId
    BY <2>1, FirstRuns
  <2>3. table.running \in 0 .. lastId
    BY <2>2
  <2> QED BY <1>2, <2>3
<1> HIDE DEF id
<1>6. LanesTyped'
  <2>1. 0 \in 0 .. lastId
    BY <1>3
  <2>2. worker' \in [id : 0 .. lastId, phase : {"resting", "working", "activated",
                                                "failed", "ended"}]
    BY ONLY <1>1, <1>5, <2>1 DEF Resting
  <2>3. inbox \in [id : 0 .. lastId, result : Results]
    BY DEF LanesInv, LanesTyped
  <2>4. inbox' \in [id : 0 .. lastId, result : Results]
    BY ONLY <1>1, <1>5, <2>3 DEF Results
  <2>5. DOMAIN u.entries \subseteq 1 .. lastId
    BY <1>4 DEF LanesInv, LanesTyped
  <2> QED BY <1>1, <2>2, <2>4, <2>5 DEF LanesInv, LanesTyped
<1>7. LanesCounted'
  <2>1. Releasable' = Releasable
    BY <1>1 DEF Releasable
  <2> QED BY <1>1, <2>1, KeptCounted
<1>8. LiveIds(u) = LiveIds(table)
  BY <1>4 DEF LiveIds
<1>9. Located'
  <2>1. \/ worker'.id = 0 /\ inbox'.id = id
        \/ worker'.id = id /\ inbox'.id = 0
    BY <1>1, <1>2 DEF Resting
  <2> QED BY <1>1, <1>2, <1>4, <2>1 DEF Located
<1>10. Doing'
  <2>1. CASE /\ table.entries[id].cancelled
             /\ inbox' = [id |-> id, result |-> "cancelled"] /\ worker' = Resting
    <3>1. worker'.id = 0 /\ worker'.phase = "resting"
      BY <2>1 DEF Resting
    <3>2. inbox'.id = id /\ inbox'.result = "cancelled"
      BY <2>1
    <3> QED BY ONLY <1>1, <1>4, <2>1, <3>1, <3>2 DEF Doing
  <2>2. CASE inbox' = inbox /\ worker' = [id |-> id, phase |-> "working"]
    <3>1. worker'.id = id /\ worker'.phase = "working"
      BY <2>2
    <3> QED BY ONLY <1>1, <1>2, <2>2, <3>1 DEF Doing, NoResult
  <2> QED BY <1>1, <2>1, <2>2
<1>11. ModulesFit'
  <2> SUFFICES ASSUME NEW x \in Modules
               PROVE  ModuleFits(u, activations[x], loaded[x], x)
    BY <1>1 DEF ModulesFit
  <2>1. ModuleFits(table, activations[x], loaded[x], x)
    BY ModuleIs
  <2> QED BY <1>4, <1>8, <2>1, FitsKept
<1>12. Stops(u, granted)
  BY <1>3, <1>4, <1>8, StopsKept
<1> QED BY <1>1, <1>4, <1>6, <1>7, <1>9, <1>10, <1>11, <1>12 DEF LanesInv

LEMMA LoadModuleStep ==
    ASSUME LanesInv, LoadModule
    PROVE  LanesInv' /\ Continues(table, table')
<1> DEFINE id == worker.id
           m == table.entries[id].module
<1>1. PICK ok \in BOOLEAN :
         /\ loaded' = [loaded EXCEPT ![m] = TRUE]
         /\ worker' = [worker EXCEPT !.phase = IF ok THEN "activated" ELSE "failed"]
  BY DEF LoadModule, Job
<1>2. /\ UNCHANGED ownerSide /\ inbox' = inbox /\ worker.phase = "working"
      /\ table.entries[id].kind = "activate"
  BY DEF LoadModule, WorksOn, Job
<1>3. /\ id # 0 /\ id = table.running /\ table.channel = 0 /\ inbox.id = 0
      /\ id \in 0 .. lastId /\ m \in Modules /\ inbox = NoResult
  BY <1>2, AtWork
<1>4. /\ worker \in [id : 0 .. lastId, phase : {"resting", "working", "activated",
                                                "failed", "ended"}]
      /\ inbox \in [id : 0 .. lastId, result : Results]
      /\ loaded \in [Modules -> BOOLEAN]
  BY DEF LanesInv, LanesTyped
<1>5. /\ worker' \in [id : 0 .. lastId, phase : {"resting", "working", "activated",
                                                 "failed", "ended"}]
      /\ worker'.id = id /\ worker'.phase \in {"activated", "failed"}
  BY <1>1, <1>4
<1>6. loaded' \in [Modules -> BOOLEAN] /\ loaded'[m]
      /\ \A x \in Modules : loaded'[x] = IF x = m THEN TRUE ELSE loaded[x]
  BY <1>1, <1>3, <1>4
<1>7. table' = table
  BY <1>2 DEF ownerSide
<1>8. Located'
  BY <1>2, <1>3, <1>5, <1>7 DEF Located
<1>9. Doing'
  BY ONLY <1>2, <1>3, <1>5, <1>6, <1>7 DEF Doing, NoResult
<1>10. ASSUME NEW x \in Modules PROVE ModuleFits(table, activations[x], loaded'[x], x)
  <2>1. ModuleFits(table, activations[x], loaded[x], x)
    BY ModuleIs
  <2>2. ModuleFits(table, activations[x], TRUE, x)
    BY <2>1, FitsLoaded
  <2>3. CASE x = m
    BY <1>6, <2>2, <2>3
  <2>4. CASE x # m
    BY <1>6, <2>1, <2>4
  <2> QED BY <2>3, <2>4
<1> QED BY <1>2, <1>4, <1>5, <1>6, <1>8, <1>9, <1>10, LaneShape

\* A result is posted.
LEMMA PostStep ==
    ASSUME LanesInv, UNCHANGED ownerSide, worker.phase \notin {"resting", "ended"},
           NEW id, id = worker.id, NEW m, m = table.entries[id].module,
           NEW result \in Results, Post(id, result),
           result = "cancelled" => table.entries[id].cancelled,
           \/ /\ loaded' = loaded
              /\ result = "ready" /\ table.entries[id].kind = "activate" => loaded[m]
           \/ /\ loaded' = [loaded EXCEPT ![m] = FALSE]
              /\ table.entries[id].kind # "task"
              /\ ~(result = "ready" /\ table.entries[id].kind = "activate")
    PROVE  LanesInv' /\ Continues(table, table')
<1>1. inbox' = [id |-> id, result |-> result] /\ worker' = Resting /\ table' = table
  BY DEF Post, ownerSide
<1>2. /\ id # 0 /\ id = table.running /\ table.channel = 0
      /\ id \in LiveIds(table) /\ id \in 0 .. lastId /\ m \in Modules
      /\ (\A k \in LiveIds(table) : k \in Nat /\ id <= k)
  BY AtWork
<1>3. loaded \in [Modules -> BOOLEAN] /\ lastId \in Nat
  BY DEF LanesInv, LanesTyped
<1>4. inbox' \in [id : 0 .. lastId, result : Results] /\ inbox'.id = id
      /\ inbox'.result = result
  BY ONLY <1>1, <1>2, result \in Results
<1>5. /\ worker' \in [id : 0 .. lastId, phase : {"resting", "working", "activated",
                                                 "failed", "ended"}]
      /\ worker'.id = 0 /\ worker'.phase = "resting"
  <2>1. 0 \in 0 .. lastId
    BY <1>3
  <2> QED BY ONLY <1>1, <2>1 DEF Resting
<1>6. Located'
  BY ONLY <1>1, <1>2, <1>4, <1>5, table' = table DEF Located
<1>7. loaded' \in [Modules -> BOOLEAN]
  BY <1>3
<1>8. result = "ready" /\ table.entries[id].kind = "activate" => loaded'[m]
  OBVIOUS
<1>9. Doing'
  <2>1. result = "cancelled" => table.entries[id].cancelled
    OBVIOUS
  <2>2. m = table.entries[id].module
    OBVIOUS
  <2> QED BY ONLY <1>1, <1>2, <1>4, <1>5, <1>8, <2>1, <2>2 DEF Doing
<1>10. ASSUME NEW x \in Modules PROVE ModuleFits(table, activations[x], loaded'[x], x)
  <2>1. ModuleFits(table, activations[x], loaded[x], x)
    BY ModuleIs
  <2>2. CASE loaded' = loaded \/ x # m
    <3>1. loaded' = loaded \/ loaded' = [loaded EXCEPT ![m] = FALSE]
      OBVIOUS
    <3>2. loaded'[x] = loaded[x]
      BY ONLY <1>3, <2>2, <3>1, x \in Modules
    <3> QED BY ONLY <2>1, <3>2
  <2>3. CASE loaded' = [loaded EXCEPT ![m] = FALSE] /\ x = m
                 /\ table.entries[id].kind # "task"
    <3>1. id \in Movers(table, x) /\ id \in Nat
      BY <1>2, <2>3 DEF Movers
    <3>2. ModuleFits(table, activations[x], FALSE, x)
      BY <1>2, <2>1, <3>1, FitsUnloaded
    <3> QED BY <1>2, <1>3, <2>3, <3>2
  <2> QED BY <2>2, <2>3
<1> QED BY <1>4, <1>5, <1>6, <1>7, <1>9, <1>10, LaneShape

LEMMA ActivationSucceedsStep ==
    ASSUME LanesInv, ActivationSucceeds
    PROVE  LanesInv' /\ Continues(table, table')
<1>1. /\ worker.phase = "activated" /\ Post(worker.id, "ready")
      /\ UNCHANGED ownerSide /\ loaded' = loaded
  BY DEF ActivationSucceeds
<1>2. loaded[table.entries[worker.id].module]
  BY <1>1, AtWork
<1>3. "ready" \in Results
  BY DEF Results
<1> QED BY <1>1, <1>2, <1>3, PostStep

LEMMA ActivationFailsStep ==
    ASSUME LanesInv, ActivationFails
    PROVE  LanesInv' /\ Continues(table, table')
<1>1. /\ worker.phase \in {"activated", "failed"} /\ UNCHANGED ownerSide
      /\ loaded' = [loaded EXCEPT ![table.entries[worker.id].module] = FALSE]
  BY DEF ActivationFails, Unload, Job
<1>2. PICK result \in {"failed", "cancelled"} :
         /\ result = "cancelled" => table.entries[worker.id].cancelled
         /\ Post(worker.id, result)
  BY DEF ActivationFails, Job
<1>3. table.entries[worker.id].kind = "activate"
  BY <1>1, AtWork
<1>4. result \in Results
  BY DEF Results
<1> QED BY <1>1, <1>2, <1>3, <1>4, PostStep

LEMMA ReleaseModuleStep ==
    ASSUME LanesInv, ReleaseModule
    PROVE  LanesInv' /\ Continues(table, table')
<1>1. /\ worker.phase = "working" /\ table.entries[worker.id].kind = "deactivate"
      /\ UNCHANGED ownerSide /\ Post(worker.id, "ready")
      /\ loaded' = [loaded EXCEPT ![table.entries[worker.id].module] = FALSE]
  BY DEF ReleaseModule, WorksOn, Unload, Job
<1>2. "ready" \in Results
  BY DEF Results
<1> QED BY <1>1, <1>2, PostStep

LEMMA RunTaskStep ==
    ASSUME LanesInv, RunTask
    PROVE  LanesInv' /\ Continues(table, table')
<1>1. /\ worker.phase = "working" /\ table.entries[worker.id].kind = "task"
      /\ UNCHANGED ownerSide /\ loaded' = loaded
  BY DEF RunTask, WorksOn, Job
<1>2. PICK result \in Results :
         /\ result = "cancelled" => table.entries[worker.id].cancelled
         /\ Post(worker.id, result)
  BY DEF RunTask, Job
<1> QED BY <1>1, <1>2, PostStep

LEMMA EndedStep ==
    ASSUME LanesInv, Ended
    PROVE  LanesInv' /\ Continues(table, table')
<1>1. /\ closing /\ worker = Resting /\ worker' = [Resting EXCEPT !.phase = "ended"]
      /\ UNCHANGED ownerSide /\ inbox' = inbox /\ loaded' = loaded
  BY DEF Ended
<1>2. /\ lastId \in Nat /\ inbox \in [id : 0 .. lastId, result : Results]
      /\ loaded \in [Modules -> BOOLEAN] /\ 0 \in 0 .. lastId
  BY DEF LanesInv, LanesTyped
<1>3. worker.id = 0 /\ worker' = [id |-> 0, phase |-> "ended"]
  BY <1>1 DEF Resting
<1>4. /\ worker' \in [id : 0 .. lastId, phase : {"resting", "working", "activated",
                                                 "failed", "ended"}]
      /\ worker'.id = 0 /\ worker'.phase = "ended"
  BY ONLY <1>2, <1>3
<1>5. table' = table /\ closing' = closing
  BY <1>1 DEF ownerSide
<1>6. Located'
  BY <1>1, <1>3, <1>4, <1>5 DEF LanesInv, Located
<1>7. Doing'
  <2>1. Doing
    BY DEF LanesInv
  <2> QED BY ONLY <1>1, <1>4, <1>5, <2>1 DEF Doing, NoResult
<1>8. \A x \in Modules : ModuleFits(table, activations[x], loaded'[x], x)
  BY <1>1, ModuleIs
<1> QED BY <1>1, <1>2, <1>4, <1>6, <1>7, <1>8, LaneShape

-----------------------------------------------------------------------------
\* The lane as a whole.

LEMMA LanesStart ==
    ASSUME LanesAssumption, LanesInit
    PROVE  LanesInv
<1>1. /\ table = Table(<<>>, <<>>, <<>>, 0, 0)
      /\ table.entries = <<>> /\ table.finished = <<>> /\ table.waiting = <<>>
      /\ table.running = 0 /\ table.channel = 0
      /\ lastId = 0 /\ requests = 0 /\ closing = FALSE
      /\ activations = [m \in Modules |->
                          [state |-> "inactive", job |-> 0, pending |-> FALSE]]
      /\ granted = [g \in Grants |-> "never"] /\ loaded = [m \in Modules |-> FALSE]
      /\ worker = Resting /\ inbox = NoResult
  BY DEF LanesInit, EmptyTable, Table
<1>2. DOMAIN table.entries = {} /\ DOMAIN table.waiting = {} /\ DOMAIN table.finished = {}
  BY <1>1
<1>3. Records(table)
  <2>1. <<>> \in Seq(Nat) /\ 0 \in Nat
    OBVIOUS
  <2>2. table.entries \in [DOMAIN table.entries -> Jobs]
    <3>1. table.entries = [k \in {} |-> table.entries[k]]
      BY <1>1
    <3> QED BY <1>2, <3>1
  <2> QED BY <1>1, <1>2, <2>1, <2>2 DEF Records, Table
<1>4. (\A s : WithIn(table, s) = {}) /\ LiveIds(table) = {}
  BY <1>2 DEF WithIn, LiveIds
<1>5. TableOk(table) /\ QueueOk(table)
  BY <1>1, <1>2, <1>3, <1>4 DEF TableOk, Ring, RunsOne, QueueOk, InOrder, NotIdle,
                                IdsOf, Increasing
<1>6. LanesTyped
  <2>1. MaxRequests \in Nat /\ 0 \in 0 .. 0 /\ 0 \in 0 .. MaxRequests
    BY DEF LanesAssumption
  <2>2. activations \in [Modules -> Activations(0)]
    BY <1>1, <2>1 DEF Activations
  <2>3. /\ worker \in [id : 0 .. 0, phase : {"resting", "working", "activated",
                                             "failed", "ended"}]
        /\ inbox \in [id : 0 .. 0, result : Results]
    BY <1>1, <2>1 DEF Resting, NoResult, Results
  <2> QED BY <1>1, <1>2, <2>1, <2>2, <2>3 DEF LanesTyped
<1>7. LanesCounted
  <2>1. Releasable = {}
    BY <1>1 DEF Releasable
  <2> QED BY <1>1, <2>1, FS_EmptySet DEF LanesCounted
<1>8. Located /\ Doing
  BY <1>1 DEF Located, Doing, Resting, NoResult
<1>9. ModulesFit
  BY <1>1, <1>4 DEF ModulesFit, ModuleFits, Movers, Tasks
<1>10. Stops(table, granted)
  BY <1>4 DEF Stops
<1> QED BY <1>5, <1>6, <1>7, <1>8, <1>9, <1>10 DEF LanesInv

LEMMA LanesStays ==
    ASSUME LanesInv, UNCHANGED lanesVars
    PROVE  LanesInv' /\ Continues(table, table')
<1>1. UNCHANGED ownerSide /\ worker' = worker /\ inbox' = inbox /\ loaded' = loaded
  BY DEF lanesVars, laneSide
<1>2. table' = table /\ closing' = closing
  BY <1>1 DEF ownerSide
<1>3. Located' /\ Doing'
  BY <1>1, <1>2 DEF LanesInv, Located, Doing
<1>4. /\ worker \in [id : 0 .. lastId, phase : {"resting", "working", "activated",
                                                "failed", "ended"}]
      /\ inbox \in [id : 0 .. lastId, result : Results]
      /\ loaded \in [Modules -> BOOLEAN]
  BY DEF LanesInv, LanesTyped
<1>5. \A x \in Modules : ModuleFits(table, activations[x], loaded'[x], x)
  BY <1>1, ModuleIs
<1> QED BY <1>1, <1>3, <1>4, <1>5, LaneShape

LEMMA LanesStep ==
    ASSUME LanesAssumption, LanesInv, [LanesNext]_lanesVars
    PROVE  LanesInv' /\ Continues(table, table')
<1>1. ASSUME NEW m \in Modules, Activate(m) \/ Deactivate(m)
      PROVE  LanesInv' /\ Continues(table, table')
  BY <1>1, ActivateStep, DeactivateStep
<1>2. ASSUME NEW g \in Grants, GiveGrant(g) \/ RevokeGrant(g)
      PROVE  LanesInv' /\ Continues(table, table')
  BY <1>2, GiveGrantStep, RevokeGrantStep
<1>3. ASSUME NEW m \in Modules, NEW g \in Grants, Task(m, g)
      PROVE  LanesInv' /\ Continues(table, table')
  BY <1>3, TaskStep
<1>4. ASSUME NEW id \in JobIds, CancelJob(id)
      PROVE  LanesInv' /\ Continues(table, table')
  BY <1>4, CancelJobStep
<1>5. CASE ServeResult
  BY <1>5, ServeResultStep
<1>6. CASE Close
  BY <1>6, CloseStep
<1>7. CASE LaneStep
  <2>1. CASE TakeJob
    BY <2>1, TakeJobStep
  <2>2. CASE LoadModule
    BY <2>2, LoadModuleStep
  <2>3. CASE ActivationSucceeds
    BY <2>3, ActivationSucceedsStep
  <2>4. CASE ActivationFails
    BY <2>4, ActivationFailsStep
  <2>5. CASE ReleaseModule
    BY <2>5, ReleaseModuleStep
  <2>6. CASE RunTask
    BY <2>6, RunTaskStep
  <2>7. CASE Ended
    BY <2>7, EndedStep
  <2> QED BY <1>7, <2>1, <2>2, <2>3, <2>4, <2>5, <2>6, <2>7 DEF LaneStep
<1>8. CASE UNCHANGED lanesVars
  BY <1>8, LanesStays
<1>9. Closed => UNCHANGED lanesVars
  BY DEF Closed
<1> QED BY <1>1, <1>2, <1>3, <1>4, <1>5, <1>6, <1>7, <1>8, <1>9 DEF LanesNext

\* What the invariant says of the lane, of the modules and of the tasks.
LEMMA LanesInvTypes ==
    ASSUME LanesAssumption, LanesInv
    PROVE  LanesTypeOK
<1>1. /\ lastId \in Nat /\ requests \in 0 .. MaxRequests /\ MaxRequests \in Nat
      /\ IsFiniteSet(Releasable) /\ lastId + Cardinality(Releasable) <= 2 * requests
  BY DEF LanesInv, LanesTyped, LanesCounted, LanesAssumption
<1>2. Cardinality(Releasable) \in Nat
  BY <1>1, FS_CardinalityType
<1>3. lastId \in 0 .. 2 * MaxRequests
  BY ONLY <1>1, <1>2
<1>4. DOMAIN table.entries \subseteq JobIds
  <2>1. DOMAIN table.entries \subseteq 1 .. lastId
    BY DEF LanesInv, LanesTyped
  <2>2. 1 .. lastId \subseteq 1 .. 2 * MaxRequests
    BY ONLY <1>1, <1>3
  <2> QED BY <2>1, <2>2 DEF JobIds
<1>5. \A id \in DOMAIN table.entries :
         /\ Job(id) \in Jobs
         /\ Job(id).status = "superseded" => Job(id).kind = "activate"
  BY DEF LanesInv, TableOk, Records, Job
<1> QED BY <1>1, <1>3, <1>4, <1>5 DEF LanesTypeOK, LanesInv, LanesTyped, Activations

LEMMA LanesInvSound ==
    ASSUME LanesInv
    PROVE  LaneSound
<1> SUFFICES ASSUME ~closing
             PROVE  /\ {table.waiting[n] : n \in DOMAIN table.waiting} =
                          {id \in DOMAIN table.entries : Job(id).status = "queued"}
                    /\ \A n, k \in DOMAIN table.waiting :
                          table.waiting[n] = table.waiting[k] => n = k
                    /\ {table.running} \ {0} =
                          {id \in DOMAIN table.entries : Job(id).status = "running"}
                    /\ {table.channel, worker.id, inbox.id} \ {0} = {table.running} \ {0}
                    /\ table.waiting # <<>> => table.running # 0
                    /\ {table.finished[n] : n \in DOMAIN table.finished} =
                          DOMAIN table.entries \ LiveIds(table)
  BY DEF LaneSound
<1>1. Records(table) /\ Ring(table) /\ RunsOne(table) /\ InOrder(table) /\ NotIdle(table)
  BY DEF LanesInv, TableOk, QueueOk
<1>2. {table.waiting[n] : n \in DOMAIN table.waiting} =
         {id \in DOMAIN table.entries : Job(id).status = "queued"}
  BY <1>1 DEF InOrder, IdsOf, WithIn, Job
<1>3. \A n, k \in DOMAIN table.waiting : table.waiting[n] = table.waiting[k] => n = k
  BY <1>1, IncreasingOnce DEF InOrder, Records
<1>4. {table.running} \ {0} = {id \in DOMAIN table.entries : Job(id).status = "running"}
  BY <1>1 DEF RunsOne, WithIn, Job
<1>5. {table.channel, worker.id, inbox.id} \ {0} = {table.running} \ {0}
  BY DEF LanesInv, Located
<1>6. table.waiting # <<>> => table.running # 0
  BY <1>1 DEF NotIdle
<1>7. {table.finished[n] : n \in DOMAIN table.finished} =
         DOMAIN table.entries \ LiveIds(table)
  <2>1. IdsOf(table.finished) = WithIn(table, Over)
    BY <1>1 DEF Ring
  <2>2. /\ DOMAIN table.entries = LiveIds(table) \union WithIn(table, Over)
        /\ LiveIds(table) \intersect WithIn(table, Over) = {}
    BY <1>1, Statuses
  <2> QED BY <2>1, <2>2 DEF IdsOf
<1> QED BY <1>2, <1>3, <1>4, <1>5, <1>6, <1>7

LEMMA LanesInvLoads ==
    ASSUME LanesInv
    PROVE  ActiveIsLoaded /\ TaskFindsLoaded
<1>1. ActiveIsLoaded
  <2> SUFFICES ASSUME NEW m \in Modules, activations[m].state = "active"
               PROVE  /\ loaded[m]
                      /\ \A id \in LiveIds(table) :
                            Job(id).module = m => Job(id).kind = "task"
    BY DEF ActiveIsLoaded
  <2>1. loaded[m] /\ Movers(table, m) = {}
    BY ModuleIs DEF ModuleFits
  <2> QED BY <2>1 DEF Movers, Job
<1>2. TaskFindsLoaded
  <2> SUFFICES ASSUME worker.phase = "working", table.entries[worker.id].kind = "task"
               PROVE  loaded[table.entries[worker.id].module]
    BY DEF TaskFindsLoaded, WorksOn, Job
  <2> DEFINE m == table.entries[worker.id].module
  <2>1. worker.id \in LiveIds(table) /\ m \in Modules
    BY AtWork
  <2>2. worker.id \in Tasks(table, m)
    BY <2>1 DEF Tasks
  <2> QED BY <2>1, <2>2, ModuleIs DEF ModuleFits
<1> QED BY <1>1, <1>2

LEMMA LanesInvReleases ==
    ASSUME LanesInv
    PROVE  OneRelease
<1> SUFFICES ASSUME NEW m \in Modules
             PROVE  Cardinality({id \in LiveIds(table) :
                        Job(id).kind = "deactivate" /\ Job(id).module = m}) <= 1
  BY DEF OneRelease
<1> DEFINE S == {id \in LiveIds(table) : Job(id).kind = "deactivate" /\ Job(id).module = m}
<1>1. \A id, k \in S : id = k
  <2>1. \A id \in S : id \in Movers(table, m) /\ table.entries[id].kind = "deactivate"
    BY DEF Movers, Job
  <2> QED BY <2>1, ModuleIs DEF ModuleFits
<1>2. S = {} \/ \E x : S = {x}
  BY <1>1
<1> HIDE DEF S
<1>3. Cardinality(S) <= 1
  BY <1>2, FS_EmptySet, FS_Singleton
<1> QED BY <1>3 DEF S

LEMMA LanesInvStops ==
    ASSUME LanesInv
    PROVE  RevokedStops
BY DEF LanesInv, Stops, RevokedStops, Job

LEMMA EndsStep ==
    ASSUME LanesInv', Continues(table, table')
    PROVE  \A id \in DOMAIN table.entries \intersect DOMAIN table'.entries :
              /\ Job(id).status \in Over =>
                    table'.entries[id].status = Job(id).status
              /\ table'.entries[id].status = "cancelled" =>
                    table'.entries[id].cancelled
BY DEF LanesInv, TableOk, Records, Continues, Job

\* What waits in the lane, what its thread works on and the records of
\* jobs agree for any number of modules, grants and requests; an active
\* module is loaded, a task finds its module loaded, a module has one
\* release at a time, no task goes on under a revoked grant untold, and a
\* job ends once (capabilities/jobs.rs, host/activation.rs).
THEOREM LanesCorrect ==
    ASSUME LanesAssumption
    PROVE  LanesSpec => LanesHold
<1>1. LanesInit => LanesInv
  BY LanesStart
<1>2. LanesInv /\ [LanesNext]_lanesVars => LanesInv' /\ Continues(table, table')
  BY LanesStep
<1>3. LanesInv => LanesTypeOK /\ LaneSound /\ ActiveIsLoaded
  BY LanesInvTypes, LanesInvSound, LanesInvLoads
<1>4. LanesInv => TaskFindsLoaded /\ OneRelease /\ RevokedStops
  BY LanesInvLoads, LanesInvReleases, LanesInvStops
<1>5. LanesInv /\ [LanesNext]_lanesVars =>
         [\A id \in DOMAIN table.entries \intersect DOMAIN table'.entries :
             /\ Job(id).status \in Over =>
                   table'.entries[id].status = Job(id).status
             /\ table'.entries[id].status = "cancelled" =>
                   table'.entries[id].cancelled]_lanesVars
  BY <1>2, EndsStep
<1> QED BY <1>1, <1>2, <1>3, <1>4, <1>5, PTL DEF LanesSpec, LanesHold, EndsOnce
==============================================================================
