----------------------------- MODULE DesktopProofs ----------------------------
(***************************************************************************)
(* Theorems about a client's side, for every set of clients, assets,       *)
(* requests and stacks and every bound.                                    *)
(*                                                                         *)
(* Drafts: the sessions run over the history and never around it: each of  *)
(* their calls is a step of History or leaves it alone, so what            *)
(* HistoryProofs says of a catalog holds under any sessions.               *)
(*                                                                         *)
(* Gestures: at most one request or answer is on its way, of the gesture   *)
(* in the slot, and the draft in the slot fits what was offered for it.    *)
(*                                                                         *)
(* Sync: what is newer at the owner than on the screen is always still on  *)
(* its way, in a signal, a poll wanted or a read, unless a read was lost.  *)
(***************************************************************************)
EXTENDS Drafts, HistoryProofs, Gestures, Sync

\* A draft is overtaken exactly when its asset is past the revision it was
\* based on.
Based(c) ==
    Holds(c) =>
        LET mine == session[c].draft
        IN  /\ mine.base <= revision[mine.asset]
            /\ overtaken[c] <=> mine.base # revision[mine.asset]

\* Each edit of a draft was a change of the session.
EditsCounted(c) == Holds(c) => session[c].draft.edits <= session[c].revision

SameDraft(d, e) ==
    \/ d = e
    \/ /\ d \in Draft /\ e \in Draft
       /\ d.asset = e.asset /\ d.base = e.base /\ d.edits = e.edits

\* Two sessions that differ at most in whether the draft conflicts.
SameShown(s, t) == s.selection = t.selection /\ SameDraft(s.draft, t.draft)

\* What a client was answered with is no newer than its session, and is
\* the session when it is of the same revision.
ReportKept(c) ==
    /\ report[c].of.revision <= session[c].revision
    /\ report[c].of.revision = session[c].revision =>
          SameShown(report[c].of, session[c])

TruthTold(c) ==
    report[c].of.draft # NoDraft =>
        report[c].of.draft.conflicted = report[c].overtaken

Client(c) ==
    /\ session[c] \in Session /\ report[c] \in Report /\ overtaken[c] \in BOOLEAN
    /\ Based(c) /\ EditsCounted(c) /\ ReportKept(c) /\ TruthTold(c)

DInv ==
    /\ DraftsTypeOK
    /\ \A c \in Clients : Client(c)

-----------------------------------------------------------------------------
\* The history's part of a step.

\* Every call of a client is a step of the history or leaves it alone.
LEMMA CallIsHistory ==
    ASSUME NEW c \in Clients, session[c] \in Session, Call(c)
    PROVE  [Next]_vars
<1>1. ASSUME NEW a \in Assets, NEW m \in Messages, Edit(c, a, m)
      PROVE  [Next]_vars
  BY <1>1 DEF Edit, Next, Handle
<1>2. ASSUME NEW a \in Assets, NEW m \in Messages, RestoreEntry(c, a, m)
      PROVE  [Next]_vars
  BY <1>2 DEF RestoreEntry, Next, Handle
<1>3. ASSUME NEW a \in Assets, NEW e \in EntryIds, PreviewSelect(c, a, e)
      PROVE  [Next]_vars
  <2>1. ReadHead(a)
    BY <1>3 DEF PreviewSelect, ReadHead
  <2> QED BY <2>1 DEF Next
<1>4. ASSUME NEW a \in Assets, DraftBegin(c, a)
      PROVE  [Next]_vars
  BY <1>4 DEF DraftBegin
<1>5. CASE ReturnCurrent(c) \/ ViewSet(c) \/ SessionState(c)
  BY <1>5 DEF ReturnCurrent, ViewSet, SessionState
<1>6. CASE DraftSet(c) \/ DraftKept(c) \/ DraftCancel(c) \/ DraftReapply(c)
  BY <1>6 DEF DraftSet, DraftKept, DraftCancel, DraftReapply
<1>7. ASSUME NEW m \in Messages, DraftCommit(c, m)
      PROVE  [Next]_vars
  <2>1. session[c].draft.asset \in Assets
    BY <1>7 DEF DraftCommit, Holds, Session, Draft
  <2> QED BY <1>7, <2>1 DEF DraftCommit, Next, Handle
<1>8. CASE Disconnect(c)
  BY <1>8 DEF Disconnect
<1> QED BY <1>1, <1>2, <1>3, <1>4, <1>5, <1>6, <1>7, <1>8 DEF Call

LEMMA StepIsHistory ==
    ASSUME DraftsTypeOK, [DraftsNext]_allVars
    PROVE  [Next]_vars
<1>1. CASE UNCHANGED allVars
  BY <1>1 DEF allVars
<1>2. ASSUME NEW a \in Assets, Beside(a)
      PROVE  [Next]_vars
  BY <1>2 DEF Beside, Next
<1>3. ASSUME NEW c \in Clients, Call(c)
      PROVE  [Next]_vars
  BY <1>3, CallIsHistory DEF DraftsTypeOK
<1>4. CASE Restart
  BY <1>4 DEF Restart, Next
<1> QED BY <1>1, <1>2, <1>3, <1>4 DEF DraftsNext

\* An asset's revision counts the moves of its head.
LEMMA MovesRevise ==
    ASSUME IInv, [Next]_vars, NEW a \in Assets
    PROVE  \/ moves'[a] = moves[a] /\ revision'[a] = revision[a]
           \/ moves'[a] # moves[a] /\ revision'[a] = revision[a] + 1
<1>1. TypeOK
  BY DEF IInv
<1>2. CASE StaysPut
  BY <1>2 DEF StaysPut
<1>3. ASSUME NEW b \in Assets, Import(b)
      PROVE  moves'[a] = moves[a] /\ revision'[a] = revision[a]
  BY <1>3 DEF Import
<1>4. ASSUME NEW b \in Assets, NEW m \in Messages, Navigates(b, m) \/ Appends(b, m)
      PROVE  \/ moves'[a] = moves[a] /\ revision'[a] = revision[a]
             \/ moves'[a] # moves[a] /\ revision'[a] = revision[a] + 1
  <2>1. PICK to \in EntryIds, undone \in Seq(EntryIds),
             outcome \in {"applied", "navigated"} :
             HeadMoved(b, m, outcome, to, undone)
    BY <1>4, MovesHeadShape DEF MovesHead
  <2>2. MovesHead(b, m) /\ IInv
    BY <1>4, MovesHeadShape
  <2>3. RecordsMoved(b, m, outcome, to)
    BY <2>1, <2>2, MovedRecords
  <2>4. CASE a = b
    <3>1. Len(moves'[a]) = Len(moves[a]) + 1 /\ revision'[a] = revision[a] + 1
      BY <2>3, <2>4 DEF RecordsMoved
    <3>2. Len(moves[a]) \in Nat
      BY <1>1 DEF TypeOK
    <3> QED BY <3>1, <3>2
  <2>5. CASE a # b
    BY <2>3, <2>5 DEF RecordsMoved
  <2> QED BY <2>4, <2>5
<1> QED BY <1>2, <1>3, <1>4, StepShapes

-----------------------------------------------------------------------------
\* What the operators on a session return.

AnySession == [selection : Selection, draft : Draft \union {NoDraft}, revision : Nat]

LEMMA TouchedFields ==
    ASSUME NEW s \in AnySession
    PROVE  /\ Touched(s) \in AnySession
           /\ Touched(s).selection = s.selection
           /\ Touched(s).draft = s.draft
           /\ Touched(s).revision = s.revision + 1
  BY DEF Touched, AnySession

LEMMA SelectionSet ==
    ASSUME NEW s \in AnySession, NEW x \in Selection
    PROVE  /\ [s EXCEPT !.selection = x] \in AnySession
           /\ [s EXCEPT !.selection = x].selection = x
           /\ [s EXCEPT !.selection = x].draft = s.draft
           /\ [s EXCEPT !.selection = x].revision = s.revision
  BY DEF AnySession

LEMMA DraftPut ==
    ASSUME NEW s \in AnySession, NEW d \in Draft \union {NoDraft}
    PROVE  /\ [s EXCEPT !.draft = d] \in AnySession
           /\ [s EXCEPT !.draft = d].selection = s.selection
           /\ [s EXCEPT !.draft = d].draft = d
           /\ [s EXCEPT !.draft = d].revision = s.revision
  BY DEF AnySession

LEMMA ConflictSet ==
    ASSUME NEW d \in Draft, NEW k \in BOOLEAN
    PROVE  /\ [d EXCEPT !.conflicted = k] \in Draft
           /\ [d EXCEPT !.conflicted = k].asset = d.asset
           /\ [d EXCEPT !.conflicted = k].base = d.base
           /\ [d EXCEPT !.conflicted = k].edits = d.edits
           /\ [d EXCEPT !.conflicted = k].conflicted = k
  BY DEF Draft

\* A session refreshed is the session, its conflict what the rows say.
LEMMA RefreshedFields ==
    ASSUME IInv, NEW s \in AnySession
    PROVE  /\ Refreshed(s) \in AnySession
           /\ Refreshed(s).revision = s.revision
           /\ SameShown(Refreshed(s), s)
           /\ s.draft = NoDraft => Refreshed(s).draft = NoDraft
           /\ s.draft # NoDraft =>
                /\ Refreshed(s).draft \in Draft
                /\ Refreshed(s).draft.asset = s.draft.asset
                /\ Refreshed(s).draft.base = s.draft.base
                /\ Refreshed(s).draft.edits = s.draft.edits
                /\ Refreshed(s).draft.conflicted =
                     (s.draft.base # revision[s.draft.asset])
<1>1. CASE s.draft = NoDraft
  BY <1>1 DEF Refreshed, SameShown, SameDraft
<1>2. CASE s.draft # NoDraft
  <2> DEFINE k == s.draft.base # HeadOf(s.draft.asset).revision
             d == [s.draft EXCEPT !.conflicted = k]
  <2>1. s.draft \in Draft
    BY <1>2 DEF AnySession
  <2>2. s.draft.asset \in Assets
    BY <2>1 DEF Draft
  <2>3. HeadOf(s.draft.asset).revision = revision[s.draft.asset]
    BY <2>2, HeadIsStored, StoredFacts DEF IInv
  <2>4. k \in BOOLEAN
    OBVIOUS
  <2>5. /\ d \in Draft /\ d.asset = s.draft.asset /\ d.base = s.draft.base
        /\ d.edits = s.draft.edits /\ d.conflicted = k
    <3> HIDE DEF k
    <3> QED BY <2>1, <2>4, ConflictSet
  <2>6. Refreshed(s) = [s EXCEPT !.draft = d]
    BY <1>2 DEF Refreshed
  <2> HIDE DEF d
  <2>7. /\ Refreshed(s) \in AnySession
        /\ Refreshed(s).selection = s.selection
        /\ Refreshed(s).draft = d
        /\ Refreshed(s).revision = s.revision
    BY <2>5, <2>6, DraftPut
  <2>8. SameShown(Refreshed(s), s)
    BY <2>1, <2>5, <2>7 DEF SameShown, SameDraft
  <2>9. k = (s.draft.base # revision[s.draft.asset])
    BY <2>3
  <2> HIDE DEF k
  <2> QED BY <1>2, <2>5, <2>7, <2>8, <2>9
<1> QED BY <1>1, <1>2

-----------------------------------------------------------------------------
\* What a step does to one client.

\* The step moved the head of the asset of c's draft.
DraftMoved(c) ==
    moves'[session[c].draft.asset] # moves[session[c].draft.asset]

\* What a step leaves of what an invariant says of one client, and what
\* the action properties ask of the step.
StaysTrue(c) ==
    /\ Client(c)'
    /\ Committed(c) => ~overtaken[c]
    /\ /\ report[c] # NoReport /\ report'[c] # NoReport
       /\ report'[c].of.revision = report[c].of.revision
       => SameShown(report'[c].of, report[c].of)

LEMMA SessionAny ==
    ASSUME DraftsAssumption, NEW s \in Session
    PROVE  s \in AnySession /\ s.revision \in 0 .. MaxTouches
  BY DEF Session, AnySession, DraftsAssumption

LEMMA AnyIsSession ==
    ASSUME NEW s \in AnySession, s.revision \in 0 .. MaxTouches
    PROVE  s \in Session
  BY DEF Session, AnySession

LEMMA ShownIsOrder ==
    ASSUME NEW s, NEW t, NEW u
    PROVE  /\ SameShown(s, s)
           /\ SameShown(s, t) => SameShown(t, s)
           /\ SameShown(s, t) /\ SameShown(t, u) => SameShown(s, u)
  BY DEF SameShown, SameDraft

\* The session stays, or shows another entry under the next revision, and
\* a move of its draft's asset overtakes the draft.
Bystands(c) ==
    /\ \/ session'[c] = session[c]
       \/ /\ session'[c] \in Session
          /\ session'[c].draft = session[c].draft
          /\ session'[c].revision = session[c].revision + 1
    /\ report'[c] = report[c]
    /\ overtaken'[c] \in BOOLEAN
    /\ overtaken'[c] <=> overtaken[c] \/ (Holds(c) /\ DraftMoved(c))

LEMMA BystandsStep ==
    ASSUME DraftsAssumption, IInv, [Next]_vars, NEW c \in Clients, Client(c),
           Bystands(c)
    PROVE  StaysTrue(c)
<1>1. /\ session'[c] \in Session /\ report'[c] \in Report
      /\ overtaken'[c] \in BOOLEAN
  BY DEF Bystands, Client
<1>2. /\ session'[c].draft = session[c].draft
      /\ session[c].revision \in Nat /\ session'[c].revision \in Nat
      /\ report[c].of.revision \in Nat
      /\ session'[c].revision = session[c].revision \/
           session'[c].revision = session[c].revision + 1
  BY <1>1, SessionAny DEF Bystands, Client, Report
<1>3. Based(c)'
  <2> SUFFICES ASSUME Holds(c)
               PROVE  /\ session[c].draft.base <= revision'[session[c].draft.asset]
                      /\ overtaken'[c] <=>
                           session[c].draft.base # revision'[session[c].draft.asset]
    BY <1>2 DEF Based, Holds
  <2> DEFINE b == session[c].draft.asset
             base == session[c].draft.base
  <2>1. b \in Assets /\ base \in Nat
    BY HistoryAssumption DEF Client, Session, Draft, Holds, Revisions
  <2>2. revision[b] \in Nat
    BY <2>1, HistoryAssumption DEF IInv, TypeOK, Revisions
  <2>3. base <= revision[b] /\ (overtaken[c] <=> base # revision[b])
    BY DEF Client, Based
  <2>4. \/ moves'[b] = moves[b] /\ revision'[b] = revision[b]
        \/ moves'[b] # moves[b] /\ revision'[b] = revision[b] + 1
    BY <2>1, MovesRevise
  <2>5. overtaken'[c] <=> overtaken[c] \/ moves'[b] # moves[b]
    BY DEF Bystands, DraftMoved
  <2> HIDE DEF b, base
  <2>6. CASE moves'[b] = moves[b] /\ revision'[b] = revision[b]
    BY <2>3, <2>5, <2>6 DEF b, base
  <2>7. CASE moves'[b] # moves[b] /\ revision'[b] = revision[b] + 1
    <3>1. base <= revision'[b] /\ base # revision'[b]
      BY <2>1, <2>2, <2>3, <2>7
    <3> QED BY <2>5, <2>7, <3>1 DEF b, base
  <2> QED BY <2>4, <2>6, <2>7
<1>4. EditsCounted(c)'
  <2> SUFFICES ASSUME Holds(c)
               PROVE  session[c].draft.edits <= session'[c].revision
    BY <1>2 DEF EditsCounted, Holds
  <2>1. session[c].draft.edits \in Int
    BY DEF Client, Session, Draft, Holds
  <2>2. session[c].draft.edits <= session[c].revision
    BY DEF Client, EditsCounted
  <2> QED BY <1>2, <2>1, <2>2
<1>5. ReportKept(c)'
  <2>1. CASE session'[c] = session[c]
    BY <2>1 DEF Bystands, Client, ReportKept
  <2>2. CASE session'[c].revision = session[c].revision + 1
    <3>1. report[c].of.revision <= session[c].revision
      BY DEF Client, ReportKept
    <3>2. report'[c].of.revision < session'[c].revision
      BY <1>2, <2>2, <3>1 DEF Bystands
    <3> QED BY <1>2, <3>2 DEF ReportKept, Bystands
  <2> QED BY <2>1, <2>2 DEF Bystands
<1>6. TruthTold(c)'
  BY DEF Client, TruthTold, Bystands
<1>7. ~Committed(c)
  BY <1>2 DEF Committed, Holds
<1> QED BY <1>1, <1>3, <1>4, <1>5, <1>6, <1>7, ShownIsOrder
       DEF StaysTrue, Client, Bystands

\* A session answered with: the same one or, under the next revision, one
\* that may show another entry.
Answers(c) ==
    \E s \in Session :
        /\ s.draft = session[c].draft
        /\ s = session[c] \/ s.revision = session[c].revision + 1
        /\ session'[c] = Refreshed(s)
        /\ report'[c] = [of |-> Refreshed(s), overtaken |-> overtaken[c]]
        /\ overtaken'[c] = overtaken[c]
        /\ \A a \in Assets : moves'[a] = moves[a] /\ revision'[a] = revision[a]

LEMMA RefreshedSession ==
    ASSUME DraftsAssumption, IInv, NEW s \in Session
    PROVE  /\ Refreshed(s) \in Session
           /\ Refreshed(s).revision = s.revision
           /\ SameShown(Refreshed(s), s)
           /\ s.draft = NoDraft => Refreshed(s).draft = NoDraft
           /\ s.draft # NoDraft =>
                /\ Refreshed(s).draft \in Draft
                /\ Refreshed(s).draft.asset = s.draft.asset
                /\ Refreshed(s).draft.base = s.draft.base
                /\ Refreshed(s).draft.edits = s.draft.edits
                /\ Refreshed(s).draft.conflicted =
                     (s.draft.base # revision[s.draft.asset])
<1>1. s \in AnySession /\ s.revision \in 0 .. MaxTouches
  BY SessionAny
<1>2. Refreshed(s) \in AnySession /\ Refreshed(s).revision = s.revision
  BY <1>1, RefreshedFields
<1>3. Refreshed(s) \in Session
  BY <1>1, <1>2, AnyIsSession
<1> QED BY <1>1, <1>3, RefreshedFields

LEMMA AnswersStep ==
    ASSUME DraftsAssumption, IInv, NEW c \in Clients, Client(c), Answers(c)
    PROVE  StaysTrue(c)
<1>1. PICK s \in Session :
        /\ s.draft = session[c].draft
        /\ s = session[c] \/ s.revision = session[c].revision + 1
        /\ session'[c] = Refreshed(s)
        /\ report'[c] = [of |-> Refreshed(s), overtaken |-> overtaken[c]]
        /\ overtaken'[c] = overtaken[c]
        /\ \A a \in Assets : moves'[a] = moves[a] /\ revision'[a] = revision[a]
  BY DEF Answers
<1> DEFINE r == Refreshed(s)
<1>2. /\ r \in Session /\ r.revision = s.revision /\ SameShown(r, s)
      /\ s.draft = NoDraft => r.draft = NoDraft
      /\ s.draft # NoDraft =>
           /\ r.draft \in Draft /\ r.draft.asset = s.draft.asset
           /\ r.draft.base = s.draft.base /\ r.draft.edits = s.draft.edits
           /\ r.draft.conflicted = (s.draft.base # revision[s.draft.asset])
  BY RefreshedSession
<1>3. session'[c] = r /\ report'[c].of = r /\ report'[c].overtaken = overtaken[c]
  BY <1>1
<1>4. report'[c] \in Report
  BY <1>1, <1>2 DEF Report, Client
<1> HIDE DEF r
<1>5. s.draft # NoDraft => s.draft \in Draft /\ s.draft.asset \in Assets
  BY DEF Session, Draft
<1>6. s.draft # NoDraft =>
        /\ s.draft.base <= revision[s.draft.asset]
        /\ overtaken[c] <=> s.draft.base # revision[s.draft.asset]
  BY <1>1 DEF Client, Based, Holds
<1>7. Based(c)'
  <2> SUFFICES ASSUME r.draft # NoDraft
               PROVE  /\ r.draft.base <= revision'[r.draft.asset]
                      /\ overtaken'[c] <=> r.draft.base # revision'[r.draft.asset]
    BY <1>3 DEF Based, Holds
  <2>1. s.draft # NoDraft
    BY <1>2
  <2> QED BY <1>1, <1>2, <1>5, <1>6, <2>1
<1>8. EditsCounted(c)'
  <2> SUFFICES ASSUME r.draft # NoDraft
               PROVE  r.draft.edits <= r.revision
    BY <1>3 DEF EditsCounted, Holds
  <2>1. s.draft # NoDraft /\ r.draft.edits = s.draft.edits /\ r.revision = s.revision
    BY <1>2
  <2>2. s.draft.edits <= session[c].revision
    BY <1>1, <2>1 DEF Client, EditsCounted, Holds
  <2>3. s.draft.edits \in Nat /\ session[c].revision \in Nat
    BY <1>5, <2>1, SessionAny DEF Draft, Client, AnySession
  <2> QED BY <1>1, <2>1, <2>2, <2>3
<1>9. ReportKept(c)'
  <2>1. r.revision <= r.revision
    BY <1>2 DEF Session
  <2> QED BY <1>3, <2>1, ShownIsOrder DEF ReportKept
<1>10. TruthTold(c)'
  <2> SUFFICES ASSUME r.draft # NoDraft
               PROVE  r.draft.conflicted = overtaken[c]
    BY <1>3 DEF TruthTold
  <2>1. s.draft # NoDraft
    BY <1>2
  <2>2. overtaken[c] \in BOOLEAN
    BY DEF Client
  <2>3. r.draft.conflicted = (s.draft.base # revision[s.draft.asset])
    BY <1>2, <2>1
  <2>4. overtaken[c] <=> s.draft.base # revision[s.draft.asset]
    BY <1>6, <2>1
  <2> QED BY <2>2, <2>3, <2>4
<1>11. ~Committed(c)
  <2> SUFFICES ASSUME Holds(c), session'[c].draft = NoDraft
               PROVE  ~DraftMoved(c)
    BY DEF Committed, DraftMoved
  <2>1. session[c].draft.asset \in Assets
    BY <1>1, <1>5 DEF Holds
  <2> QED BY <1>1, <2>1 DEF DraftMoved
<1>12. ASSUME report'[c].of.revision = report[c].of.revision
       PROVE  SameShown(report'[c].of, report[c].of)
  <2>1. s.revision = report[c].of.revision
    BY <1>2, <1>3, <1>12
  <2>2. report[c].of.revision <= session[c].revision
    BY DEF Client, ReportKept
  <2>3. session[c].revision \in Nat /\ s.revision \in Nat
    BY SessionAny DEF Client, AnySession
  <2>4. s = session[c]
    BY <1>1, <2>1, <2>2, <2>3
  <2>5. SameShown(report[c].of, s)
    BY <2>1, <2>4 DEF Client, ReportKept
  <2> QED BY <1>2, <1>3, <2>5, ShownIsOrder
<1> QED BY <1>1, <1>2, <1>3, <1>4, <1>7, <1>8, <1>9, <1>10, <1>11, <1>12
       DEF StaysTrue, Client

\* The draft begins, changes, is looked at again or ends.
Redrafts(c) ==
    /\ session'[c] \in Session /\ overtaken'[c] \in BOOLEAN
    /\ report'[c] = report[c]
    /\ \/ session'[c].revision = session[c].revision + 1
       \/ /\ session'[c].revision = session[c].revision
          /\ SameShown(session'[c], session[c])
    /\ Based(c)' /\ EditsCounted(c)'
    /\ Committed(c) => ~overtaken[c]

LEMMA RedraftsStep ==
    ASSUME DraftsAssumption, NEW c \in Clients, Client(c), Redrafts(c)
    PROVE  StaysTrue(c)
<1>1. report[c].of.revision <= session[c].revision
  BY DEF Client, ReportKept
<1>2. /\ report[c].of.revision \in Nat /\ session[c].revision \in Nat
      /\ session'[c].revision \in Nat
  BY SessionAny DEF Client, Report, Redrafts, AnySession
<1>3. ReportKept(c)'
  <2>1. CASE session'[c].revision = session[c].revision + 1
    <3>1. report'[c].of.revision < session'[c].revision
      BY <1>1, <1>2, <2>1 DEF Redrafts
    <3> QED BY <1>2, <3>1 DEF ReportKept, Redrafts
  <2>2. CASE /\ session'[c].revision = session[c].revision
             /\ SameShown(session'[c], session[c])
    BY <2>2, ShownIsOrder DEF Client, ReportKept, Redrafts
  <2> QED BY <2>1, <2>2 DEF Redrafts
<1>4. TruthTold(c)'
  BY DEF Client, TruthTold, Redrafts
<1> QED BY <1>3, <1>4, ShownIsOrder DEF StaysTrue, Client, Redrafts

\* A session that ends with its client or with the process.
Resets(c) ==
    /\ session'[c] = NewSession /\ report'[c] = NoReport /\ overtaken'[c] = FALSE
    /\ moves' = moves

LEMMA NewSessionIs ==
    ASSUME DraftsAssumption
    PROVE  /\ NewSession \in Session /\ NewSession.draft = NoDraft
           /\ NewSession.revision = 0
           /\ NoReport \in Report /\ NoReport.of = NewSession
<1>1. NewSession \in Session
  BY DEF NewSession, Session, Selection, DraftsAssumption
<1>2. NoReport \in Report
  BY <1>1 DEF NoReport, Report
<1> QED BY <1>1, <1>2 DEF NewSession, NoReport

LEMMA FreshClient ==
    ASSUME DraftsAssumption, NEW c \in Clients,
           session[c] = NewSession, report[c] = NoReport, overtaken[c] = FALSE
    PROVE  Client(c)
<1>1. /\ session[c] \in Session /\ report[c] \in Report /\ overtaken[c] \in BOOLEAN
      /\ session[c].draft = NoDraft /\ session[c].revision = 0
      /\ report[c].of = NewSession
  BY NewSessionIs
<1>2. Based(c) /\ EditsCounted(c)
  BY <1>1 DEF Based, EditsCounted, Holds
<1>3. ReportKept(c)
  BY <1>1, ShownIsOrder DEF ReportKept
<1>4. TruthTold(c)
  BY <1>1, NewSessionIs DEF TruthTold
<1> QED BY <1>1, <1>2, <1>3, <1>4 DEF Client

LEMMA ResetsStep ==
    ASSUME DraftsAssumption, NEW c \in Clients, Client(c), Resets(c)
    PROVE  StaysTrue(c)
<1>1. /\ session'[c] \in Session /\ report'[c] \in Report /\ overtaken'[c] \in BOOLEAN
      /\ session'[c].draft = NoDraft /\ session'[c].revision = 0
      /\ report'[c].of = NewSession /\ session'[c] = NewSession
  BY NewSessionIs DEF Resets
<1>2. Based(c)' /\ EditsCounted(c)'
  BY <1>1 DEF Based, EditsCounted, Holds
<1>3. ReportKept(c)'
  BY <1>1, ShownIsOrder DEF ReportKept
<1>4. TruthTold(c)'
  BY <1>1, NewSessionIs DEF TruthTold
<1>5. ~Committed(c)
  BY DEF Committed, Resets
<1> QED BY <1>1, <1>2, <1>3, <1>4, <1>5 DEF StaysTrue, Client, Resets

-----------------------------------------------------------------------------
\* The calls, one by one.

\* What Overtake records is what the step did to each draft's asset.
LEMMA OvertakeIs ==
    ASSUME IInv, NEW a \in Assets, NEW m \in Messages, NEW ended,
           Handle(a, m) \/ UNCHANGED vars, Overtake(a, ended),
           NEW c \in Clients, Client(c), c \notin ended
    PROVE  /\ overtaken'[c] \in BOOLEAN
           /\ overtaken'[c] <=> overtaken[c] \/ (Holds(c) /\ DraftMoved(c))
<1>1. overtaken'[c] = (overtaken[c] \/
         (Holds(c) /\ session[c].draft.asset = a /\ moves'[a] # moves[a]))
  BY DEF Overtake, Client
<1>2. \A b \in Assets : b # a => moves'[b] = moves[b]
  <2>1. CASE UNCHANGED vars
    BY <2>1 DEF vars
  <2>2. CASE StaysPut
    BY <2>2 DEF StaysPut
  <2>3. CASE Navigates(a, m) \/ Appends(a, m)
    <3>1. MovesHead(a, m)
      BY <2>3, MovesHeadShape
    <3>2. PICK to \in EntryIds, undone \in Seq(EntryIds),
               outcome \in {"applied", "navigated"} :
               HeadMoved(a, m, outcome, to, undone)
      BY <3>1 DEF MovesHead
    <3>3. RecordsMoved(a, m, outcome, to)
      BY <3>1, <3>2, MovedRecords
    <3> QED BY <3>3 DEF RecordsMoved
  <2> QED BY <2>1, <2>2, <2>3, HandleShapes
<1>3. Holds(c) => session[c].draft.asset \in Assets
  BY DEF Client, Holds, Session, Draft
<1>4. (Holds(c) /\ session[c].draft.asset = a /\ moves'[a] # moves[a])
         <=> (Holds(c) /\ DraftMoved(c))
  BY <1>2, <1>3 DEF DraftMoved
<1>5. (overtaken[c] \/
         (Holds(c) /\ session[c].draft.asset = a /\ moves'[a] # moves[a])) \in BOOLEAN
  OBVIOUS
<1>6. overtaken'[c] \in BOOLEAN
  BY <1>1, <1>5
<1>7. overtaken'[c] <=> (overtaken[c] \/
         (Holds(c) /\ session[c].draft.asset = a /\ moves'[a] # moves[a]))
  BY <1>1
<1> QED BY <1>4, <1>6, <1>7

LEMMA EditSteps ==
    ASSUME DraftsAssumption, IInv, DInv, NEW c \in Clients, NEW a \in Assets,
           NEW m \in Messages, Edit(c, a, m), NEW d \in Clients
    PROVE  StaysTrue(d)
<1>1. Handle(a, m) /\ Overtake(a, {}) /\ session' = session /\ report' = report
  BY DEF Edit, Handle
<1>2. Client(d)
  BY DEF DInv
<1>3. Bystands(d)
  BY <1>1, <1>2, OvertakeIs DEF Bystands
<1>4. [Next]_vars
  BY <1>1 DEF Next
<1> QED BY <1>2, <1>3, <1>4, BystandsStep

\* A client no call of which is served.
LEMMA IdleSteps ==
    ASSUME DraftsAssumption, IInv, DInv, [Next]_vars, NEW d \in Clients,
           session'[d] = session[d], report'[d] = report[d],
           overtaken'[d] = overtaken[d],
           \A a \in Assets : moves'[a] = moves[a]
    PROVE  StaysTrue(d)
<1>1. Client(d)
  BY DEF DInv
<1>2. Holds(d) => session[d].draft.asset \in Assets
  BY <1>1 DEF Client, Holds, Session, Draft
<1>3. ~(Holds(d) /\ DraftMoved(d))
  BY <1>2 DEF DraftMoved
<1>4. overtaken'[d] \in BOOLEAN
  BY <1>1 DEF Client
<1>5. Bystands(d)
  BY <1>3, <1>4 DEF Bystands
<1> QED BY <1>1, <1>5, BystandsStep

LEMMA RestoreSteps ==
    ASSUME DraftsAssumption, IInv, DInv, NEW c \in Clients, NEW a \in Assets,
           NEW m \in Messages, RestoreEntry(c, a, m), NEW d \in Clients
    PROVE  StaysTrue(d)
<1>1. /\ Handle(a, m) \/ UNCHANGED vars
      /\ Overtake(a, {}) /\ BackToLive(c) /\ report' = report
  BY DEF RestoreEntry, Handle
<1>2. Client(d) /\ DraftsTypeOK
  BY DEF DInv
<1>3. \/ session'[d] = session[d]
      \/ /\ session'[d] \in Session
         /\ session'[d].draft = session[d].draft
         /\ session'[d].revision = session[d].revision + 1
  <2>1. CASE session' = session
    BY <2>1
  <2>2. CASE /\ Touchable(c)
             /\ Holding(c, Touched([session[c] EXCEPT !.selection = Live]))
    <3> DEFINE s == [session[c] EXCEPT !.selection = Live]
    <3>1. session[c] \in AnySession /\ session[c].revision \in 0 .. MaxTouches
      BY <1>2, SessionAny DEF DraftsTypeOK
    <3>2. /\ s \in AnySession /\ s.draft = session[c].draft
          /\ s.revision = session[c].revision
      BY <3>1, SelectionSet DEF Selection
    <3> HIDE DEF s
    <3>3. /\ Touched(s) \in AnySession /\ Touched(s).draft = session[c].draft
          /\ Touched(s).revision = session[c].revision + 1
      BY <3>2, TouchedFields
    <3>4. Touched(s) \in Session
      <4>1. session[c].revision + 1 \in 0 .. MaxTouches
        BY <2>2, <3>1 DEF Touchable, DraftsAssumption
      <4> QED BY <3>3, <4>1, AnyIsSession
    <3>5. session' = [session EXCEPT ![c] = Touched(s)]
      BY <2>2 DEF Holding, s
    <3>6. session'[c] = Touched(s) /\ \A e \in Clients : e # c => session'[e] = session[e]
      BY <1>2, <3>5 DEF DraftsTypeOK
    <3> QED BY <3>3, <3>4, <3>6
  <2> QED BY <1>1, <2>1, <2>2 DEF BackToLive
<1>4. Bystands(d)
  BY <1>1, <1>2, <1>3, OvertakeIs DEF Bystands
<1>5. [Next]_vars
  BY <1>1 DEF Next
<1> QED BY <1>2, <1>4, <1>5, BystandsStep

\* A call answered with the session, whose selection it may change.
LEMMA AnsweredSteps ==
    ASSUME DraftsAssumption, IInv, DInv, [Next]_vars, NEW c \in Clients,
           NEW s \in Session, s.draft = session[c].draft,
           s = session[c] \/ s.revision = session[c].revision + 1,
           Answered(c, s), overtaken' = overtaken,
           \A a \in Assets : moves'[a] = moves[a], NEW d \in Clients
    PROVE  StaysTrue(d)
<1>1. DraftsTypeOK /\ Client(c)
  BY DEF DInv
<1>2. \A a \in Assets : revision'[a] = revision[a]
  BY MovesRevise
<1>3. CASE d = c
  <2>1. /\ session'[c] = Refreshed(s)
        /\ report'[c] = [of |-> Refreshed(s), overtaken |-> overtaken[c]]
    BY <1>1 DEF Answered, Holding, DraftsTypeOK
  <2>2. Answers(c)
    BY <1>2, <2>1 DEF Answers
  <2> QED BY <1>1, <1>3, <2>2, AnswersStep
<1>4. CASE d # c
  <2>1. session'[d] = session[d] /\ report'[d] = report[d]
    BY <1>1, <1>4 DEF Answered, Holding, DraftsTypeOK
  <2> QED BY <2>1, IdleSteps
<1> QED BY <1>3, <1>4

LEMMA TouchedSession ==
    ASSUME DraftsAssumption, NEW s \in Session, s.revision < MaxTouches,
           NEW x \in Selection
    PROVE  LET t == Touched([s EXCEPT !.selection = x])
           IN  /\ t \in Session /\ t.draft = s.draft
               /\ t.revision = s.revision + 1
               /\ Touched(s) \in Session /\ Touched(s).draft = s.draft
               /\ Touched(s).revision = s.revision + 1
<1> DEFINE u == [s EXCEPT !.selection = x]
<1>1. s \in AnySession /\ s.revision \in 0 .. MaxTouches
  BY SessionAny
<1>2. u \in AnySession /\ u.draft = s.draft /\ u.revision = s.revision
  BY <1>1, SelectionSet
<1> HIDE DEF u
<1>3. /\ Touched(u) \in AnySession /\ Touched(u).draft = s.draft
      /\ Touched(u).revision = s.revision + 1
  BY <1>2, TouchedFields
<1>4. /\ Touched(s) \in AnySession /\ Touched(s).draft = s.draft
      /\ Touched(s).revision = s.revision + 1
  BY <1>1, TouchedFields
<1>5. s.revision + 1 \in 0 .. MaxTouches
  BY <1>1 DEF DraftsAssumption
<1>6. Touched(u) \in Session
  BY <1>3, <1>5, AnyIsSession
<1>7. Touched(s) \in Session
  BY <1>4, <1>5, AnyIsSession
<1> QED BY <1>3, <1>4, <1>6, <1>7 DEF u

LEMMA ShowingSteps ==
    ASSUME DraftsAssumption, IInv, DInv, [Next]_vars, NEW c \in Clients,
           \/ \E a \in Assets, e \in EntryIds : PreviewSelect(c, a, e)
           \/ ReturnCurrent(c) \/ ViewSet(c) \/ SessionState(c),
           NEW d \in Clients
    PROVE  StaysTrue(d)
<1>1. session[c] \in Session
  BY DEF DInv, DraftsTypeOK
<1>2. Live \in Selection
  BY DEF Selection
<1>3. ASSUME NEW a \in Assets, NEW e \in EntryIds, PreviewSelect(c, a, e)
      PROVE  StaysTrue(d)
  <2> DEFINE x == IF e = HeadOf(a).current THEN Live ELSE [asset |-> a, entry |-> e]
             t == Touched([session[c] EXCEPT !.selection = x])
  <2>1. x \in Selection
    BY DEF Selection
  <2>2. Answered(c, t) /\ Touchable(c) /\ overtaken' = overtaken /\ moves' = moves
    BY <1>3 DEF PreviewSelect
  <2> HIDE DEF x
  <2>3. /\ t \in Session /\ t.draft = session[c].draft
        /\ t.revision = session[c].revision + 1
    BY <1>1, <2>1, <2>2, TouchedSession DEF Touchable
  <2> HIDE DEF t
  <2> QED BY <2>2, <2>3, AnsweredSteps
<1>4. CASE ReturnCurrent(c)
  <2> DEFINE t == Touched([session[c] EXCEPT !.selection = Live])
  <2>1. Answered(c, t) /\ Touchable(c) /\ overtaken' = overtaken /\ moves' = moves
    BY <1>4 DEF ReturnCurrent, vars
  <2>2. /\ t \in Session /\ t.draft = session[c].draft
        /\ t.revision = session[c].revision + 1
    BY <1>1, <1>2, <2>1, TouchedSession DEF Touchable
  <2> HIDE DEF t
  <2> QED BY <2>1, <2>2, AnsweredSteps
<1>5. CASE ViewSet(c)
  <2> DEFINE t == Touched(session[c])
  <2>1. Answered(c, t) /\ Touchable(c) /\ overtaken' = overtaken /\ moves' = moves
    BY <1>5 DEF ViewSet, vars
  <2>2. /\ t \in Session /\ t.draft = session[c].draft
        /\ t.revision = session[c].revision + 1
    BY <1>1, <1>2, <2>1, TouchedSession DEF Touchable
  <2> HIDE DEF t
  <2> QED BY <2>1, <2>2, AnsweredSteps
<1>6. CASE SessionState(c)
  <2>1. Answered(c, session[c]) /\ overtaken' = overtaken /\ moves' = moves
    BY <1>6 DEF SessionState, vars
  <2> QED BY <1>1, <2>1, AnsweredSteps
<1> QED BY <1>3, <1>4, <1>5, <1>6

\* The others, when a call changes only c's session.
LEMMA OthersIdle ==
    ASSUME DraftsAssumption, IInv, DInv, NEW c \in Clients, NEW t,
           Holding(c, t), UNCHANGED <<vars, report>>,
           \A e \in Clients : e # c => overtaken'[e] = overtaken[e],
           NEW d \in Clients, d # c
    PROVE  StaysTrue(d)
<1>1. session'[d] = session[d] /\ report'[d] = report[d] /\ overtaken'[d] = overtaken[d]
  BY DEF Holding, DInv, DraftsTypeOK
<1>2. \A a \in Assets : moves'[a] = moves[a]
  BY DEF vars
<1> QED BY <1>1, <1>2, IdleSteps

\* A session whose draft is put in and which is touched.
LEMMA DraftTouched ==
    ASSUME DraftsAssumption, NEW s \in Session, s.revision < MaxTouches,
           NEW e \in Draft \union {NoDraft}
    PROVE  LET t == Touched([s EXCEPT !.draft = e])
           IN  /\ t \in Session /\ t.draft = e
               /\ t.revision = s.revision + 1
<1> DEFINE u == [s EXCEPT !.draft = e]
<1>1. s \in AnySession /\ s.revision \in 0 .. MaxTouches
  BY SessionAny
<1>2. u \in AnySession /\ u.draft = e /\ u.revision = s.revision
  BY <1>1, DraftPut
<1> HIDE DEF u
<1>3. /\ Touched(u) \in AnySession /\ Touched(u).draft = e
      /\ Touched(u).revision = s.revision + 1
  BY <1>2, TouchedFields
<1>4. s.revision + 1 \in 0 .. MaxTouches
  BY <1>1 DEF DraftsAssumption
<1>5. Touched(u) \in Session
  BY <1>3, <1>4, AnyIsSession
<1> QED BY <1>3, <1>5 DEF u

\* A draft put in place of c's, the rows untouched.
LEMMA DraftPlaced ==
    ASSUME DraftsAssumption, IInv, DInv, NEW c \in Clients,
           Touchable(c), NEW e \in Draft \union {NoDraft},
           Holding(c, Touched([session[c] EXCEPT !.draft = e])),
           UNCHANGED <<vars, report>>,
           overtaken' = [overtaken EXCEPT ![c] = FALSE],
           e # NoDraft => e.base = revision[e.asset] /\ e.edits <= session[c].revision,
           NEW d \in Clients
    PROVE  StaysTrue(d)
<1> DEFINE t == Touched([session[c] EXCEPT !.draft = e])
<1>1. DraftsTypeOK /\ Client(c) /\ session[c] \in Session
  BY DEF DInv, DraftsTypeOK
<1>2. /\ t \in Session /\ t.draft = e /\ t.revision = session[c].revision + 1
  BY <1>1, DraftTouched DEF Touchable
<1> HIDE DEF t
<1>3. session'[c] = t /\ overtaken'[c] = FALSE /\ report'[c] = report[c]
  BY <1>1 DEF Holding, t, DraftsTypeOK
<1>4. CASE d = c
  <2>1. Based(c)'
    <3> SUFFICES ASSUME e # NoDraft
                 PROVE  e.base <= revision'[e.asset] /\ e.base = revision'[e.asset]
      BY <1>2, <1>3 DEF Based, Holds
    <3>1. e.base \in Nat
      BY HistoryAssumption DEF Draft, Revisions
    <3> QED BY <3>1 DEF vars, catalog
  <2>2. EditsCounted(c)'
    <3> SUFFICES ASSUME e # NoDraft PROVE e.edits <= t.revision
      BY <1>2, <1>3 DEF EditsCounted, Holds
    <3>1. e.edits \in Nat /\ session[c].revision \in Nat
      BY <1>1, SessionAny DEF Draft, AnySession
    <3> QED BY <1>2, <3>1
  <2>3. ~Committed(c)
    BY DEF Committed, vars
  <2>4. Redrafts(c)
    BY <1>2, <1>3, <2>1, <2>2, <2>3 DEF Redrafts
  <2> QED BY <1>1, <1>4, <2>4, RedraftsStep
<1>5. CASE d # c
  <2>1. \A f \in Clients : f # c => overtaken'[f] = overtaken[f]
    BY <1>1 DEF DraftsTypeOK
  <2>2. Holding(c, t)
    BY DEF t
  <2> QED BY <1>5, <2>1, <2>2, OthersIdle
<1> QED BY <1>4, <1>5

LEMMA HeadRevision ==
    ASSUME IInv, NEW a \in Assets
    PROVE  HeadOf(a).revision = revision[a] /\ revision[a] \in Revisions
  BY HeadIsStored, StoredFacts DEF IInv, TypeOK

LEMMA DraftBeginSteps ==
    ASSUME DraftsAssumption, IInv, DInv, NEW c \in Clients, NEW a \in Assets,
           DraftBegin(c, a), NEW d \in Clients
    PROVE  StaysTrue(d)
<1> DEFINE e == [asset |-> a, base |-> HeadOf(a).revision, edits |-> 0,
                 conflicted |-> FALSE]
<1>1. e \in Draft
  BY HeadRevision DEF Draft, DraftsAssumption
<1>2. e.base = revision[e.asset] /\ e.edits = 0
  BY HeadRevision
<1>3. 0 <= session[c].revision
  BY DEF DInv, DraftsTypeOK, Session
<1>4. /\ Touchable(c) /\ Holding(c, Touched([session[c] EXCEPT !.draft = e]))
      /\ UNCHANGED <<vars, report>>
      /\ overtaken' = [overtaken EXCEPT ![c] = FALSE]
  BY DEF DraftBegin
<1> HIDE DEF e
<1>5. e.base = revision[e.asset] /\ e.edits <= session[c].revision
  BY <1>2, <1>3
<1> QED BY <1>1, <1>4, <1>5, DraftPlaced

LEMMA DraftCancelSteps ==
    ASSUME DraftsAssumption, IInv, DInv, NEW c \in Clients, DraftCancel(c),
           NEW d \in Clients
    PROVE  StaysTrue(d)
  BY DraftPlaced DEF DraftCancel

LEMMA HeldDraft ==
    ASSUME DInv, NEW c \in Clients, Holds(c)
    PROVE  /\ session[c] \in Session
           /\ session[c].draft \in Draft /\ session[c].draft.asset \in Assets
           /\ session[c].draft.edits <= session[c].revision
           /\ session[c].draft.base <= revision[session[c].draft.asset]
           /\ overtaken[c] <=>
                session[c].draft.base # revision[session[c].draft.asset]
<1>1. session[c] \in Session /\ Based(c) /\ EditsCounted(c)
  BY DEF DInv, Client
<1>2. session[c].draft \in Draft /\ session[c].draft.asset \in Assets
  BY <1>1 DEF Session, Draft, Holds
<1> QED BY <1>1, <1>2 DEF Based, EditsCounted

LEMMA DraftReapplySteps ==
    ASSUME DraftsAssumption, IInv, DInv, NEW c \in Clients, DraftReapply(c),
           NEW d \in Clients
    PROVE  StaysTrue(d)
<1> DEFINE old == session[c].draft
           rev == HeadOf(old.asset).revision
           new == Reapplied(old)
<1>1. old \in Draft /\ old.asset \in Assets /\ old.edits <= session[c].revision
  BY HeldDraft DEF DraftReapply
<1>2. rev = revision[old.asset] /\ rev \in Revisions
  BY <1>1, HeadRevision
<1>3. /\ new \in Draft /\ new.asset = old.asset /\ new.base = rev
      /\ new.edits = old.edits
  <2> HIDE DEF rev
  <2>1. new = [old EXCEPT !.base = rev, !.conflicted = FALSE]
    BY DEF Reapplied, rev
  <2> QED BY <1>1, <1>2, <2>1 DEF Draft
<1>4. session[c] \in Session
  BY DEF DInv, DraftsTypeOK
<1>5. /\ Touchable(c) /\ UNCHANGED <<vars, report>>
      /\ overtaken' = [overtaken EXCEPT ![c] = FALSE]
      /\ Holding(c, Touched([session[c] EXCEPT !.draft = new]))
  BY <1>4 DEF DraftReapply, Session
<1> HIDE DEF new
<1>6. new.base = revision[new.asset] /\ new.edits <= session[c].revision
  BY <1>1, <1>2, <1>3
<1> QED BY <1>3, <1>5, <1>6, DraftPlaced

\* A session looked at again, after the draft took an edit or as it was.
LEMMA DraftRefreshed ==
    ASSUME DraftsAssumption, IInv, DInv, NEW c \in Clients, Holds(c),
           NEW s \in Session,
           s.draft \in Draft, s.draft # NoDraft,
           s.draft.asset = session[c].draft.asset,
           s.draft.base = session[c].draft.base,
           s.draft.edits <= s.revision,
           s = session[c] \/ s.revision = session[c].revision + 1,
           Holding(c, Refreshed(s)), UNCHANGED <<vars, report, overtaken>>,
           NEW d \in Clients
    PROVE  StaysTrue(d)
<1> DEFINE r == Refreshed(s)
<1>1. DraftsTypeOK /\ Client(c)
  BY DEF DInv
<1>2. /\ r \in Session /\ r.revision = s.revision /\ SameShown(r, s)
      /\ r.draft \in Draft /\ r.draft.asset = s.draft.asset
      /\ r.draft.base = s.draft.base /\ r.draft.edits = s.draft.edits
  BY RefreshedSession
<1> HIDE DEF r
<1>3. session'[c] = r /\ report'[c] = report[c] /\ overtaken'[c] = overtaken[c]
  BY <1>1 DEF Holding, r, DraftsTypeOK
<1>4. CASE d = c
  <2>1. Based(c)'
    <3>1. /\ r.draft.base <= revision[r.draft.asset]
          /\ overtaken[c] <=> r.draft.base # revision[r.draft.asset]
      BY <1>2, HeldDraft
    <3>2. revision' = revision
      BY DEF vars, catalog
    <3> QED BY <1>3, <3>1, <3>2 DEF Based, Holds
  <2>2. EditsCounted(c)'
    BY <1>2, <1>3 DEF EditsCounted, Holds
  <2>3. ~Committed(c)
    BY DEF Committed, vars
  <2>4. overtaken'[c] \in BOOLEAN
    BY <1>1, <1>3 DEF Client
  <2>5. \/ session'[c].revision = session[c].revision + 1
        \/ /\ session'[c].revision = session[c].revision
           /\ SameShown(session'[c], session[c])
    BY <1>2, <1>3
  <2>6. Redrafts(c)
    BY <1>2, <1>3, <2>1, <2>2, <2>3, <2>4, <2>5 DEF Redrafts
  <2> QED BY <1>1, <1>4, <2>6, RedraftsStep
<1>5. CASE d # c
  <2>1. Holding(c, r)
    BY DEF r
  <2> QED BY <1>5, <2>1, OthersIdle
<1> QED BY <1>4, <1>5

LEMMA DraftSetSteps ==
    ASSUME DraftsAssumption, IInv, DInv, NEW c \in Clients, DraftSet(c),
           NEW d \in Clients
    PROVE  StaysTrue(d)
<1> DEFINE old == session[c].draft
           new == Merged(old)
           t == Touched([session[c] EXCEPT !.draft = new])
<1>1. /\ Holds(c) /\ Touchable(c) /\ session[c] \in Session
      /\ old \in Draft /\ old.asset \in Assets /\ old.edits <= session[c].revision
  BY HeldDraft DEF DraftSet
<1>2. old.edits + 1 \in 0 .. MaxTouches
  BY <1>1, SessionAny DEF Draft, Touchable, DraftsAssumption
<1>3. /\ new \in Draft /\ new.asset = old.asset /\ new.base = old.base
      /\ new.edits = old.edits + 1
  BY <1>1, <1>2 DEF Merged, Draft
<1>4. Holding(c, Refreshed(t)) /\ UNCHANGED <<vars, report, overtaken>>
  BY <1>1 DEF DraftSet, Session
<1> HIDE DEF new
<1>5. t \in Session /\ t.draft = new /\ t.revision = session[c].revision + 1
  BY <1>1, <1>3, DraftTouched DEF Touchable
<1> HIDE DEF t
<1>6. new # NoDraft
  BY <1>1, <1>3 DEF NoDraft, DraftsAssumption
<1>7. t.draft.edits <= t.revision
  <2>1. old.edits \in Nat /\ session[c].revision \in Nat
    BY <1>1, SessionAny DEF Draft, AnySession
  <2> QED BY <1>1, <1>3, <1>5, <2>1
<1> QED BY <1>1, <1>3, <1>4, <1>5, <1>6, <1>7, DraftRefreshed

LEMMA DraftKeptSteps ==
    ASSUME DraftsAssumption, IInv, DInv, NEW c \in Clients, DraftKept(c),
           NEW d \in Clients
    PROVE  StaysTrue(d)
<1>1. /\ Holds(c) /\ session[c] \in Session /\ session[c].draft \in Draft
      /\ session[c].draft.edits <= session[c].revision
  BY HeldDraft DEF DraftKept
<1> QED BY <1>1, DraftRefreshed DEF DraftKept, Holds

\* The draft that is committed is at its asset's revision, so nothing came
\* in between; the commit overtakes the drafts of the others.
LEMMA DraftCommitSteps ==
    ASSUME DraftsAssumption, IInv, DInv, NEW c \in Clients, NEW m \in Messages,
           DraftCommit(c, m), NEW d \in Clients
    PROVE  StaysTrue(d)
<1> DEFINE old == session[c].draft
           t == Touched([session[c] EXCEPT !.draft = NoDraft])
<1>1. /\ Holds(c) /\ Touchable(c) /\ session[c] \in Session
      /\ old \in Draft /\ old.asset \in Assets
      /\ overtaken[c] <=> old.base # revision[old.asset]
  BY HeldDraft DEF DraftCommit
<1>2. /\ Handle(old.asset, m) \/ UNCHANGED vars
      /\ Overtake(old.asset, {c}) /\ Holding(c, t) /\ report' = report
  BY DEF DraftCommit, Handle
<1>3. ~overtaken[c]
  <2>1. ~Refreshed(session[c]).draft.conflicted
    BY DEF DraftCommit, Unconflicted
  <2>2. Refreshed(session[c]).draft.conflicted = (old.base # revision[old.asset])
    BY <1>1, RefreshedSession DEF Holds
  <2> QED BY <1>1, <2>1, <2>2
<1>4. t \in Session /\ t.draft = NoDraft /\ t.revision = session[c].revision + 1
  BY <1>1, DraftTouched DEF Touchable
<1> HIDE DEF t
<1>5. DraftsTypeOK /\ Client(c) /\ Client(d)
  BY DEF DInv
<1>6. [Next]_vars
  BY <1>1, <1>2 DEF Next
<1>7. CASE d = c
  <2>1. session'[c] = t /\ report'[c] = report[c]
    BY <1>2, <1>5 DEF Holding, DraftsTypeOK
  <2>2. overtaken'[c] = FALSE
    BY <1>2 DEF Overtake
  <2>3. Based(c)' /\ EditsCounted(c)'
    BY <1>4, <2>1 DEF Based, EditsCounted, Holds
  <2>4. Redrafts(c)
    BY <1>3, <1>4, <2>1, <2>2, <2>3 DEF Redrafts
  <2> QED BY <1>5, <1>7, <2>4, RedraftsStep
<1>8. CASE d # c
  <2>1. session'[d] = session[d] /\ report'[d] = report[d]
    BY <1>2, <1>5, <1>8 DEF Holding, DraftsTypeOK
  <2>2. /\ overtaken'[d] \in BOOLEAN
        /\ overtaken'[d] <=> overtaken[d] \/ (Holds(d) /\ DraftMoved(d))
    <3>1. d \notin {c}
      BY <1>8
    <3> QED BY <1>1, <1>2, <1>5, <3>1, OvertakeIs
  <2>3. Bystands(d)
    BY <2>1, <2>2 DEF Bystands
  <2> QED BY <1>5, <1>6, <2>3, BystandsStep
<1> QED BY <1>7, <1>8

LEMMA DisconnectSteps ==
    ASSUME DraftsAssumption, IInv, DInv, NEW c \in Clients, Disconnect(c),
           NEW d \in Clients
    PROVE  StaysTrue(d)
<1>1. DraftsTypeOK /\ Client(c) /\ moves' = moves /\ [Next]_vars
  BY DEF DInv, Disconnect, vars
<1>2. CASE d = c
  <2>1. Resets(c)
    BY <1>1 DEF Resets, Disconnect, Holding, DraftsTypeOK
  <2> QED BY <1>1, <1>2, <2>1, ResetsStep
<1>3. CASE d # c
  <2>1. session'[d] = session[d] /\ report'[d] = report[d] /\ overtaken'[d] = overtaken[d]
    BY <1>1, <1>3 DEF Disconnect, Holding, DraftsTypeOK
  <2> QED BY <1>1, <2>1, IdleSteps
<1> QED BY <1>2, <1>3

LEMMA CallSteps ==
    ASSUME DraftsAssumption, IInv, DInv, NEW c \in Clients, Call(c),
           NEW d \in Clients
    PROVE  StaysTrue(d)
<1>1. [Next]_vars
  BY CallIsHistory DEF DInv, DraftsTypeOK
<1>2. ASSUME NEW a \in Assets, NEW m \in Messages, Edit(c, a, m) \/ RestoreEntry(c, a, m)
      PROVE  StaysTrue(d)
  BY <1>2, EditSteps, RestoreSteps
<1>3. CASE \/ \E a \in Assets, e \in EntryIds : PreviewSelect(c, a, e)
           \/ ReturnCurrent(c) \/ ViewSet(c) \/ SessionState(c)
  BY <1>1, <1>3, ShowingSteps
<1>4. ASSUME NEW a \in Assets, DraftBegin(c, a)
      PROVE  StaysTrue(d)
  BY <1>4, DraftBeginSteps
<1>5. CASE DraftSet(c) \/ DraftKept(c) \/ DraftCancel(c) \/ DraftReapply(c)
  BY <1>5, DraftSetSteps, DraftKeptSteps, DraftCancelSteps, DraftReapplySteps
<1>6. ASSUME NEW m \in Messages, DraftCommit(c, m)
      PROVE  StaysTrue(d)
  BY <1>6, DraftCommitSteps
<1>7. CASE Disconnect(c)
  BY <1>7, DisconnectSteps
<1> QED BY <1>2, <1>3, <1>4, <1>5, <1>6, <1>7 DEF Call

LEMMA StepSteps ==
    ASSUME DraftsAssumption, IInv, DInv, [DraftsNext]_allVars, NEW d \in Clients
    PROVE  StaysTrue(d)
<1>1. [Next]_vars
  BY StepIsHistory DEF DInv
<1>2. CASE UNCHANGED allVars
  BY <1>1, <1>2, IdleSteps DEF allVars, vars, sessionVars
<1>3. ASSUME NEW a \in Assets, Beside(a)
      PROVE  StaysTrue(d)
  <2>1. moves' = moves /\ UNCHANGED sessionVars
    BY <1>3 DEF Beside, Import, ReadHead
  <2> QED BY <1>1, <2>1, IdleSteps DEF sessionVars
<1>4. ASSUME NEW c \in Clients, Call(c)
      PROVE  StaysTrue(d)
  BY <1>4, CallSteps
<1>5. CASE Restart
  <2>1. Resets(d)
    BY <1>5 DEF Restart, Reopen, Resets
  <2> QED BY <2>1, ResetsStep DEF DInv
<1> QED BY <1>2, <1>3, <1>4, <1>5 DEF DraftsNext

-----------------------------------------------------------------------------
\* The invariant and what follows from it.

LEMMA DraftsTyped ==
    ASSUME DraftsAssumption, IInv, DInv, [DraftsNext]_allVars
    PROVE  DraftsTypeOK'
<1>1. \A d \in Clients : /\ session'[d] \in Session /\ report'[d] \in Report
                         /\ overtaken'[d] \in BOOLEAN
  BY StepSteps DEF StaysTrue, Client
<1> DEFINE Functions == /\ session' = [d \in Clients |-> session'[d]]
                        /\ report' = [d \in Clients |-> report'[d]]
                        /\ overtaken' = [d \in Clients |-> overtaken'[d]]
<1>2. DraftsTypeOK
  BY DEF DInv
<1>3. CASE UNCHANGED allVars
  BY <1>2, <1>3 DEF allVars, sessionVars, DraftsTypeOK
<1>4. ASSUME NEW a \in Assets, Beside(a)
      PROVE  DraftsTypeOK'
  BY <1>2, <1>4 DEF Beside, sessionVars, DraftsTypeOK
<1>5. ASSUME NEW c \in Clients, Call(c)
      PROVE  Functions
  <2>1. ASSUME NEW a \in Assets, NEW m \in Messages,
               Edit(c, a, m) \/ RestoreEntry(c, a, m)
        PROVE  Functions
    BY <1>2, <2>1 DEF Edit, RestoreEntry, BackToLive, Holding, Overtake, DraftsTypeOK
  <2>2. ASSUME \/ \E a \in Assets, e \in EntryIds : PreviewSelect(c, a, e)
               \/ ReturnCurrent(c) \/ ViewSet(c) \/ SessionState(c)
        PROVE  Functions
    <3>1. PICK s : Answered(c, s) /\ overtaken' = overtaken
      BY <2>2 DEF PreviewSelect, ReturnCurrent, ViewSet, SessionState
    <3> QED BY <1>2, <3>1 DEF Answered, Holding, DraftsTypeOK
  <2>3. ASSUME \/ \E a \in Assets : DraftBegin(c, a)
               \/ DraftCancel(c) \/ DraftReapply(c)
        PROVE  Functions
    <3>1. /\ \E s : Holding(c, s)
          /\ overtaken' = [overtaken EXCEPT ![c] = FALSE] /\ report' = report
      BY <2>3 DEF DraftBegin, DraftCancel, DraftReapply
    <3> QED BY <1>2, <3>1 DEF Holding, DraftsTypeOK
  <2>4. ASSUME DraftSet(c) \/ DraftKept(c)
        PROVE  Functions
    <3>1. (\E s : Holding(c, s)) /\ overtaken' = overtaken /\ report' = report
      BY <2>4 DEF DraftSet, DraftKept
    <3> QED BY <1>2, <3>1 DEF Holding, DraftsTypeOK
  <2>5. ASSUME NEW m \in Messages, DraftCommit(c, m)
        PROVE  Functions
    <3>1. (\E s : Holding(c, s)) /\ report' = report
      BY <2>5 DEF DraftCommit
    <3>2. Overtake(session[c].draft.asset, {c})
      BY <2>5 DEF DraftCommit
    <3> QED BY <1>2, <3>1, <3>2 DEF Holding, Overtake, DraftsTypeOK
  <2>6. ASSUME Disconnect(c)
        PROVE  Functions
    BY <1>2, <2>6 DEF Disconnect, Holding, DraftsTypeOK
  <2> QED BY <1>5, <2>1, <2>2, <2>3, <2>4, <2>5, <2>6 DEF Call
<1>6. CASE Restart
  <2>1. Functions
    BY <1>6 DEF Restart
  <2> QED BY <1>1, <2>1 DEF DraftsTypeOK
<1>7. Functions => DraftsTypeOK'
  BY <1>1 DEF DraftsTypeOK
<1> HIDE DEF Functions
<1> QED BY <1>3, <1>4, <1>5, <1>6, <1>7 DEF DraftsNext

LEMMA DInvInit == DraftsAssumption /\ DraftsInit => DInv
<1> SUFFICES ASSUME DraftsAssumption, DraftsInit PROVE DInv
  OBVIOUS
<1>1. /\ session = [c \in Clients |-> NewSession]
      /\ report = [c \in Clients |-> NoReport]
      /\ overtaken = [c \in Clients |-> FALSE]
  BY DEF DraftsInit, SessionInit
<1>2. DraftsTypeOK
  BY <1>1, NewSessionIs DEF DraftsTypeOK
<1>3. ASSUME NEW c \in Clients PROVE Client(c)
  <2>1. session[c] = NewSession /\ report[c] = NoReport /\ overtaken[c] = FALSE
    BY <1>1
  <2> QED BY <2>1, FreshClient
<1> QED BY <1>2, <1>3 DEF DInv

LEMMA DInvStep ==
    DraftsAssumption /\ IInv /\ DInv /\ [DraftsNext]_allVars => DInv'
<1> SUFFICES ASSUME DraftsAssumption, IInv, DInv, [DraftsNext]_allVars PROVE DInv'
  OBVIOUS
<1>1. DraftsTypeOK'
  BY DraftsTyped
<1>2. \A c \in Clients : Client(c)'
  BY StepSteps DEF StaysTrue
<1> QED BY <1>1, <1>2 DEF DInv

\* Whatever sessions do, the history beneath them is a history: each call
\* of a client is one of its steps or none, so all that is proved of it
\* holds with any number of clients, drafts and previews over it.
THEOREM HistoryImplemented == ASSUME DraftsAssumption PROVE DraftsSpec => Spec
<1>1. DraftsInit => Init
  BY DEF DraftsInit
<1>2. DInv /\ [DraftsNext]_allVars => [Next]_vars
  BY StepIsHistory DEF DInv
<1>3. Init /\ DraftsInit => IInv /\ DInv
  BY IInvInit, DInvInit
<1>4. IInv /\ DInv /\ [DraftsNext]_allVars => IInv' /\ DInv'
  BY <1>2, IInvStep, DInvStep
<1> QED BY <1>1, <1>2, <1>3, <1>4, PTL DEF DraftsSpec, Spec

LEMMA DraftsInvariance ==
    ASSUME DraftsAssumption PROVE DraftsSpec => [](IInv /\ DInv)
<1>1. DraftsInit => IInv /\ DInv
  BY IInvInit, DInvInit DEF DraftsInit
<1>2. DInv /\ [DraftsNext]_allVars => [Next]_vars
  BY StepIsHistory DEF DInv
<1>3. IInv /\ DInv /\ [DraftsNext]_allVars => IInv' /\ DInv'
  BY <1>2, IInvStep, DInvStep
<1> QED BY <1>1, <1>3, PTL DEF DraftsSpec

\* A draft but for its conflict.
LEMMA ShownDraft ==
    ASSUME NEW d \in Draft
    PROVE  [d EXCEPT !.conflicted = FALSE] =
             [asset |-> d.asset, base |-> d.base, edits |-> d.edits,
              conflicted |-> FALSE]
<1> DEFINE e == [d EXCEPT !.conflicted = FALSE]
<1>1. /\ e \in Draft /\ e.asset = d.asset /\ e.base = d.base
      /\ e.edits = d.edits /\ e.conflicted = FALSE
  BY ConflictSet
<1> HIDE DEF e
<1>2. e = [asset |-> e.asset, base |-> e.base, edits |-> e.edits,
           conflicted |-> e.conflicted]
  BY <1>1 DEF Draft
<1> QED BY <1>1, <1>2 DEF e

LEMMA ShownSession ==
    ASSUME NEW s \in Session, NEW t \in Session, SameShown(s, t),
           s.revision = t.revision
    PROVE  [s EXCEPT !.draft.conflicted = FALSE] = [t EXCEPT !.draft.conflicted = FALSE]
<1> DEFINE d == [s.draft EXCEPT !.conflicted = FALSE]
           e == [t.draft EXCEPT !.conflicted = FALSE]
<1>1. d = e
  <2>1. CASE s.draft = t.draft
    BY <2>1
  <2>2. CASE /\ s.draft \in Draft /\ t.draft \in Draft
             /\ s.draft.asset = t.draft.asset /\ s.draft.base = t.draft.base
             /\ s.draft.edits = t.draft.edits
    BY <2>2, ShownDraft
  <2> QED BY <2>1, <2>2 DEF SameShown, SameDraft
<1> HIDE DEF d, e
<1>2. s = [selection |-> s.selection, draft |-> s.draft, revision |-> s.revision]
  BY DEF Session
<1>3. t = [selection |-> t.selection, draft |-> t.draft, revision |-> t.revision]
  BY DEF Session
<1>4. [s EXCEPT !.draft = d] = [selection |-> s.selection, draft |-> d, revision |-> s.revision]
  BY <1>2
<1>5. [t EXCEPT !.draft = e] = [selection |-> t.selection, draft |-> e, revision |-> t.revision]
  BY <1>3
<1>6. s.selection = t.selection
  BY DEF SameShown
<1>7. [s EXCEPT !.draft = d] = [t EXCEPT !.draft = e]
  BY <1>1, <1>4, <1>5, <1>6
<1> QED BY <1>7 DEF d, e

\* A session answered tells truly whether its draft conflicts, a commit
\* replaces only the stack its client saw, and two answers of one revision
\* show the same session.
THEOREM DraftsCorrect == ASSUME DraftsAssumption PROVE DraftsSpec => DraftsHonest
<1>1. DInv => DraftsTypeOK /\ ConflictIsTrue
  BY DEF DInv, ConflictIsTrue, Client, TruthTold
<1>2. IInv /\ DInv /\ [DraftsNext]_allVars =>
        [\A c \in Clients : Committed(c) => ~overtaken[c]]_allVars
  BY StepSteps DEF StaysTrue
<1>3. IInv /\ DInv /\ [DraftsNext]_allVars =>
        [\A c \in Clients :
           LET shown(s) == [s EXCEPT !.draft.conflicted = FALSE]
           IN  /\ report[c] # NoReport /\ report'[c] # NoReport
               /\ report'[c].of.revision = report[c].of.revision
               => shown(report'[c].of) = shown(report[c].of)]_allVars
  <2> SUFFICES ASSUME IInv, DInv, [DraftsNext]_allVars, NEW c \in Clients,
                      report[c] # NoReport, report'[c] # NoReport,
                      report'[c].of.revision = report[c].of.revision
               PROVE  [report'[c].of EXCEPT !.draft.conflicted = FALSE] =
                      [report[c].of EXCEPT !.draft.conflicted = FALSE]
    OBVIOUS
  <2>1. StaysTrue(c)
    BY StepSteps
  <2>2. SameShown(report'[c].of, report[c].of)
    BY <2>1 DEF StaysTrue
  <2>3. report[c].of \in Session /\ report'[c].of \in Session
    BY <2>1 DEF DInv, Client, StaysTrue, Report
  <2> QED BY <2>2, <2>3, ShownSession
<1>4. DraftsSpec => [](DraftsTypeOK /\ ConflictIsTrue)
  BY DraftsInvariance, <1>1, PTL
<1>5. DraftsSpec => CommitsOnWhatWasSeen
  BY DraftsInvariance, <1>2, PTL DEF DraftsSpec, CommitsOnWhatWasSeen
<1>6. DraftsSpec => OneSessionPerRevision
  BY DraftsInvariance, <1>3, PTL DEF DraftsSpec, OneSessionPerRevision
<1> QED BY <1>4, <1>5, <1>6, PTL DEF DraftsHonest
-----------------------------------------------------------------------------
\* Gestures.

\* A core draft, whose flight is "set" only inside an update.
Flights == Rounds \union {"none", "set"}

Cores == [gesture : Gestures, id : 0 .. MaxGestures, base : 1 .. LastRevision,
          conflicted : BOOLEAN, flight : Flights, pending : 0 .. MaxOffers,
          sent : 0 .. MaxOffers, finish : {"none", "commit", "cancel"},
          rebase : BOOLEAN]

\* The gesture has something to commit: fields were offered for it.
HasOffered(k, drew, view) ==
    \/ k = "slider"
    \/ k = "brush" /\ drew
    \/ k = "crop" /\ view.frame

\* A draft is at the owner once it has an id, and what waits for an answer
\* or goes on has not been marked.
Standing(d) ==
    /\ d.id \in {0, d.gesture}
    /\ d.id = 0 <=> d.flight = "begin"
    /\ d.conflicted => d.flight \notin {"begin", "commit"}
    /\ d.flight = "begin" => d.sent = 0
    /\ d.flight = "set" => d.pending = 0 /\ d.sent # 0

\* The newest fields offered, n, are the draft's: pending, or sent; and
\* sent means that the owner holds them, in h, or refused them, in r.
Newest(d, h, n, r) ==
    /\ d.pending \in {0, n}
    /\ d.pending = 0 => d.sent = n
    /\ d.sent = n /\ h.id = d.gesture /\ d.flight # "set" => h.fields = n \/ n \in r

\* A draft d fits its gesture of kind k (drew of a brush, view of a crop):
\* what was offered is not lost, and only what was offered is committed.
Fit(d, k, drew, view, h, n, r) ==
    /\ Standing(d)
    /\ d.pending <= n /\ d.sent <= n
    /\ HasOffered(k, drew, view) => n # 0
    /\ HasOffered(k, drew, view) /\ ~Closing(d) => Newest(d, h, n, r)
    /\ d.finish = "commit" \/ d.flight = "commit" => HasOffered(k, drew, view)
    /\ d.flight = "commit" => d.sent = n /\ d.pending \in {0, n}
    /\ d.rebase => k = "brush"

\* The frame waits for its stage only when its draft is marked.
StageWaits ==
    /\ crop.frame /\ crop.stage => draft.conflicted
    /\ crop # NoCrop => kind = "crop"

\* The slot holds a draft that fits; it is closing exactly when the draft
\* is.
Slots ==
    /\ slot = "none" => draft = NoGesture /\ crop = NoCrop /\ calls = {} /\ replies = {}
                        /\ held = NothingHeld
    /\ slot # "none" => /\ draft \in Cores /\ draft.flight # "set"
                        /\ draft.gesture = serial
                        /\ draft.base <= ownerRevision
                        /\ Fit(draft, kind, drawn, crop, held, newest, refused)
                        /\ StageWaits
    /\ slot = "open" => ~Closing(draft)
    /\ slot = "closing" => Closing(draft)

\* What the owner holds is this gesture's, or nothing.
HeldRight ==
    /\ held.id = 0 => held = NothingHeld
    /\ held.id # 0 => held.base \in 1 .. ownerRevision
    /\ slot # "none" /\ draft.id # 0 => held.id \in {0, draft.gesture}

\* The one request on its way, and the one answer.
Served(c) ==
    /\ c.call = draft.flight /\ c.gesture = draft.gesture
    /\ c.call = "begin" => /\ held.id \in {0, c.displaced}
                           /\ c.displaced \in 0 .. draft.gesture - 1
    /\ c.call = "reapply" => kind # "crop"
Told(a) ==
    /\ a.call = draft.flight /\ a.gesture = draft.gesture
    /\ a.call = "begin" /\ a.outcome = "ok" =>
          /\ held.id = a.gesture /\ a.draft.id = a.gesture
          /\ a.draft.base \in 1 .. ownerRevision
    /\ a.call = "begin" /\ a.outcome # "ok" => held.id = 0
    /\ a.call = "commit" /\ a.outcome \in {"ok", "noop"} => held.id = 0
    /\ a.call = "cancel" => held.id = 0
    /\ a.call = "reapply" => kind # "crop"
    /\ a.call = "reapply" /\ a.outcome = "ok" => a.draft.base \in 1 .. ownerRevision
\* There is at most one of both.
OneRound ==
    /\ \A c \in calls : Served(c) /\ calls = {c} /\ replies = {}
    /\ \A a \in replies : Told(a) /\ replies = {a} /\ calls = {}

\* The inductive invariant of Gestures.
GInv == GestureTypeOK /\ Slots /\ HeldRight /\ OneRound /\ NoDraftLeft
-----------------------------------------------------------------------------
\* What one event leaves of a draft: s follows d.
Follows(d, s, k, drew, view, h, n, r) ==
    /\ s.draft \in Cores
    /\ s.draft.gesture = d.gesture /\ s.draft.base = d.base
    /\ Fit(s.draft, k, drew, view, h, n, r)
    /\ d.conflicted => s.draft.conflicted
    /\ Closing(d) => Closing(s.draft)
    /\ \/ s.step \in {"none", "refused", "conflicted"} /\ s.draft.flight = d.flight
       \/ /\ s.step \in {"commit", "cancel", "reapply", "set"}
          /\ d.flight = "none" /\ s.draft.flight = s.step
    /\ s.step = "set" => ~s.draft.conflicted
    /\ s.step = "reapply" => k # "crop"

\* Advance follows the draft it is given.
LEMMA AdvanceFollows ==
    ASSUME GesturesAssumption, NEW d \in Cores, NEW n \in 0 .. MaxOffers,
           NEW k, NEW drew, NEW view, NEW h, NEW r,
           d.flight # "set", Fit(d, k, drew, view, h, n, r)
    PROVE  Follows(d, Advance(d), k, drew, view, h, n, r)
<1>1. CASE d.flight # "none" \/ d.id = 0
  <2>1. Advance(d) = Say(d, "none")
    BY <1>1 DEF Advance
  <2> QED BY <2>1 DEF Say, Follows
<1>2. CASE d.flight = "none" /\ d.id # 0 /\ d.finish = "cancel"
  <2> DEFINE e == [d EXCEPT !.flight = "cancel"]
  <2>1. Advance(d) = Say(e, "cancel")
    BY <1>2 DEF Advance
  <2>2. e \in Cores /\ Closing(e)
    BY <1>2 DEF Cores, Closing, Flights, Rounds
  <2> QED BY <1>2, <2>1, <2>2 DEF Say, Follows, Fit, Standing, Closing, Cores
<1>3. CASE d.flight = "none" /\ d.id # 0 /\ d.finish # "cancel" /\ Outstanding(d) /\ ~d.conflicted
  <2> DEFINE e == [d EXCEPT !.sent = d.pending, !.pending = 0, !.flight = "set"]
  <2>1. Advance(d) = Say(e, "set")
    BY <1>3 DEF Advance
  <2>2. e \in Cores
    <3>1. 0 \in 0 .. MaxOffers /\ "set" \in Flights
      BY DEF Flights, GesturesAssumption
    <3> QED BY <3>1 DEF Cores
  <2>3. /\ e.sent = d.pending /\ e.pending = 0 /\ e.flight = "set" /\ e.id = d.id
        /\ e.gesture = d.gesture /\ e.base = d.base /\ e.finish = d.finish
        /\ e.rebase = d.rebase /\ e.conflicted = d.conflicted
    BY DEF Cores
  <2> HIDE DEF e
  <2>4. ~Closing(d) /\ ~Closing(e)
    BY <1>3, <2>3 DEF Closing
  <2>5. HasOffered(k, drew, view) => d.pending = n /\ n # 0
    BY <1>3, <2>4 DEF Fit, Newest, Outstanding
  <2>6. Fit(e, k, drew, view, h, n, r)
    BY <1>3, <2>3, <2>4, <2>5 DEF Fit, Standing, Newest, Outstanding
  <2> QED BY <1>3, <2>1, <2>2, <2>3, <2>4, <2>6 DEF Say, Follows
<1>4. CASE /\ d.flight = "none" /\ d.id # 0 /\ d.finish # "cancel" /\ ~(Outstanding(d) /\ ~d.conflicted)
           /\ d.finish = "commit" /\ ~d.conflicted
  <2> DEFINE e == [d EXCEPT !.finish = "none", !.flight = "commit"]
  <2>1. Advance(d) = Say(e, "commit")
    BY <1>4 DEF Advance
  <2>2. e \in Cores
    BY <1>4 DEF Cores, Flights, Rounds
  <2>3. /\ e.sent = d.sent /\ e.pending = d.pending /\ e.flight = "commit" /\ e.id = d.id
        /\ e.gesture = d.gesture /\ e.base = d.base /\ e.finish = "none"
        /\ e.rebase = d.rebase /\ e.conflicted = d.conflicted
    BY DEF Cores
  <2> HIDE DEF e
  <2>4. ~Closing(d) /\ ~Closing(e)
    BY <1>4, <2>3 DEF Closing
  <2>5. HasOffered(k, drew, view) /\ n # 0 /\ Newest(d, h, n, r)
    BY <1>4, <2>4 DEF Fit
  <2>6. d.sent = n
    BY <1>4, <2>5 DEF Newest, Outstanding
  <2>7. Fit(e, k, drew, view, h, n, r)
    BY <1>4, <2>3, <2>4, <2>5, <2>6 DEF Fit, Standing, Newest
  <2> QED BY <1>4, <2>1, <2>2, <2>3, <2>4, <2>7 DEF Say, Follows
<1>5. CASE /\ d.flight = "none" /\ d.id # 0 /\ d.finish # "cancel" /\ ~(Outstanding(d) /\ ~d.conflicted)
           /\ ~(d.finish = "commit" /\ ~d.conflicted)
  <2> DEFINE e == [d EXCEPT !.finish = "none"]
  <2>1. Advance(d) = Say(e, IF d.finish = "commit" THEN "refused" ELSE "none")
    BY <1>5 DEF Advance
  <2>2. e \in Cores
    BY <1>5 DEF Cores
  <2> QED BY <1>5, <2>1, <2>2 DEF Say, Follows, Fit, Standing, Closing, Cores, Newest
<1> QED BY <1>1, <1>2, <1>3, <1>4, <1>5

\* What follows a draft follows one with the same round.
LEMMA SameFollows ==
    ASSUME NEW d, NEW e, NEW s, NEW n, NEW k, NEW drew, NEW view, NEW h, NEW r,
           Follows(e, s, k, drew, view, h, n, r),
           e.gesture = d.gesture, e.base = d.base, e.flight = d.flight,
           d.conflicted => e.conflicted, Closing(d) => Closing(e)
    PROVE  Follows(d, s, k, drew, view, h, n, r)
BY DEF Follows

\* A discard drops what is pending and sends for the cancel.
LEMMA CancelledFollows ==
    ASSUME GesturesAssumption, NEW d \in Cores, NEW n \in 0 .. MaxOffers,
           NEW k, NEW drew, NEW view, NEW h, NEW r,
           d.flight # "set", Fit(d, k, drew, view, h, n, r)
    PROVE  /\ Follows(d, Cancelled(d), k, drew, view, h, n, r)
           /\ Cancelled(d).step \in {"none", "cancel"}
           /\ Cancelled(d).draft.finish = "cancel"
<1>1. CASE Closing(d)
  <2>1. Cancelled(d) = Say(d, "none")
    BY <1>1 DEF Cancelled
  <2> QED BY <1>1, <2>1 DEF Say, Follows, Closing
<1>2. CASE ~Closing(d)
  <2> DEFINE e == [d EXCEPT !.finish = "cancel", !.pending = 0]
  <2>1. Cancelled(d) = Advance(e)
    BY <1>2 DEF Cancelled
  <2>2. /\ e \in Cores
        /\ e.sent = d.sent /\ e.pending = 0 /\ e.flight = d.flight /\ e.id = d.id
        /\ e.gesture = d.gesture /\ e.base = d.base /\ e.finish = "cancel"
        /\ e.rebase = d.rebase /\ e.conflicted = d.conflicted
    <3>1. 0 \in 0 .. MaxOffers
      BY DEF GesturesAssumption
    <3> QED BY <3>1 DEF Cores
  <2> HIDE DEF e
  <2>3. /\ Advance(e).step \in {"none", "cancel"}
        /\ Advance(e).draft.finish = "cancel"
    <3>1. CASE e.flight # "none" \/ e.id = 0
      BY <2>2, <3>1 DEF Advance, Say
    <3>2. CASE ~(e.flight # "none" \/ e.id = 0)
      <4>1. Advance(e) = Say([e EXCEPT !.flight = "cancel"], "cancel")
        BY <2>2, <3>2 DEF Advance
      <4> DEFINE c == [e EXCEPT !.flight = "cancel"]
      <4>2. c.finish = "cancel"
        BY <2>2 DEF Cores
      <4> HIDE DEF c
      <4>3. Advance(e) = Say(c, "cancel")
        BY <4>1 DEF c
      <4> QED BY <4>2, <4>3 DEF Say
    <3> QED BY <3>1, <3>2
  <2>4. Fit(e, k, drew, view, h, n, r)
    <3>1. CASE d.flight = "commit"
      <4>1. HasOffered(k, drew, view) /\ n # 0 /\ Newest(d, h, n, r) /\ d.sent = n
        BY <1>2, <3>1 DEF Fit
      <4> QED BY <2>2, <3>1, <4>1 DEF Fit, Standing, Newest
    <3>2. CASE d.flight # "commit"
      <4>1. Closing(e)
        BY <2>2, <3>2 DEF Closing
      <4> QED BY <2>2, <3>2, <4>1 DEF Fit, Standing
    <3> QED BY <3>1, <3>2
  <2>5. Follows(e, Advance(e), k, drew, view, h, n, r)
    BY <2>2, <2>4, AdvanceFollows
  <2>6. Follows(d, Advance(e), k, drew, view, h, n, r)
    BY <1>2, <2>2, <2>5, SameFollows
  <2> QED BY <2>1, <2>3, <2>6
<1> QED BY <1>1, <1>2

\* A release of a gesture that has offered something is remembered.
LEMMA ReleasedFollows ==
    ASSUME GesturesAssumption, NEW d \in Cores, NEW n \in 0 .. MaxOffers,
           NEW k, NEW drew, NEW view, NEW h, NEW r,
           d.flight # "set", Fit(d, k, drew, view, h, n, r),
           ~Settled(d), HasOffered(k, drew, view)
    PROVE  Follows(d, Released(d), k, drew, view, h, n, r)
<1> DEFINE e == [d EXCEPT !.finish = "commit"]
           f == [d EXCEPT !.finish = "none"]
<1>1. ~Closing(d) /\ d.flight # "commit" /\ d.finish # "cancel"
  BY DEF Settled, Closing
<1>2. /\ e \in Cores
      /\ e.sent = d.sent /\ e.pending = d.pending /\ e.flight = d.flight /\ e.id = d.id
      /\ e.gesture = d.gesture /\ e.base = d.base /\ e.finish = "commit"
      /\ e.rebase = d.rebase /\ e.conflicted = d.conflicted
  BY DEF Cores
<1>3. /\ f \in Cores
      /\ f.sent = d.sent /\ f.pending = d.pending /\ f.flight = d.flight /\ f.id = d.id
      /\ f.gesture = d.gesture /\ f.base = d.base /\ f.finish = "none"
      /\ f.rebase = d.rebase /\ f.conflicted = d.conflicted
  BY DEF Cores
<1>4. Released(d) = IF d.flight # "none" THEN Say(e, "none")
                    ELSE IF d.conflicted THEN Say(f, "refused") ELSE Advance(e)
  BY DEF Released
<1> HIDE DEF e, f
<1>5. Fit(e, k, drew, view, h, n, r) /\ Fit(f, k, drew, view, h, n, r)
  <2>1. Newest(d, h, n, r) /\ n # 0
    BY <1>1 DEF Fit
  <2> QED BY <1>1, <1>2, <1>3, <2>1 DEF Fit, Standing, Newest
<1>6. Follows(e, Advance(e), k, drew, view, h, n, r)
  BY <1>2, <1>5, AdvanceFollows
<1>7. Follows(d, Advance(e), k, drew, view, h, n, r)
  BY <1>1, <1>2, <1>6, SameFollows
<1>8. Follows(d, Say(e, "none"), k, drew, view, h, n, r)
  BY <1>1, <1>2, <1>5 DEF Follows, Say
<1>9. Follows(d, Say(f, "refused"), k, drew, view, h, n, r)
  BY <1>1, <1>3, <1>5 DEF Follows, Say
<1> QED BY <1>4, <1>7, <1>8, <1>9

\* A reapply is sent for, or not; the draft fits either way.
LEMMA ReapplyingFits ==
    ASSUME NEW d \in Cores, NEW n \in 0 .. MaxOffers,
           NEW k, NEW drew, NEW view, NEW h, NEW r,
           Fit(d, k, drew, view, h, n, r)
    PROVE  LET s == Reapplying(d)
           IN /\ s.draft \in Cores /\ Fit(s.draft, k, drew, view, h, n, r)
              /\ s.draft.gesture = d.gesture /\ s.draft.base = d.base
              /\ s.draft.conflicted = d.conflicted /\ s.draft.finish = d.finish
              /\ s.draft.id = d.id
              /\ Closing(s.draft) <=> Closing(d)
              /\ \/ s.step = "none" /\ s.draft = d
                 \/ s.step = "reapply" /\ d.flight = "none" /\ s.draft.flight = "reapply"
<1>1. CASE ~Idle(d)
  <2>1. Reapplying(d) = Say(d, "none")
    BY <1>1 DEF Reapplying
  <2> QED BY <2>1 DEF Say
<1>2. CASE Idle(d)
  <2> DEFINE e == [d EXCEPT !.flight = "reapply"]
  <2>1. Reapplying(d) = Say(e, "reapply")
    BY <1>2 DEF Reapplying
  <2>2. /\ e \in Cores
        /\ e.sent = d.sent /\ e.pending = d.pending /\ e.flight = "reapply" /\ e.id = d.id
        /\ e.gesture = d.gesture /\ e.base = d.base /\ e.finish = d.finish
        /\ e.rebase = d.rebase /\ e.conflicted = d.conflicted
    BY DEF Cores, Flights, Rounds
  <2> HIDE DEF e
  <2>3. Closing(e) <=> Closing(d)
    BY <1>2, <2>2 DEF Idle, Closing
  <2>4. Fit(e, k, drew, view, h, n, r)
    BY <1>2, <2>2, <2>3 DEF Fit, Standing, Newest, Idle
  <2> QED BY <1>2, <2>1, <2>2, <2>3, <2>4 DEF Say, Idle
<1> QED BY <1>1, <1>2

LEMMA ReapplyingFollows ==
    ASSUME NEW d \in Cores, NEW n \in 0 .. MaxOffers,
           NEW k, NEW drew, NEW view, NEW h, NEW r,
           Fit(d, k, drew, view, h, n, r), k # "crop"
    PROVE  Follows(d, Reapplying(d), k, drew, view, h, n, r)
BY ReapplyingFits DEF Follows

\* An offer makes its fields the newest.
LEMMA OfferedFollows ==
    ASSUME GesturesAssumption, NEW d \in Cores, NEW n \in 0 .. MaxOffers, n < MaxOffers,
           NEW k, NEW drew, NEW view, NEW old, NEW was, NEW h, NEW r,
           d.flight \notin {"set", "commit"}, ~Closing(d),
           Fit(d, k, old, was, h, n, r),
           HasOffered(k, old, was) => HasOffered(k, drew, view)
    PROVE  Follows(d, Offered(d, n + 1), k, drew, view, h, n + 1, r)
<1> DEFINE e == [d EXCEPT !.pending = n + 1]
<1>1. /\ e \in Cores
      /\ e.sent = d.sent /\ e.pending = n + 1 /\ e.flight = d.flight /\ e.id = d.id
      /\ e.gesture = d.gesture /\ e.base = d.base /\ e.finish = d.finish
      /\ e.rebase = d.rebase /\ e.conflicted = d.conflicted
  <2>1. n + 1 \in 0 .. MaxOffers
    BY DEF GesturesAssumption
  <2> QED BY <2>1 DEF Cores
<1>2. Offered(d, n + 1) = Advance(e)
  BY DEF Offered
<1> HIDE DEF e
<1>3. d.sent <= n /\ d.sent # n + 1 /\ d.sent <= n + 1 /\ n + 1 # 0 /\ n + 1 \in 0 .. MaxOffers /\ d.sent \in Nat
  <2>1. d.sent \in 0 .. MaxOffers /\ d.sent <= n
    BY DEF Cores, Fit
  <2> QED BY <2>1 DEF GesturesAssumption
<1>4. Newest(e, h, n + 1, r)
  BY <1>1, <1>3 DEF Newest
<1>5. Standing(e)
  BY <1>1 DEF Fit, Standing
<1>6. e.pending <= n + 1
  BY <1>1, <1>3
<1>7. Fit(e, k, drew, view, h, n + 1, r)
  BY <1>1, <1>3, <1>4, <1>5, <1>6 DEF Fit
<1>8. Follows(e, Advance(e), k, drew, view, h, n + 1, r)
  BY <1>1, <1>3, <1>7, AdvanceFollows
<1> QED BY <1>1, <1>2, <1>8, SameFollows

\* A draft.begin answered opens the draft on its base.
LEMMA BegunFollows ==
    ASSUME GesturesAssumption, NEW d \in Cores, NEW n \in 0 .. MaxOffers,
           NEW k, NEW drew, NEW view, NEW h, NEW r, NEW a,
           d.flight = "begin", Fit(d, k, drew, view, h, n, r),
           a.id = d.gesture, a.base \in 1 .. LastRevision, known \in Int
    PROVE  /\ OpenedAs(d, a) \in Cores
           /\ OpenedAs(d, a).gesture = d.gesture /\ OpenedAs(d, a).base = a.base
           /\ OpenedAs(d, a).flight = "none"
           /\ Closing(OpenedAs(d, a)) <=> Closing(d)
           /\ Follows(OpenedAs(d, a), Begun(d, "ok", a), k, drew, view, h, n, r)
<1> DEFINE e == OpenedAs(d, a)
<1>1. /\ e \in Cores
      /\ e.sent = d.sent /\ e.pending = d.pending /\ e.flight = "none" /\ e.id = d.gesture
      /\ e.gesture = d.gesture /\ e.base = a.base /\ e.finish = d.finish
      /\ e.rebase = d.rebase
  <2>1. d.gesture \in 0 .. MaxGestures /\ "none" \in Flights /\ (known > a.base) \in BOOLEAN
    BY DEF Cores, Gestures, GesturesAssumption, Flights
  <2> QED BY <2>1 DEF Cores, OpenedAs
<1> HIDE DEF e
<1>2. Closing(e) <=> Closing(d)
  BY <1>1 DEF Closing
<1>3. Standing(e)
  <2>1. d.gesture # 0
    BY DEF Cores, Gestures
  <2> QED BY <1>1, <2>1 DEF Standing
<1>4. Fit(e, k, drew, view, h, n, r)
  <2>1. d.sent = 0
    BY DEF Fit, Standing
  <2> QED BY <1>1, <1>2, <1>3, <2>1 DEF Fit, Newest
<1>5. Follows(e, Advance(e), k, drew, view, h, n, r)
  BY <1>1, <1>4, AdvanceFollows
<1>6. \/ Begun(d, "ok", a) = Advance(e)
      \/ /\ Advance(e).step = "none"
         /\ Begun(d, "ok", a) = Say(Advance(e).draft, "conflicted")
  BY DEF Begun, e
<1>7. Follows(e, Begun(d, "ok", a), k, drew, view, h, n, r)
  BY <1>5, <1>6 DEF Follows, Say
<1> QED BY <1>1, <1>2, <1>7 DEF e

\* A commit refused leaves the draft to go on with.
LEMMA RefusedFollows ==
    ASSUME GesturesAssumption, NEW d \in Cores, NEW n \in 0 .. MaxOffers,
           NEW k, NEW drew, NEW view, NEW h, NEW r, NEW outcome,
           d.flight = "commit", Fit(d, k, drew, view, h, n, r)
    PROVE  LET e == [d EXCEPT !.flight = "none", !.conflicted = @ \/ outcome = "conflict"]
           IN /\ e \in Cores /\ e.flight = "none"
              /\ e.gesture = d.gesture /\ e.base = d.base
              /\ d.conflicted => e.conflicted
              /\ Follows(e, Refused(d, outcome), k, drew, view, h, n, r)
<1> DEFINE e == [d EXCEPT !.flight = "none", !.conflicted = @ \/ outcome = "conflict"]
           f == [e EXCEPT !.finish = "none"]
<1>1. /\ e \in Cores
      /\ e.sent = d.sent /\ e.pending = d.pending /\ e.flight = "none" /\ e.id = d.id
      /\ e.gesture = d.gesture /\ e.base = d.base /\ e.finish = d.finish
      /\ e.rebase = d.rebase /\ (d.conflicted => e.conflicted)
  BY DEF Cores, Flights, Rounds
<1>2. Refused(d, outcome) = IF d.finish = "cancel" THEN Advance(e) ELSE Say(f, "none")
  BY DEF Refused
<1> HIDE DEF e
<1>3. /\ f \in Cores
      /\ f.sent = d.sent /\ f.pending = d.pending /\ f.flight = "none" /\ f.id = d.id
      /\ f.gesture = d.gesture /\ f.base = d.base /\ f.finish = "none"
      /\ f.rebase = d.rebase /\ f.conflicted = e.conflicted
  BY <1>1 DEF Cores
<1> HIDE DEF f
<1>4. HasOffered(k, drew, view) /\ n # 0 /\ Newest(d, h, n, r) /\ d.id \in {0, d.gesture} /\ d.id # 0
  BY DEF Fit, Closing, Standing
<1>5. Newest(e, h, n, r) /\ Newest(f, h, n, r) /\ Standing(e) /\ Standing(f)
  BY <1>1, <1>3, <1>4 DEF Newest, Standing
<1>6. Fit(e, k, drew, view, h, n, r) /\ Fit(f, k, drew, view, h, n, r)
  BY <1>1, <1>3, <1>4, <1>5 DEF Fit
<1>7. Follows(e, Advance(e), k, drew, view, h, n, r)
  BY <1>1, <1>6, AdvanceFollows
<1>8. CASE d.finish # "cancel"
  <2>1. ~Closing(e)
    BY <1>1, <1>8 DEF Closing
  <2>2. Follows(e, Say(f, "none"), k, drew, view, h, n, r)
    BY <1>1, <1>3, <1>6, <2>1 DEF Follows, Say
  <2> QED BY <1>1, <1>2, <1>8, <2>2 DEF e
<1>9. CASE d.finish = "cancel"
  BY <1>1, <1>2, <1>7, <1>9 DEF e
<1> QED BY <1>8, <1>9

\* The draft that an answered reapply leaves, before it is advanced.
AfterReapply(d, outcome, a) ==
    LET idle == [d EXCEPT !.flight = "none"]
    IN IF outcome = "ok"
       THEN Resent([idle EXCEPT !.base = a.base, !.conflicted = FALSE])
       ELSE idle

\* A rebased draft sends its fields again.
LEMMA RebasedFollows ==
    ASSUME GesturesAssumption, NEW d \in Cores, NEW n \in 0 .. MaxOffers,
           NEW k, NEW drew, NEW view, NEW h, NEW r, NEW outcome, NEW a,
           d.flight = "reapply", Fit(d, k, drew, view, h, n, r),
           outcome = "ok" => a.base \in 1 .. LastRevision
    PROVE  LET e == AfterReapply(d, outcome, a)
           IN /\ e \in Cores /\ e.flight = "none" /\ e.gesture = d.gesture
              /\ e.base \in {d.base, a.base} /\ (outcome # "ok" => e.base = d.base)
              /\ Closing(d) => Closing(e)
              /\ Follows(e, Rebased(d, outcome, a), k, drew, view, h, n, r)
<1> DEFINE e == AfterReapply(d, outcome, a)
<1>1. Rebased(d, outcome, a) = Advance(e)
  BY DEF Rebased, AfterReapply
<1>2. CASE outcome # "ok"
  <2>1. e = [d EXCEPT !.flight = "none"]
    BY <1>2 DEF AfterReapply
  <2>2. /\ e \in Cores
        /\ e.sent = d.sent /\ e.pending = d.pending /\ e.flight = "none" /\ e.id = d.id
        /\ e.gesture = d.gesture /\ e.base = d.base /\ e.finish = d.finish
        /\ e.rebase = d.rebase /\ e.conflicted = d.conflicted
    BY <2>1 DEF Cores, Flights
  <2> HIDE DEF e
  <2>3. Closing(e) <=> Closing(d)
    BY <2>2 DEF Closing
  <2>4. Fit(e, k, drew, view, h, n, r)
    BY <2>2, <2>3 DEF Fit, Standing, Newest
  <2>5. Follows(e, Advance(e), k, drew, view, h, n, r)
    BY <2>2, <2>4, AdvanceFollows
  <2> QED BY <1>1, <1>2, <2>2, <2>3, <2>5 DEF e
<1>3. CASE outcome = "ok"
  <2> DEFINE i == [d EXCEPT !.flight = "none", !.base = a.base, !.conflicted = FALSE]
  <2>0. [[d EXCEPT !.flight = "none"] EXCEPT !.base = a.base, !.conflicted = FALSE] = i
    BY DEF Cores
  <2>1. e = Resent(i)
    BY <1>3, <2>0 DEF AfterReapply
  <2>2. /\ i \in Cores
        /\ i.sent = d.sent /\ i.pending = d.pending /\ i.flight = "none" /\ i.id = d.id
        /\ i.gesture = d.gesture /\ i.base = a.base /\ i.finish = d.finish
        /\ i.rebase = d.rebase /\ i.conflicted = FALSE
    BY <1>3 DEF Cores, Flights
  <2> HIDE DEF i
  <2>3. /\ e \in Cores
        /\ e.sent = 0 /\ e.flight = "none" /\ e.id = d.id
        /\ e.pending = (IF d.pending # 0 THEN d.pending ELSE d.sent)
        /\ e.gesture = d.gesture /\ e.base = a.base /\ e.finish = d.finish
        /\ e.rebase = d.rebase /\ e.conflicted = FALSE
    <3>1. 0 \in 0 .. MaxOffers
      BY DEF GesturesAssumption
    <3>2. e = [i EXCEPT !.pending = IF i.pending # 0 THEN i.pending ELSE i.sent, !.sent = 0]
      BY <2>1 DEF Resent
    <3> HIDE DEF e
    <3> QED BY <2>2, <3>1, <3>2 DEF Cores
  <2> HIDE DEF e
  <2>4. Closing(e) <=> Closing(d)
    BY <2>3 DEF Closing
  <2>5. Standing(e)
    BY <2>3 DEF Standing, Fit
  <2>6. e.pending <= n /\ e.sent <= n
    BY <2>3 DEF Fit
  <2>7. HasOffered(k, drew, view) /\ ~Closing(e) => Newest(e, h, n, r)
    BY <2>3, <2>4 DEF Fit, Newest
  <2>8. Fit(e, k, drew, view, h, n, r)
    BY <2>3, <2>4, <2>5, <2>6, <2>7 DEF Fit
  <2>9. Follows(e, Advance(e), k, drew, view, h, n, r)
    BY <2>3, <2>8, AdvanceFollows
  <2> QED BY <1>1, <1>3, <2>3, <2>4, <2>9 DEF e
<1> QED BY <1>2, <1>3

\* A revision learnt marks the draft, if anything.
LEMMA MovedFollows ==
    ASSUME NEW d \in Cores, NEW n \in 0 .. MaxOffers, NEW to,
           NEW k, NEW drew, NEW view, NEW h, NEW r,
           Fit(d, k, drew, view, h, n, r)
    PROVE  /\ Follows(d, MovedOn(d, to), k, drew, view, h, n, r)
           /\ MovedOn(d, to).step \in {"none", "conflicted"}
<1> DEFINE e == [d EXCEPT !.conflicted = TRUE]
<1>1. /\ e \in Cores
      /\ e.sent = d.sent /\ e.pending = d.pending /\ e.flight = d.flight /\ e.id = d.id
      /\ e.gesture = d.gesture /\ e.base = d.base /\ e.finish = d.finish
      /\ e.rebase = d.rebase /\ e.conflicted = TRUE
  BY DEF Cores
<1>2. \/ MovedOn(d, to) = Say(d, "none")
      \/ d.id # 0 /\ d.flight # "commit" /\ MovedOn(d, to) = Say(e, "conflicted")
  BY DEF MovedOn
<1> HIDE DEF e
<1>3. CASE MovedOn(d, to) = Say(d, "none")
  BY <1>3 DEF Follows, Say
<1>4. CASE d.id # 0 /\ d.flight # "commit" /\ MovedOn(d, to) = Say(e, "conflicted")
  <2>1. Closing(e) <=> Closing(d)
    BY <1>1 DEF Closing
  <2>2. Standing(e)
    BY <1>1, <1>4 DEF Fit, Standing
  <2>3. Fit(e, k, drew, view, h, n, r)
    BY <1>1, <2>1, <2>2 DEF Fit, Newest
  <2> QED BY <1>1, <1>4, <2>1, <2>3 DEF Follows, Say
<1> QED BY <1>2, <1>3, <1>4

\* What every update ends with follows too.
LEMMA UpdateEndsFollows ==
    ASSUME GesturesAssumption, NEW d \in Cores, NEW n \in 0 .. MaxOffers,
           NEW drew, NEW view, NEW h, NEW r,
           d.flight # "set", Fit(d, kind, drew, view, h, n, r)
    PROVE  /\ Follows(d, UpdateEnds(d, view), kind, drew, view, h, n, r)
           /\ UpdateEnds(d, view).step \in {"none", "cancel", "reapply"}
<1>1. CASE kind = "crop" /\ view = NoCrop
  BY <1>1, CancelledFollows DEF UpdateEnds
<1>2. CASE ~(kind = "crop" /\ view = NoCrop) /\ d.rebase /\ d.conflicted
  <2>1. kind # "crop"
    BY <1>2 DEF Fit
  <2>2. UpdateEnds(d, view) = Reapplying(d)
    BY <1>2 DEF UpdateEnds
  <2>3. Reapplying(d).step \in {"none", "reapply"}
    BY DEF Reapplying, Say
  <2> QED BY <2>1, <2>2, <2>3, ReapplyingFollows
<1>3. CASE ~(kind = "crop" /\ view = NoCrop) /\ ~(d.rebase /\ d.conflicted)
  <2> DEFINE e == [d EXCEPT !.rebase = FALSE]
  <2>1. UpdateEnds(d, view) = Say(e, "none")
    BY <1>3 DEF UpdateEnds
  <2>2. /\ e \in Cores
        /\ e.sent = d.sent /\ e.pending = d.pending /\ e.flight = d.flight /\ e.id = d.id
        /\ e.gesture = d.gesture /\ e.base = d.base /\ e.finish = d.finish
        /\ e.rebase = FALSE /\ e.conflicted = d.conflicted
    BY DEF Cores
  <2> HIDE DEF e
  <2>3. Closing(e) <=> Closing(d)
    BY <2>2 DEF Closing
  <2>4. Fit(e, kind, drew, view, h, n, r)
    BY <2>2, <2>3 DEF Fit, Newest, Standing
  <2> QED BY <2>1, <2>2, <2>3, <2>4 DEF Say, Follows
<1> QED BY <1>1, <1>2, <1>3

\* A notice of a conflict arms a rebase, of an armed brush.
LEMMA NoticedFits ==
    ASSUME NEW said, said.draft \in Cores, NEW n \in 0 .. MaxOffers,
           NEW drew, NEW view, NEW h, NEW r,
           Fit(said.draft, kind, drew, view, h, n, r)
    PROVE  /\ Noticed(said) \in Cores
           /\ Noticed(said).gesture = said.draft.gesture
           /\ Noticed(said).base = said.draft.base
           /\ Noticed(said).flight = said.draft.flight
           /\ Noticed(said).conflicted = said.draft.conflicted
           /\ Closing(Noticed(said)) <=> Closing(said.draft)
           /\ Fit(Noticed(said), kind, drew, view, h, n, r)
<1> DEFINE d == said.draft
           e == [d EXCEPT !.rebase = TRUE]
<1>1. /\ e \in Cores
      /\ e.sent = d.sent /\ e.pending = d.pending /\ e.flight = d.flight /\ e.id = d.id
      /\ e.gesture = d.gesture /\ e.base = d.base /\ e.finish = d.finish
      /\ e.rebase = TRUE /\ e.conflicted = d.conflicted
  BY DEF Cores
<1>2. Noticed(said) = d \/ (kind = "brush" /\ Noticed(said) = e)
  BY DEF Noticed, Armed
<1> HIDE DEF e
<1>3. Closing(e) <=> Closing(d)
  BY <1>1 DEF Closing
<1>4. kind = "brush" => Fit(e, kind, drew, view, h, n, r)
  BY <1>1, <1>3 DEF Fit, Newest, Standing
<1> QED BY <1>1, <1>2, <1>3, <1>4

\* A round trip goes on, or one is sent for.
RoundGoesOn(d, queue) ==
    \/ draft'.flight = d.flight /\ calls' = queue
    \/ /\ d.flight = "none" /\ draft'.flight \in {"commit", "cancel", "reapply"}
       /\ calls' = queue \union {[call |-> draft'.flight, gesture |-> d.gesture,
                                  displaced |-> 0, expected |-> d.base]}
       /\ draft'.flight = "reapply" => kind # "crop"

\* What an update that goes on from d leaves.
Left(d, drew, view, h, n, r, queue) ==
    /\ draft' \in Cores /\ draft'.flight # "set"
    /\ draft'.gesture = d.gesture /\ draft'.base = d.base
    /\ Fit(draft', kind, drew, crop', h, n, r)
    /\ RoundGoesOn(d, queue)
    /\ \/ slot' = "open" /\ ~Closing(draft')
       \/ slot' = "closing" /\ Closing(draft')
    /\ crop' \in {view, NoCrop}
    /\ (view.frame /\ view.stage => d.conflicted)
          => (crop'.frame /\ crop'.stage => draft'.conflicted)

\* A closing draft has no frame to fit.
LEMMA ClosedFits ==
    ASSUME NEW d, NEW n, NEW k, NEW drew, NEW view, NEW h, NEW r,
           Fit(d, k, drew, view, h, n, r), Closing(d)
    PROVE  Fit(d, k, drew, NoCrop, h, n, r)
<1>1. HasOffered(k, drew, NoCrop) => HasOffered(k, drew, view)
  BY DEF HasOffered, NoCrop
<1>2. d.finish # "commit" /\ d.flight # "commit"
  BY DEF Closing
<1> QED BY <1>1, <1>2 DEF Fit

\* KeepGesture leaves a draft that fits, and at most one request.
LEMMA KeepLeaves ==
    ASSUME GesturesAssumption, NEW d, NEW said, NEW n \in 0 .. MaxOffers,
           NEW drew, NEW view, NEW h, NEW r, NEW queue,
           d.flight # "set", said.step # "set",
           Follows(d, said, kind, drew, view, h, n, r),
           slot \in {"open", "closing"}, slot = "closing" => Closing(d),
           KeepGesture(said, queue, view)
    PROVE  Left(d, drew, view, h, n, r, queue)
<1> DEFINE s == said.draft
           last == IF slot = "open" THEN UpdateEnds(Noticed(said), view) ELSE Say(s, "none")
           e == last.draft
<1>1. /\ s \in Cores /\ s.gesture = d.gesture /\ s.base = d.base
      /\ Fit(s, kind, drew, view, h, n, r)
      /\ d.conflicted => s.conflicted
      /\ Closing(d) => Closing(s)
      /\ \/ said.step \in {"none", "refused", "conflicted"} /\ s.flight = d.flight
         \/ /\ said.step \in {"commit", "cancel", "reapply"}
            /\ d.flight = "none" /\ s.flight = said.step
      /\ said.step = "reapply" => kind # "crop"
  BY DEF Follows
<1>2. s.flight # "set"
  BY <1>1
<1>3. /\ draft' = e
      /\ slot' = (IF Closing(e) THEN "closing" ELSE slot)
      /\ crop' = (IF Closing(e) THEN NoCrop ELSE view)
      /\ calls' = queue \union Sent(said) \union Sent(last)
  BY DEF KeepGesture
<1>4. /\ Follows(s, last, kind, drew, view, h, n, r)
      /\ last.step \in {"none", "cancel", "reapply"}
  <2>1. CASE slot = "open"
    <3> DEFINE c == Noticed(said)
    <3>1. /\ c \in Cores /\ c.gesture = s.gesture /\ c.base = s.base
          /\ c.flight = s.flight /\ c.conflicted = s.conflicted
          /\ Closing(c) <=> Closing(s)
          /\ Fit(c, kind, drew, view, h, n, r)
      BY <1>1, NoticedFits
    <3> HIDE DEF c
    <3>2. /\ Follows(c, UpdateEnds(c, view), kind, drew, view, h, n, r)
          /\ UpdateEnds(c, view).step \in {"none", "cancel", "reapply"}
      BY <1>2, <3>1, UpdateEndsFollows
    <3>3. Follows(s, UpdateEnds(c, view), kind, drew, view, h, n, r)
      BY <3>1, <3>2, SameFollows
    <3> QED BY <2>1, <3>2, <3>3 DEF c
  <2>2. CASE slot # "open"
    <3>1. last = Say(s, "none")
      BY <2>2
    <3> HIDE DEF last
    <3> QED BY <1>1, <3>1 DEF Say, Follows
  <2> QED BY <2>1, <2>2
<1> HIDE DEF last, s
<1>5. /\ e \in Cores /\ e.gesture = s.gesture /\ e.base = s.base
      /\ Fit(e, kind, drew, view, h, n, r)
      /\ s.conflicted => e.conflicted
      /\ Closing(s) => Closing(e)
      /\ \/ last.step = "none" /\ e.flight = s.flight
         \/ /\ last.step \in {"cancel", "reapply"}
            /\ s.flight = "none" /\ e.flight = last.step
      /\ last.step = "reapply" => kind # "crop"
  BY <1>4 DEF Follows
<1>6. RoundGoesOn(d, queue)
  <2>1. CASE said.step \in {"commit", "cancel", "reapply"}
    <3>1. last.step = "none" /\ e.flight = said.step
      BY <1>1, <1>5, <2>1
    <3>2. /\ Sent(last) = {}
          /\ Sent(said) = {[call |-> said.step, gesture |-> s.gesture, displaced |-> 0, expected |-> s.base]}
      BY <2>1, <3>1 DEF Sent, Request, s
    <3> QED BY <1>1, <1>3, <2>1, <3>1, <3>2 DEF RoundGoesOn
  <2>2. CASE said.step \notin {"commit", "cancel", "reapply"} /\ last.step = "none"
    <3>1. Sent(last) = {} /\ Sent(said) = {}
      BY <2>2 DEF Sent
    <3> QED BY <1>1, <1>3, <1>5, <2>2, <3>1 DEF RoundGoesOn
  <2>3. CASE said.step \notin {"commit", "cancel", "reapply"} /\ last.step # "none"
    <3>1. /\ Sent(said) = {}
          /\ Sent(last) = {[call |-> last.step, gesture |-> e.gesture, displaced |-> 0, expected |-> e.base]}
      BY <1>5, <2>3 DEF Sent, Request
    <3> QED BY <1>1, <1>3, <1>5, <2>3, <3>1 DEF RoundGoesOn
  <2> QED BY <2>1, <2>2, <2>3
<1>7. e.flight # "set"
  BY <1>2, <1>5
<1>8. Fit(e, kind, drew, crop', h, n, r)
  BY <1>3, <1>5, ClosedFits
<1>9. slot = "closing" => Closing(e)
  BY <1>1, <1>5
<1>10. crop'.frame /\ crop'.stage => crop' = view
  BY <1>3 DEF NoCrop
<1>11. crop' \in {view, NoCrop}
  BY <1>3
<1> HIDE DEF e
<1>12. /\ \/ slot' = "open" /\ ~Closing(draft')
          \/ slot' = "closing" /\ Closing(draft')
  BY <1>3, <1>9
<1>13. (view.frame /\ view.stage => d.conflicted) => (crop'.frame /\ crop'.stage => draft'.conflicted)
  BY <1>1, <1>3, <1>5, <1>10
<1> QED BY ONLY <1>1, <1>3, <1>5, <1>6, <1>7, <1>8, <1>11, <1>12, <1>13 DEF Left

\* What a call of draft.set changes at the owner.
SetChanges(said) ==
    \/ UNCHANGED <<held, refused>>
    \/ /\ said.step = "set" /\ held.id = said.draft.id /\ said.draft.id = said.draft.gesture
       /\ held' = [held EXCEPT !.fields = said.draft.sent]
       /\ UNCHANGED refused
    \/ /\ said.step = "set"
       /\ refused' = refused \union {said.draft.sent} /\ said.draft.sent # 0
       /\ UNCHANGED held

\* So does Drive, with the call of draft.set it may make.
LEMMA DriveLeaves ==
    ASSUME GesturesAssumption, NEW d, NEW said, NEW n \in 0 .. MaxOffers,
           NEW drew, NEW view, NEW queue,
           d.flight # "set", view.frame /\ view.stage => d.conflicted,
           held \in CoreDrafts,
           Follows(d, said, kind, drew, view, held, n, refused),
           slot \in {"open", "closing"}, slot = "closing" => Closing(d),
           Drive(said, queue, view)
    PROVE  /\ Left(d, drew, view, held', n, refused', queue)
           /\ SetChanges(said)
<1>1. CASE said.step # "set"
  <2>1. UNCHANGED <<held, refused>> /\ KeepGesture(said, queue, view)
    BY <1>1 DEF Drive, Settle, Follows
  <2>2. Left(d, drew, view, held, n, refused, queue)
    BY <1>1, <2>1, KeepLeaves
  <2> QED BY <2>1, <2>2 DEF SetChanges
<1>2. CASE said.step = "set"
  <2> DEFINE s == said.draft
  <2>1. /\ s \in Cores /\ s.gesture = d.gesture /\ s.base = d.base
        /\ Fit(s, kind, drew, view, held, n, refused)
        /\ s.flight = "set" /\ d.flight = "none" /\ ~s.conflicted /\ ~d.conflicted
        /\ Closing(d) => Closing(s)
        /\ s.id = s.gesture /\ s.pending = 0 /\ s.sent # 0
    BY <1>2 DEF Follows, Fit, Standing
  <2>2. Set(said, queue, view)
    BY <1>2 DEF Drive
  <2>3. ASSUME NEW f \in Cores,
               f.sent = s.sent, f.pending = 0, f.flight = "none", f.id = s.id,
               f.gesture = s.gesture, f.base = s.base, f.finish = s.finish,
               f.rebase = s.rebase,
               \/ held' = [held EXCEPT !.fields = s.sent] /\ UNCHANGED refused
               \/ refused' = refused \union {s.sent} /\ UNCHANGED held,
               Settle(Advance(f), queue, view)
        PROVE  Left(d, drew, view, held', n, refused', queue)
    <3>1. /\ f \in Cores
          /\ f.sent = s.sent /\ f.pending = 0 /\ f.flight = "none" /\ f.id = s.id
          /\ f.gesture = s.gesture /\ f.base = s.base /\ f.finish = s.finish
          /\ f.rebase = s.rebase
      BY <2>3
    <3> HIDE DEF s
    <3>2. Closing(f) <=> Closing(s)
      BY <2>1, <3>1 DEF Closing
    <3>3. Standing(f)
      BY <2>1, <3>1 DEF Standing, Cores, Gestures
    <3>4. f.sent = n => held'.fields = n \/ n \in refused'
      BY <2>3, <3>1 DEF CoreDrafts
    <3>5. Fit(f, kind, drew, view, held', n, refused')
      BY <2>1, <3>1, <3>2, <3>3, <3>4 DEF Fit, Newest
    <3>6. Follows(f, Advance(f), kind, drew, view, held', n, refused')
      BY <3>1, <3>5, AdvanceFollows
    <3>7. Advance(f).step # "set"
      BY <3>1 DEF Advance, Outstanding, Say
    <3>8. KeepGesture(Advance(f), queue, view)
      <4>1. Settle(Advance(f), queue, view)
        BY <2>3
      <4>2. Advance(f).step # "done"
        BY <3>6 DEF Follows
      <4> QED BY <4>1, <4>2 DEF Settle
    <3>9. slot = "closing" => Closing(f)
      BY <2>1, <3>2
    <3>10. Left(f, drew, view, held', n, refused', queue)
      BY <3>1, <3>6, <3>7, <3>8, <3>9, KeepLeaves
    <3> QED BY <2>1, <3>1, <3>10 DEF Left, RoundGoesOn
  <2>5. CASE SetAccepted(s, queue, view)
    <3> DEFINE f == [s EXCEPT !.flight = "none", !.conflicted = held.base # ownerRevision]
    <3>1. /\ held' = [held EXCEPT !.fields = s.sent] /\ UNCHANGED refused /\ held.id = s.id
          /\ Settle(Advance(f), queue, view)
      BY <2>5 DEF SetAccepted
    <3>2. /\ f \in Cores
          /\ f.sent = s.sent /\ f.pending = 0 /\ f.flight = "none" /\ f.id = s.id
          /\ f.gesture = s.gesture /\ f.base = s.base /\ f.finish = s.finish
          /\ f.rebase = s.rebase
      BY <2>1 DEF Cores, Flights
    <3> HIDE DEF f
    <3>3. Left(d, drew, view, held', n, refused', queue)
      BY <2>3, <3>1, <3>2
    <3> QED BY <1>2, <2>1, <3>1, <3>3 DEF SetChanges
  <2>6. CASE SetUnpreviewed(s, queue, view) \/ SetRefused(s, queue, view)
    <3> DEFINE f == [s EXCEPT !.flight = "none"]
    <3>1. /\ \/ held' = [held EXCEPT !.fields = s.sent] /\ UNCHANGED refused /\ held.id = s.id
             \/ refused' = refused \union {s.sent} /\ UNCHANGED held
          /\ Settle(Advance(f), queue, view)
      BY <2>6 DEF SetUnpreviewed, SetRefused
    <3>2. /\ f \in Cores
          /\ f.sent = s.sent /\ f.pending = 0 /\ f.flight = "none" /\ f.id = s.id
          /\ f.gesture = s.gesture /\ f.base = s.base /\ f.finish = s.finish
          /\ f.rebase = s.rebase
      BY <2>1 DEF Cores, Flights
    <3> HIDE DEF f
    <3>3. Left(d, drew, view, held', n, refused', queue)
      BY <2>3, <3>1, <3>2
    <3> QED BY <1>2, <2>1, <3>1, <3>3 DEF SetChanges
  <2> QED BY <2>2, <2>5, <2>6 DEF Set
<1> QED BY <1>1, <1>2

\* Every update that drives its draft keeps the invariant.
LEMMA DrivenKeeps ==
    ASSUME GesturesAssumption, GInv, slot \in {"open", "closing"},
           NEW d \in Cores, NEW said, NEW n \in 0 .. MaxOffers, NEW drew,
           NEW view \in [frame : BOOLEAN, stage : BOOLEAN], NEW queue,
           d.flight # "set", d.gesture = draft.gesture, d.base <= ownerRevision,
           held.id \in {0, draft.gesture} \/ (d.flight = "begin" /\ queue = calls),
           view.frame /\ view.stage => d.conflicted, view # NoCrop => kind = "crop",
           Follows(d, said, kind, drew, view, held, n, refused),
           slot = "closing" => Closing(d),
           Drive(said, queue, view),
           \/ queue = {} /\ replies' = {}
           \/ queue = calls /\ replies' = replies /\ d.flight = draft.flight,
           newest' = n, drawn' = drew, known' \in 1 .. ownerRevision,
           UNCHANGED <<ownerRevision, serial, kind, committed>>
    PROVE  GInv'
<1>1. /\ Left(d, drew, view, held', n, refused', queue) /\ SetChanges(said)
  BY DriveLeaves DEF GInv, GestureTypeOK
<1>2. /\ draft' \in Cores /\ draft'.flight # "set"
      /\ draft'.gesture = d.gesture /\ draft'.base = d.base
      /\ Fit(draft', kind, drew, crop', held', n, refused')
      /\ RoundGoesOn(d, queue)
      /\ \/ slot' = "open" /\ ~Closing(draft')
         \/ slot' = "closing" /\ Closing(draft')
      /\ crop' \in {view, NoCrop}
      /\ crop'.frame /\ crop'.stage => draft'.conflicted
  BY <1>1 DEF Left
<1>3. /\ said.draft \in Cores
      /\ said.step = "set" => d.flight = "none"
      /\ said.draft.gesture = d.gesture
  BY DEF Follows
<1>4. /\ held' \in CoreDrafts /\ held'.id = held.id /\ held'.base = held.base
      /\ held.id = 0 => held' = held
      /\ d.flight # "none" => held' = held
      /\ refused' \subseteq 1 .. MaxOffers
  <2>1. held \in CoreDrafts /\ refused \subseteq 1 .. MaxOffers
    BY DEF GInv, GestureTypeOK
  <2>2. said.draft.sent \in 0 .. MaxOffers /\ d.gesture # 0
    BY <1>3 DEF Cores, Gestures
  <2>3. (said.draft.sent # 0) => said.draft.sent \in 1 .. MaxOffers
    BY <2>2 DEF GesturesAssumption
  <2> QED BY <1>1, <1>3, <2>1, <2>2, <2>3 DEF SetChanges, CoreDrafts
<1>5. slot # "none" /\ draft \in Cores /\ draft.gesture = serial
  BY DEF GInv, Slots
<1>6. \/ /\ queue = {} /\ replies' = {}
      \/ queue = calls /\ replies' = replies /\ d.flight = draft.flight /\ d.flight # "none"
  <2>1. d.flight = draft.flight /\ d.flight = "none" => calls = {} /\ replies = {}
    BY DEF GInv, OneRound, Served, Told, GestureTypeOK, Rounds
  <2> QED BY <2>1
<1>7. OneRound'
  <2>1. CASE queue = {} /\ replies' = {} /\ calls' = queue
    BY <2>1 DEF OneRound
  <2>2. CASE queue = {} /\ replies' = {} /\ calls' # queue
    <3>1. /\ draft'.flight \in {"commit", "cancel", "reapply"}
          /\ draft'.flight = "reapply" => kind # "crop"
          /\ \A c \in calls' : calls' = {c} /\ c.call = draft'.flight /\ c.gesture = d.gesture
      BY <1>2, <2>2 DEF RoundGoesOn
    <3>2. \A c \in calls' : Served(c)'
      BY <1>2, <3>1 DEF Served
    <3> QED BY <2>2, <3>1, <3>2 DEF OneRound
  <2>3. CASE queue = calls /\ replies' = replies /\ d.flight = draft.flight /\ d.flight # "none"
    <3>1. calls' = calls /\ draft'.flight = draft.flight /\ held' = held /\ draft'.gesture = draft.gesture
      BY <1>2, <1>4, <2>3 DEF RoundGoesOn
    <3>2. OneRound
      BY DEF GInv
    <3> QED BY <2>3, <3>1, <3>2 DEF OneRound, Served, Told
  <2> QED BY <1>6, <2>1, <2>2, <2>3
<1>8. Slots'
  BY <1>2, <1>5 DEF Slots, StageWaits
<1>9. HeldRight'
  <2>1. draft'.id # 0 => draft'.flight # "begin"
    BY <1>2 DEF Fit, Standing
  <2>2. draft'.flight # "begin" => d.flight # "begin"
    BY <1>2 DEF RoundGoesOn
  <2>3. HeldRight
    BY DEF GInv
  <2> QED BY <1>2, <1>4, <2>1, <2>2, <2>3 DEF HeldRight
<1>10. \A c \in calls' : /\ c.call \in Rounds /\ c.gesture \in Gestures
                         /\ c.displaced \in 0 .. MaxGestures
                         /\ c.expected \in 1 .. LastRevision
  <2>1. \A c \in calls : /\ c.call \in Rounds /\ c.gesture \in Gestures
                         /\ c.displaced \in 0 .. MaxGestures
                         /\ c.expected \in 1 .. LastRevision
    BY DEF GInv, GestureTypeOK
  <2>2. d.gesture \in Gestures /\ d.base \in 1 .. LastRevision /\ 0 \in 0 .. MaxGestures
    BY DEF Cores, GesturesAssumption
  <2>3. \A c \in calls' \ queue : /\ c.call \in Rounds /\ c.gesture = d.gesture
                                  /\ c.displaced = 0 /\ c.expected = d.base
    BY <1>2 DEF RoundGoesOn, Rounds
  <2> QED BY <1>6, <2>1, <2>2, <2>3
<1>11. \A a \in replies' : /\ a.call \in Rounds /\ a.gesture \in Gestures
                           /\ a.outcome \in Outcomes /\ a.draft \in CoreDrafts
  BY <1>6 DEF GInv, GestureTypeOK
<1>12. /\ draft'.gesture \in 0 .. MaxGestures /\ draft'.id \in {0, draft'.gesture}
       /\ draft'.base \in 1 .. ownerRevision
       /\ draft'.flight \in Rounds \union {"none"}
       /\ draft'.pending \in 0 .. MaxOffers /\ draft'.sent \in 0 .. MaxOffers
       /\ draft'.finish \in {"none", "commit", "cancel"}
  <2>1. draft'.base \in 1 .. LastRevision /\ draft'.base <= ownerRevision /\ draft'.gesture \in Gestures
    BY <1>2 DEF Cores
  <2>2. ownerRevision \in 1 .. LastRevision
    BY DEF GInv, GestureTypeOK
  <2>3. draft'.base \in 1 .. ownerRevision /\ draft'.gesture \in 0 .. MaxGestures
    BY <2>1, <2>2 DEF Gestures, GesturesAssumption
  <2> QED BY <1>2, <2>3 DEF Cores, Fit, Standing, Flights
<1>13. slot' \in {"none", "open", "closing"} /\ crop' \in [frame : BOOLEAN, stage : BOOLEAN]
  <2>1. NoCrop \in [frame : BOOLEAN, stage : BOOLEAN]
    BY DEF NoCrop
  <2> QED BY <1>2, <2>1
<1>14. GestureTypeOK'
  BY <1>4, <1>10, <1>11, <1>12, <1>13 DEF GInv, GestureTypeOK
<1>15. NoDraftLeft'
  <2>1. CASE held.id \in {0, draft.gesture}
    BY <1>2, <1>4, <2>1 DEF NoDraftLeft
  <2>2. CASE d.flight = "begin" /\ queue = calls
    <3>1. calls' = calls
      BY <1>2, <2>2 DEF RoundGoesOn
    <3>2. NoDraftLeft
      BY DEF GInv
    <3> QED BY <1>2, <1>4, <1>5, <3>1, <3>2 DEF NoDraftLeft
  <2> QED BY <2>1, <2>2
<1> QED BY <1>7, <1>8, <1>9, <1>14, <1>15 DEF GInv

\* The events of the person at the desktop.
LEMMA Advances ==
    ASSUME GesturesAssumption, GInv, slot = "open",
           Offer \/ Release \/ Discard \/ Reapply
    PROVE  GInv'
<1>1. /\ draft \in Cores /\ draft.flight # "set" /\ draft.base <= ownerRevision
      /\ Fit(draft, kind, drawn, crop, held, newest, refused)
      /\ crop.frame /\ crop.stage => draft.conflicted
      /\ crop # NoCrop => kind = "crop"
      /\ ~Closing(draft)
  BY DEF GInv, Slots, StageWaits
<1>2. /\ crop \in [frame : BOOLEAN, stage : BOOLEAN] /\ newest \in 0 .. MaxOffers
      /\ known \in 1 .. ownerRevision
  BY DEF GInv, GestureTypeOK
<1>3. draft.flight # "begin" => held.id \in {0, draft.gesture}
  BY <1>1 DEF GInv, HeldRight, Fit, Standing
<1>4. CASE Offer
  <2>1. /\ ~Settled(draft) /\ newest < MaxOffers /\ (kind = "crop" => crop.frame)
        /\ Drive(Offered(draft, newest + 1), calls, crop)
        /\ newest' = newest + 1 /\ drawn' = (kind = "brush")
        /\ UNCHANGED <<ownerRevision, replies, known, serial, kind, committed>>
    BY <1>4 DEF Offer
  <2>2. newest + 1 \in 0 .. MaxOffers /\ draft.flight # "commit"
    BY <1>2, <2>1 DEF GesturesAssumption, Settled
  <2>3. HasOffered(kind, drawn, crop) => HasOffered(kind, kind = "brush", crop)
    BY DEF HasOffered
  <2>4. Follows(draft, Offered(draft, newest + 1), kind, kind = "brush", crop, held, newest + 1, refused)
    BY <1>1, <1>2, <2>1, <2>2, <2>3, OfferedFollows
  <2> QED BY <1>1, <1>2, <1>3, <2>1, <2>2, <2>4, DrivenKeeps
<1>5. CASE Release
  <2>1. /\ ~ReleaseRefused /\ ~Settled(draft)
        /\ Drive(Released(draft), calls, crop)
        /\ UNCHANGED <<ownerRevision, replies, known, serial, kind, drawn, newest, committed>>
    BY <1>5 DEF Release
  <2>2. HasOffered(kind, drawn, crop)
    <3>1. kind \in {"slider", "brush", "crop"}
      BY DEF GInv, GestureTypeOK, GesturesAssumption
    <3> QED BY <2>1, <3>1 DEF HasOffered, ReleaseRefused, Armed
  <2>3. Follows(draft, Released(draft), kind, drawn, crop, held, newest, refused)
    BY <1>1, <1>2, <2>1, <2>2, ReleasedFollows
  <2> QED BY <1>1, <1>2, <1>3, <2>1, <2>3, DrivenKeeps
<1>6. CASE Discard
  <2>1. /\ Drive(Cancelled(draft), calls, crop)
        /\ UNCHANGED <<ownerRevision, replies, known, serial, kind, drawn, newest, committed>>
    BY <1>6 DEF Discard
  <2>2. Follows(draft, Cancelled(draft), kind, drawn, crop, held, newest, refused)
    BY <1>1, <1>2, CancelledFollows
  <2> QED BY <1>1, <1>2, <1>3, <2>1, <2>2, DrivenKeeps
<1>7. CASE Reapply
  <2>1. /\ kind # "crop" /\ Drive(Reapplying(draft), calls, crop)
        /\ UNCHANGED <<ownerRevision, replies, known, serial, kind, drawn, newest, committed>>
    BY <1>7 DEF Reapply
  <2>2. Follows(draft, Reapplying(draft), kind, drawn, crop, held, newest, refused)
    BY <1>1, <1>2, <2>1, ReapplyingFollows
  <2> QED BY <1>1, <1>2, <1>3, <2>1, <2>2, DrivenKeeps
<1> QED BY <1>4, <1>5, <1>6, <1>7

\* The input stage of a crop arrives or fails.
LEMMA Stages ==
    ASSUME GesturesAssumption, GInv, slot = "open", StageArrives \/ StageFails
    PROVE  GInv'
<1>1. /\ draft \in Cores /\ draft.flight # "set" /\ draft.base <= ownerRevision
      /\ Fit(draft, kind, drawn, crop, held, newest, refused)
      /\ crop.frame /\ crop.stage => draft.conflicted
      /\ crop # NoCrop => kind = "crop"
      /\ ~Closing(draft)
  BY DEF GInv, Slots, StageWaits
<1>2. /\ crop \in [frame : BOOLEAN, stage : BOOLEAN] /\ newest \in 0 .. MaxOffers
      /\ known \in 1 .. ownerRevision
  BY DEF GInv, GestureTypeOK
<1>3. draft.flight # "begin" => held.id \in {0, draft.gesture}
  BY <1>1 DEF GInv, HeldRight, Fit, Standing
<1>4. CASE StageArrives
  <2> DEFINE d == IF crop.frame THEN Reapplying(draft).draft ELSE draft
             view == [frame |-> TRUE, stage |-> FALSE]
  <2>1. /\ newest < MaxOffers /\ crop.stage
        /\ Drive(Offered(d, newest + 1), calls, view)
        /\ newest' = newest + 1
        /\ UNCHANGED <<ownerRevision, replies, known, serial, kind, drawn, committed>>
    BY <1>4 DEF StageArrives
  <2>0. crop.stage => kind = "crop"
    BY <1>1 DEF NoCrop
  <2>2. /\ newest + 1 \in 0 .. MaxOffers /\ view \in [frame : BOOLEAN, stage : BOOLEAN]
        /\ ~(view.frame /\ view.stage)
    BY <1>2, <2>1 DEF GesturesAssumption
  <2>3. draft.flight # "commit"
    <3>1. CASE crop.frame
      BY <1>1, <2>1, <3>1 DEF Fit, Standing
    <3>2. CASE ~crop.frame
      BY <1>1, <2>0, <2>1, <3>2 DEF Fit, HasOffered
    <3> QED BY <3>1, <3>2
  <2>4. /\ d \in Cores /\ Fit(d, kind, drawn, crop, held, newest, refused)
        /\ d.gesture = draft.gesture /\ d.base = draft.base /\ ~Closing(d)
        /\ d.flight \notin {"set", "commit"}
        /\ \/ d.flight = draft.flight
           \/ draft.flight = "none" /\ d.flight = "reapply"
    BY <1>1, <1>2, <2>3, ReapplyingFits
  <2> HIDE DEF d, view
  <2>5. HasOffered(kind, drawn, crop) => HasOffered(kind, drawn, view)
    BY DEF HasOffered, view
  <2>6. Follows(d, Offered(d, newest + 1), kind, drawn, view, held, newest + 1, refused)
    BY <1>2, <2>1, <2>4, <2>5, OfferedFollows
  <2>7. \/ calls = {} /\ replies' = {}
        \/ replies' = replies /\ d.flight = draft.flight
    <3>1. draft.flight = "none" => calls = {} /\ replies = {}
      BY DEF GInv, OneRound, Served, Told, GestureTypeOK, Rounds
    <3> QED BY <2>1, <2>4, <3>1
  <2>8. d.flight # "begin" => held.id \in {0, draft.gesture}
    BY <1>3, <2>4
  <2> QED BY <1>1, <1>2, <2>0, <2>1, <2>2, <2>4, <2>6, <2>7, <2>8, DrivenKeeps
<1>5. CASE StageFails
  <2> DEFINE view == [crop EXCEPT !.stage = FALSE]
  <2>1. /\ Drive(Say(draft, "none"), calls, view) /\ (view # NoCrop => kind = "crop")
        /\ UNCHANGED <<ownerRevision, replies, known, serial, kind, drawn, newest, committed>>
    BY <1>1, <1>5 DEF StageFails, NoCrop
  <2>2. view \in [frame : BOOLEAN, stage : BOOLEAN] /\ view.frame = crop.frame /\ ~view.stage
    BY <1>2
  <2> HIDE DEF view
  <2>3. HasOffered(kind, drawn, crop) <=> HasOffered(kind, drawn, view)
    BY <2>2 DEF HasOffered
  <2>4. Fit(draft, kind, drawn, view, held, newest, refused)
    BY <1>1, <2>3 DEF Fit
  <2>5. Follows(draft, Say(draft, "none"), kind, drawn, view, held, newest, refused)
    BY <1>1, <2>4 DEF Follows, Say
  <2> QED BY <1>1, <1>2, <1>3, <2>1, <2>2, <2>5, DrivenKeeps
<1> QED BY <1>4, <1>5

\* The desktop learns of a revision.
LEMMA Learns ==
    ASSUME GesturesAssumption, GInv, Learn
    PROVE  GInv'
<1>1. /\ known \in 1 .. ownerRevision /\ ownerRevision \in 1 .. LastRevision
      /\ crop \in [frame : BOOLEAN, stage : BOOLEAN] /\ newest \in 0 .. MaxOffers
      /\ slot \in {"none", "open", "closing"}
  BY DEF GInv, GestureTypeOK
<1>2. /\ known' \in 1 .. ownerRevision
      /\ UNCHANGED <<ownerRevision, replies, serial, kind, drawn, newest, committed>>
  <2>1. known' \in known + 1 .. ownerRevision
    BY DEF Learn
  <2>2. known' \in 1 .. ownerRevision
    BY <1>1, <2>1
  <2> QED BY <2>2 DEF Learn
<1>3. CASE slot = "none"
  <2>1. UNCHANGED <<held, calls, slot, draft, crop, refused>>
    BY <1>3 DEF Learn
  <2>2. GestureTypeOK'
    BY <1>2, <2>1 DEF GInv, GestureTypeOK
  <2>3. Slots' /\ HeldRight' /\ OneRound' /\ NoDraftLeft'
    BY <1>2, <2>1 DEF GInv, Slots, HeldRight, OneRound, Served, Told, StageWaits, NoDraftLeft
  <2> QED BY <2>2, <2>3 DEF GInv
<1>4. CASE slot # "none"
  <2>1. Drive(MovedOn(draft, known'), calls, crop)
    BY <1>4 DEF Learn, Heard
  <2>2. /\ draft \in Cores /\ draft.flight # "set" /\ draft.base <= ownerRevision
        /\ Fit(draft, kind, drawn, crop, held, newest, refused)
        /\ crop.frame /\ crop.stage => draft.conflicted
        /\ crop # NoCrop => kind = "crop"
        /\ slot = "closing" => Closing(draft)
    BY <1>4 DEF GInv, Slots, StageWaits
  <2>3. draft.flight # "begin" => held.id \in {0, draft.gesture}
    BY <1>4, <2>2 DEF GInv, HeldRight, Fit, Standing
  <2>4. Follows(draft, MovedOn(draft, known'), kind, drawn, crop, held, newest, refused)
    BY <1>1, <2>2, MovedFollows
  <2> QED BY <1>1, <1>2, <1>4, <2>1, <2>2, <2>3, <2>4, DrivenKeeps
<1> QED BY <1>3, <1>4

\* A gesture ends: the owner holds nothing for it.
LEMMA EndKeeps ==
    ASSUME GesturesAssumption, GInv, NEW queue,
           queue = {}, replies' = {}, held.id = 0,
           EndGesture(queue), known' \in 1 .. ownerRevision,
           UNCHANGED <<ownerRevision, held, serial, kind, drawn, newest, refused, committed>>
    PROVE  GInv'
<1>1. slot' = "none" /\ draft' = NoGesture /\ crop' = NoCrop /\ calls' = {}
  BY DEF EndGesture
<1>2. /\ NoGesture.gesture = 0 /\ NoGesture.id = 0 /\ NoGesture.flight = "none"
      /\ NoGesture.pending = 0 /\ NoGesture.sent = 0 /\ NoGesture.finish = "none"
      /\ NoCrop \in [frame : BOOLEAN, stage : BOOLEAN]
      /\ 0 \in 0 .. MaxGestures /\ 0 \in 0 .. MaxOffers
  BY DEF NoGesture, Opened, NoCrop, GesturesAssumption
<1>3. held = NothingHeld
  BY DEF GInv, HeldRight
<1>4. GestureTypeOK'
  BY <1>1, <1>2 DEF GInv, GestureTypeOK
<1>5. Slots' /\ HeldRight' /\ OneRound' /\ NoDraftLeft'
  BY <1>1, <1>3 DEF GInv, Slots, HeldRight, OneRound, NoDraftLeft
<1> QED BY <1>4, <1>5 DEF GInv

\* An answer is taken up.
LEMMA TakesAnswer ==
    ASSUME GesturesAssumption, GInv, TakeAnswer
    PROVE  GInv'
<1> PICK a \in replies : \/ TakeBegun(a) \/ TakeCommitted(a) \/ TakeRefused(a)
                         \/ TakeReapplied(a) \/ TakeCancelled(a)
  BY DEF TakeAnswer
<1>1. /\ known \in 1 .. ownerRevision /\ ownerRevision \in 1 .. LastRevision
      /\ crop \in [frame : BOOLEAN, stage : BOOLEAN] /\ newest \in 0 .. MaxOffers
      /\ slot \in {"none", "open", "closing"} /\ a.outcome \in Outcomes
      /\ MaxOffers \in Nat /\ LastRevision \in Nat
  BY DEF GInv, GestureTypeOK, GesturesAssumption
<1>2. Told(a) /\ replies = {a} /\ calls = {}
  BY DEF GInv, OneRound
<1>3. /\ replies' = {} /\ slot # "none"
      /\ UNCHANGED <<ownerRevision, serial, kind, drawn, newest, committed>>
  BY <1>2 DEF TakeBegun, TakeCommitted, TakeRefused, TakeReapplied, TakeCancelled, Taken, Finds
<1>4. /\ draft \in Cores /\ draft.flight # "set" /\ draft.base <= ownerRevision
      /\ Fit(draft, kind, drawn, crop, held, newest, refused)
      /\ crop.frame /\ crop.stage => draft.conflicted
      /\ crop # NoCrop => kind = "crop"
      /\ slot = "closing" => Closing(draft)
  BY <1>3 DEF GInv, Slots, StageWaits
<1>5. draft.flight # "begin" => held.id \in {0, draft.gesture}
  BY <1>3, <1>4 DEF GInv, HeldRight, Fit, Standing
<1>6. CASE TakeBegun(a) /\ a.outcome # "ok"
  <2>1. Begun(draft, a.outcome, a.draft).step = "done" /\ UNCHANGED known /\ held.id = 0
    BY <1>2, <1>6 DEF Begun, Say, TakeBegun, Told
  <2>2. Drive(Begun(draft, a.outcome, a.draft), calls, crop)
    BY <1>6 DEF TakeBegun
  <2>3. EndGesture(calls) /\ UNCHANGED <<held, refused>>
    BY <2>1, <2>2 DEF Drive, Settle
  <2> QED BY <1>1, <1>2, <1>3, <2>1, <2>3, EndKeeps
<1>7. CASE TakeBegun(a) /\ a.outcome = "ok"
  <2> DEFINE d == OpenedAs(draft, a.draft)
  <2>1. /\ draft.flight = "begin" /\ a.draft.id = draft.gesture /\ held.id = draft.gesture
        /\ a.draft.base \in 1 .. ownerRevision /\ UNCHANGED known
        /\ Drive(Begun(draft, "ok", a.draft), calls, crop)
    BY <1>2, <1>7 DEF TakeBegun, Told
  <2>2. a.draft.base \in 1 .. LastRevision /\ a.draft.base <= ownerRevision /\ known \in Int
    BY <1>1, <2>1
  <2>3. /\ d \in Cores /\ d.gesture = draft.gesture /\ d.base = a.draft.base
        /\ d.flight = "none"
        /\ Closing(d) <=> Closing(draft)
        /\ Follows(d, Begun(draft, "ok", a.draft), kind, drawn, crop, held, newest, refused)
    BY <1>1, <1>4, <2>1, <2>2, BegunFollows
  <2>4. ~(crop.frame /\ crop.stage)
    BY <1>4, <2>1 DEF Fit, Standing
  <2> HIDE DEF d
  <2> QED BY <1>1, <1>2, <1>3, <1>4, <1>5, <2>1, <2>2, <2>3, <2>4, DrivenKeeps
<1>8. CASE TakeCommitted(a)
  <2>1. known' \in 1 .. ownerRevision
    <3>1. known' = known \/ known' \in known .. ownerRevision
      BY <1>8 DEF TakeCommitted
    <3> QED BY <1>1, <3>1
  <2>2. EndGesture(calls) /\ UNCHANGED <<held, refused>> /\ held.id = 0
    BY <1>2, <1>8 DEF TakeCommitted, Told
  <2> QED BY <1>2, <1>3, <2>1, <2>2, EndKeeps
<1>9. CASE TakeRefused(a)
  <2> DEFINE d == [draft EXCEPT !.flight = "none", !.conflicted = @ \/ a.outcome = "conflict"]
  <2>1. /\ draft.flight = "commit" /\ UNCHANGED known
        /\ Drive(Refused(draft, a.outcome), calls, crop)
    BY <1>2, <1>9 DEF TakeRefused, Told
  <2>2. /\ d \in Cores /\ d.flight = "none"
        /\ d.gesture = draft.gesture /\ d.base = draft.base
        /\ draft.conflicted => d.conflicted
        /\ Follows(d, Refused(draft, a.outcome), kind, drawn, crop, held, newest, refused)
    BY <1>1, <1>4, <2>1, RefusedFollows
  <2>3. slot # "closing"
    BY <1>4, <2>1 DEF Closing
  <2> HIDE DEF d
  <2> QED BY <1>1, <1>2, <1>3, <1>4, <1>5, <2>1, <2>2, <2>3, DrivenKeeps
<1>10. CASE TakeReapplied(a)
  <2> DEFINE e == [draft EXCEPT !.rebase = FALSE]
             d == AfterReapply(e, a.outcome, a.draft)
  <2>1. /\ draft.flight = "reapply" /\ UNCHANGED known /\ kind # "crop"
        /\ a.outcome = "ok" => a.draft.base \in 1 .. ownerRevision
        /\ Drive(Rebased(e, a.outcome, a.draft), calls, crop)
    BY <1>2, <1>10 DEF TakeReapplied, Told
  <2>2. /\ e \in Cores /\ e.flight = "reapply" /\ e.gesture = draft.gesture
        /\ e.base = draft.base /\ e.finish = draft.finish /\ e.id = draft.id
        /\ e.sent = draft.sent /\ e.pending = draft.pending
        /\ e.conflicted = draft.conflicted /\ e.rebase = FALSE
    BY <1>4, <2>1 DEF Cores
  <2>3. ~(crop.frame /\ crop.stage)
    BY <1>4, <2>1 DEF NoCrop
  <2>4. a.outcome = "ok" => a.draft.base \in 1 .. LastRevision /\ a.draft.base <= ownerRevision
    BY <1>1, <2>1
  <2> HIDE DEF e
  <2>5. Closing(e) <=> Closing(draft)
    BY <2>1, <2>2 DEF Closing
  <2>6. Fit(e, kind, drawn, crop, held, newest, refused)
    BY <1>4, <2>1, <2>2, <2>5 DEF Fit, Standing, Newest
  <2>7. /\ d \in Cores /\ d.flight = "none" /\ d.gesture = e.gesture
        /\ d.base \in {e.base, a.draft.base} /\ (a.outcome # "ok" => d.base = e.base)
        /\ Closing(e) => Closing(d)
        /\ Follows(d, Rebased(e, a.outcome, a.draft), kind, drawn, crop, held, newest, refused)
    BY <1>1, <2>2, <2>4, <2>6, RebasedFollows
  <2>8. d.base <= ownerRevision
    BY <1>4, <2>2, <2>4, <2>7
  <2> HIDE DEF d
  <2> QED BY <1>1, <1>2, <1>3, <1>4, <1>5, <2>1, <2>2, <2>3, <2>5, <2>7, <2>8, DrivenKeeps
<1>11. CASE TakeCancelled(a)
  <2>1. EndGesture(calls) /\ UNCHANGED <<held, refused, known>> /\ held.id = 0
    BY <1>2, <1>11 DEF TakeCancelled, Told
  <2> QED BY <1>1, <1>2, <1>3, <2>1, EndKeeps
<1> QED BY <1>6, <1>7, <1>8, <1>9, <1>10, <1>11

\* A gesture starts, and may displace an armed brush.
LEMMA Starts ==
    ASSUME GesturesAssumption, GInv, NEW k \in Kinds, Start(k)
    PROVE  GInv'
<1> DEFINE fields == IF k = "slider" THEN newest + 1 ELSE 0
           displaced == IF slot = "open" THEN draft.id ELSE 0
           opened == Opened(serial + 1, known, fields)
           c == Request("begin", opened, displaced)
<1>1. /\ MayStart /\ serial < MaxGestures /\ (k = "slider" => newest < MaxOffers)
      /\ serial' = serial + 1 /\ slot' = "open" /\ kind' = k /\ drawn' = FALSE
      /\ draft' = opened /\ crop' = [frame |-> FALSE, stage |-> k = "crop"]
      /\ calls' = calls \union {c}
      /\ newest' = newest + (IF k = "slider" THEN 1 ELSE 0)
      /\ UNCHANGED <<ownerRevision, held, replies, known, refused, committed>>
  BY DEF Start, owner
<1>2. /\ newest \in 0 .. MaxOffers /\ serial \in 0 .. MaxGestures
      /\ known \in 1 .. ownerRevision /\ ownerRevision \in 1 .. LastRevision
      /\ MaxOffers \in Nat /\ MaxGestures \in Nat /\ LastRevision \in Nat
      /\ held \in CoreDrafts /\ slot \in {"none", "open", "closing"}
      /\ k \in {"slider", "brush", "crop"}
  BY DEF GInv, GestureTypeOK, GesturesAssumption
<1>3. /\ calls = {} /\ replies = {}
      /\ held.id \in {0, displaced} /\ displaced \in 0 .. serial
  <2>1. CASE slot = "none"
    BY <1>2, <2>1 DEF GInv, Slots, NothingHeld
  <2>2. CASE slot = "open"
    <3>1. Idle(draft) /\ draft.gesture = serial /\ draft.id \in {0, draft.gesture}
      BY <1>1, <2>2 DEF MayStart, Yields, GInv, Slots, Fit, Standing
    <3>2. calls = {} /\ replies = {}
      BY <3>1 DEF Idle, GInv, OneRound, Served, Told, GestureTypeOK, Rounds
    <3>3. held.id \in {0, draft.gesture} /\ draft.id = draft.gesture
      BY <2>2, <3>1 DEF Idle, GInv, HeldRight
    <3> QED BY <1>2, <2>2, <3>1, <3>2, <3>3
  <2> QED BY <1>1, <2>1, <2>2 DEF MayStart, Yields
<1>4. /\ serial + 1 \in Gestures /\ serial + 1 \in 0 .. MaxGestures /\ serial + 1 # 0
      /\ displaced \in 0 .. MaxGestures /\ displaced \in 0 .. (serial + 1) - 1
      /\ known \in 1 .. LastRevision /\ known <= ownerRevision
      /\ fields \in 0 .. MaxOffers /\ newest' \in 0 .. MaxOffers
      /\ fields \in {0, newest'} /\ fields <= newest' /\ 0 <= newest' /\ 0 \in 0 .. MaxOffers
      /\ k = "slider" => fields = newest' /\ newest' # 0
      /\ 0 \in 0 .. MaxGestures
  BY <1>1, <1>2, <1>3 DEF Gestures
<1> HIDE DEF fields, displaced
<1>5. /\ opened.gesture = serial + 1 /\ opened.id = 0 /\ opened.base = known
      /\ opened.conflicted = FALSE /\ opened.flight = "begin" /\ opened.pending = fields
      /\ opened.sent = 0 /\ opened.finish = "none" /\ opened.rebase = FALSE
      /\ opened \in Cores
  BY <1>4 DEF Opened, Cores, Flights, Rounds
<1>6. /\ c.call = "begin" /\ c.gesture = serial + 1 /\ c.displaced = displaced
      /\ c.expected = known
  BY <1>5 DEF Request
<1> HIDE DEF opened, c
<1>7. /\ crop'.frame = FALSE /\ crop'.stage = (k = "crop")
      /\ crop' \in [frame : BOOLEAN, stage : BOOLEAN]
      /\ crop' # NoCrop => k = "crop"
  BY <1>1 DEF NoCrop
<1>8. ~Closing(opened) /\ Standing(opened)
  BY <1>4, <1>5 DEF Closing, Standing
<1>9. HasOffered(k, FALSE, crop') <=> k = "slider"
  BY <1>2, <1>7 DEF HasOffered
<1>10. Fit(opened, k, FALSE, crop', held, newest', refused)
  BY <1>4, <1>5, <1>8, <1>9 DEF Fit, Newest
<1>11. Slots'
  BY <1>1, <1>4, <1>5, <1>7, <1>8, <1>10 DEF Slots, StageWaits
<1>12. HeldRight'
  BY <1>1, <1>5 DEF GInv, HeldRight
<1>13. OneRound'
  BY <1>1, <1>3, <1>4, <1>5, <1>6 DEF OneRound, Served
<1>14. GestureTypeOK'
  <2>1. opened.gesture # 0 => opened.base \in 1 .. ownerRevision
    BY <1>2, <1>5
  <2> QED BY <1>1, <1>2, <1>3, <1>4, <1>5, <1>6, <1>7, <2>1 DEF GInv, GestureTypeOK, Rounds
<1>15. NoDraftLeft'
  BY <1>1, <1>3, <1>6 DEF NoDraftLeft
<1> QED BY <1>11, <1>12, <1>13, <1>14, <1>15 DEF GInv

\* The stage of a marked crop is asked for again.
LEMMA CropReapplies ==
    ASSUME GesturesAssumption, GInv, ReapplyCrop
    PROVE  GInv'
<1>1. /\ slot = "open" /\ kind = "crop" /\ crop.frame /\ draft.conflicted
      /\ crop' = [crop EXCEPT !.stage = TRUE]
      /\ UNCHANGED <<ownerRevision, held, calls, replies, known, serial, slot, kind, drawn,
                     draft, newest, refused, committed>>
  BY DEF ReapplyCrop, owner
<1>2. crop \in [frame : BOOLEAN, stage : BOOLEAN]
  BY DEF GInv, GestureTypeOK
<1>3. crop' \in [frame : BOOLEAN, stage : BOOLEAN] /\ crop'.frame = crop.frame
  BY <1>1, <1>2
<1>4. GestureTypeOK'
  BY <1>1, <1>3 DEF GInv, GestureTypeOK
<1>5. HasOffered(kind, drawn, crop) <=> HasOffered(kind, drawn, crop')
  BY <1>3 DEF HasOffered
<1>6. Fit(draft, kind, drawn, crop', held, newest, refused)
  BY <1>1, <1>5 DEF GInv, Slots, Fit
<1>7. Slots'
  BY <1>1, <1>6 DEF GInv, Slots, StageWaits
<1>8. HeldRight' /\ OneRound' /\ NoDraftLeft'
  BY <1>1 DEF GInv, HeldRight, OneRound, Served, Told, NoDraftLeft
<1> QED BY <1>4, <1>7, <1>8 DEF GInv

\* An armed brush is put down.
LEMMA Disarms ==
    ASSUME GesturesAssumption, GInv, Disarm
    PROVE  GInv'
<1> DEFINE said == Cancelled(draft)
           e == said.draft
<1>1. /\ slot = "open" /\ kind = "brush" /\ ~drawn /\ slot' = "closing"
      /\ draft' = e /\ calls' = calls \union Sent(said)
      /\ UNCHANGED <<ownerRevision, held, replies, known, serial, kind, drawn, crop,
                     newest, refused, committed>>
  BY DEF Disarm, Armed, owner
<1>2. /\ draft \in Cores /\ draft.flight # "set" /\ draft.base <= ownerRevision
      /\ Fit(draft, kind, drawn, crop, held, newest, refused) /\ StageWaits
      /\ ~Closing(draft) /\ draft.gesture = serial
  BY <1>1 DEF GInv, Slots
<1>3. GestureTypeOK
  BY DEF GInv
<1>4. newest \in 0 .. MaxOffers
  BY <1>3 DEF GestureTypeOK
<1>5. /\ Follows(draft, said, kind, drawn, crop, held, newest, refused)
      /\ said.step \in {"none", "cancel"} /\ e.finish = "cancel"
  BY <1>2, <1>4, CancelledFollows
<1> HIDE DEF said
<1>6. /\ e \in Cores /\ e.gesture = draft.gesture /\ e.base = draft.base
      /\ Fit(e, kind, drawn, crop, held, newest, refused)
      /\ draft.conflicted => e.conflicted
      /\ \/ said.step = "none" /\ e.flight = draft.flight
         \/ said.step = "cancel" /\ draft.flight = "none" /\ e.flight = "cancel"
  BY <1>5 DEF Follows
<1>7. Closing(e)
  <2>1. draft.flight # "commit"
    BY <1>1, <1>2 DEF Fit, HasOffered
  <2> QED BY <1>5, <1>6, <2>1 DEF Closing
<1>8. /\ said.step = "none" => Sent(said) = {}
      /\ said.step = "cancel" =>
            Sent(said) = {[call |-> "cancel", gesture |-> e.gesture, displaced |-> 0, expected |-> e.base]}
  BY DEF Sent, Request
<1>9. Slots'
  BY <1>1, <1>2, <1>6, <1>7 DEF Slots, StageWaits
<1>10. HeldRight'
  <2>1. e.id # 0 => draft.id # 0
    BY <1>2, <1>6 DEF Fit, Standing
  <2> QED BY <1>1, <1>6, <2>1 DEF GInv, HeldRight
<1>13. NoDraftLeft'
  BY <1>1, <1>6 DEF GInv, NoDraftLeft
<1>11. CASE said.step = "none"
  <2>1. calls' = calls
    BY <1>1, <1>8, <1>11
  <2>2. OneRound'
    BY <1>1, <1>6, <1>11, <2>1 DEF GInv, OneRound, Served, Told
  <2>3. /\ e.gesture \in 0 .. MaxGestures /\ e.id \in {0, e.gesture}
        /\ e.base \in 1 .. ownerRevision /\ e.flight \in Rounds \union {"none"}
        /\ e.pending \in 0 .. MaxOffers /\ e.sent \in 0 .. MaxOffers
        /\ e.finish \in {"none", "commit", "cancel"}
    BY <1>2, <1>3, <1>6, <1>11 DEF GestureTypeOK, Cores, Fit, Standing, Gestures
  <2>4. GestureTypeOK'
    BY <1>1, <1>3, <2>1, <2>3 DEF GestureTypeOK
  <2> QED BY <1>9, <1>10, <1>13, <2>2, <2>4 DEF GInv
<1>12. CASE said.step = "cancel"
  <2>1. calls = {} /\ replies = {}
    BY <1>6, <1>12 DEF GInv, OneRound, Served, Told, GestureTypeOK, Rounds
  <2>2. calls' = {[call |-> "cancel", gesture |-> e.gesture, displaced |-> 0, expected |-> e.base]}
    BY <1>1, <1>8, <1>12, <2>1
  <2>3. OneRound'
    BY <1>1, <1>6, <1>12, <2>1, <2>2 DEF OneRound, Served
  <2>4. /\ e.gesture \in Gestures /\ e.gesture \in 0 .. MaxGestures /\ e.id \in {0, e.gesture}
        /\ e.base \in 1 .. ownerRevision /\ e.base \in 1 .. LastRevision
        /\ e.flight \in Rounds \union {"none"}
        /\ e.pending \in 0 .. MaxOffers /\ e.sent \in 0 .. MaxOffers
        /\ e.finish \in {"none", "commit", "cancel"} /\ 0 \in 0 .. MaxGestures
    BY <1>2, <1>3, <1>6, <1>12 DEF GestureTypeOK, Cores, Fit, Standing, Gestures, Rounds, GesturesAssumption
  <2>5. GestureTypeOK'
    BY <1>1, <1>3, <2>2, <2>4 DEF GestureTypeOK, Rounds
  <2> QED BY <1>9, <1>10, <1>13, <2>3, <2>5 DEF GInv
<1> QED BY <1>5, <1>11, <1>12

\* What the owner may leave of a call.
\* A call that the owner serves, by what it leaves of the draft it holds.
LEMMA ServedKeeps ==
    ASSUME GesturesAssumption, GInv, NEW c \in calls, NEW outcome \in Outcomes,
           Serve(c, outcome),
           ownerRevision' \in ownerRevision .. LastRevision,
           held' \in CoreDrafts, held'.id = 0 => held' = NothingHeld,
           held'.id # 0 => held'.base \in 1 .. ownerRevision' /\ held'.id = draft.gesture,
           held'.id = draft.gesture /\ c.call # "begin" => held.id = draft.gesture /\ held'.fields = held.fields,
           held'.id = draft.gesture /\ c.call = "begin" => held'.fields = 0,
           c.call = "begin" => IF outcome = "ok" THEN held'.id = c.gesture ELSE held'.id = 0,
           c.call = "commit" /\ outcome \in {"ok", "noop"} => held'.id = 0,
           c.call = "cancel" => held'.id = 0,
           c.call = "reapply" /\ outcome = "ok" => held'.base \in 1 .. ownerRevision',
           committed' \subseteq Gestures
    PROVE  GInv'
<1> DEFINE a == Reply(c, outcome, held')
<1>1. /\ Served(c) /\ calls = {c} /\ replies = {}
  BY DEF GInv, OneRound
<1>2. /\ calls' = {} /\ replies' = {a}
      /\ UNCHANGED <<known, serial, slot, kind, drawn, draft, crop, newest, refused>>
  BY <1>1 DEF Serve, desktop
<1>3. /\ a.call = c.call /\ a.gesture = c.gesture /\ a.outcome = outcome /\ a.draft = held'
  BY DEF Reply
<1> HIDE DEF a
<1>4. GestureTypeOK
  BY DEF GInv
<1>5. /\ ownerRevision \in 1 .. LastRevision /\ known \in 1 .. ownerRevision
      /\ LastRevision \in Nat
      /\ c.call \in Rounds /\ c.gesture \in Gestures
      /\ slot \in {"none", "open", "closing"}
  BY <1>4 DEF GestureTypeOK, GesturesAssumption
<1>6. /\ ownerRevision' \in 1 .. LastRevision /\ known' \in 1 .. ownerRevision'
      /\ ownerRevision <= ownerRevision' /\ ownerRevision' \in Int
      /\ \A b \in 1 .. ownerRevision : b \in 1 .. ownerRevision'
  BY <1>2, <1>5
<1>7. GestureTypeOK'
  BY <1>2, <1>3, <1>4, <1>5, <1>6 DEF GestureTypeOK
<1>8. slot # "none"
  BY <1>1 DEF GInv, Slots
<1>9. /\ draft \in Cores /\ draft.flight = c.call /\ draft.gesture = c.gesture
      /\ draft.gesture = serial /\ draft.base <= ownerRevision
      /\ Fit(draft, kind, drawn, crop, held, newest, refused)
      /\ StageWaits
  BY <1>1, <1>8 DEF GInv, Slots, Served
<1>10. Fit(draft, kind, drawn, crop, held', newest, refused)
  <2>1. CASE c.call # "begin"
    <3>1. Newest(draft, held, newest, refused) => Newest(draft, held', newest, refused)
      BY <2>1 DEF Newest
    <3> QED BY <1>9, <3>1 DEF Fit
  <2>2. CASE c.call = "begin"
    <3>1. HasOffered(kind, drawn, crop) /\ ~Closing(draft) => Newest(draft, held', newest, refused)
      BY <1>9, <2>2 DEF Fit, Newest, Standing
    <3> QED BY <1>9, <3>1 DEF Fit
  <2> QED BY <2>1, <2>2
<1>11. Slots'
  <2>1. draft.base <= ownerRevision'
    BY <1>5, <1>6, <1>9 DEF Cores
  <2> QED BY <1>2, <1>8, <1>9, <1>10, <2>1 DEF GInv, Slots, StageWaits
<1>12. HeldRight'
  BY <1>2, <1>8 DEF HeldRight
<1>13. OneRound'
  <2>1. c.call = "reapply" => kind # "crop"
    BY <1>1 DEF Served
  <2>2. c.call = "begin" /\ outcome = "ok" => held'.id # 0
    BY <1>5 DEF Gestures
  <2> QED BY <1>2, <1>3, <1>9, <2>1, <2>2 DEF OneRound, Told
<1>14. NoDraftLeft'
  BY <1>2, <1>8 DEF NoDraftLeft
<1> QED BY <1>7, <1>11, <1>12, <1>13, <1>14 DEF GInv

\* Each call the owner serves.
LEMMA Serves ==
    ASSUME GesturesAssumption, GInv, OwnerServes
    PROVE  GInv'
<1> PICK c \in calls : \/ Begins(c) \/ Lands(c) \/ NotCommitted(c)
                       \/ Ends(c) \/ Rebases(c)
  BY DEF OwnerServes
<1>1. /\ held \in CoreDrafts /\ ownerRevision \in 1 .. LastRevision
      /\ LastRevision \in Nat /\ MaxOffers \in Nat /\ MaxGestures \in Nat
      /\ c.gesture \in Gestures /\ committed \subseteq Gestures
      /\ \A x \in Outcomes : x \in {"ok", "noop", "conflict", "failed"}
      /\ {"ok", "noop", "conflict", "failed"} \subseteq Outcomes
  BY DEF GInv, GestureTypeOK, GesturesAssumption, Outcomes
<1>2. Served(c) /\ slot # "none"
  BY DEF GInv, OneRound, Slots
<1>3. /\ held.id = 0 => held = NothingHeld
      /\ held.id # 0 => held.base \in 1 .. ownerRevision
      /\ draft.id # 0 => held.id \in {0, draft.gesture}
      /\ draft.gesture = c.gesture /\ draft.flight = c.call
      /\ c.call # "begin" => held.id \in {0, draft.gesture}
      /\ draft.gesture # 0
  <2>1. draft \in Cores /\ Standing(draft)
    BY <1>2 DEF GInv, Slots, Fit
  <2> QED BY <1>1, <1>2, <2>1 DEF GInv, HeldRight, Served, Standing, Gestures
<1>4. NothingHeld \in CoreDrafts /\ NothingHeld.id = 0
  BY <1>1 DEF NothingHeld, CoreDrafts
<1>5. ownerRevision \in ownerRevision .. LastRevision
  BY <1>1
<1>6. CASE Begins(c)
  <2>1. c.call = "begin" /\ UNCHANGED <<ownerRevision, committed>>
    BY <1>6 DEF Begins
  <2>2. Displaced(c) = NothingHeld
    BY <1>2, <1>3, <2>1 DEF Served, Displaced
  <2>3. CASE /\ held' = [id |-> c.gesture, base |-> ownerRevision, fields |-> 0]
             /\ Serve(c, "ok")
    <3>1. /\ held' \in CoreDrafts /\ held'.id = c.gesture /\ held'.base = ownerRevision
          /\ held'.fields = 0
      BY <1>1, <2>3 DEF CoreDrafts, Gestures
    <3>2. ownerRevision \in 1 .. ownerRevision
      BY <1>1
    <3> QED BY <1>1, <1>3, <1>5, <2>1, <2>3, <3>1, <3>2, ServedKeeps
  <2>4. CASE held' = Displaced(c) /\ Serve(c, "failed")
    BY <1>1, <1>3, <1>4, <1>5, <2>1, <2>2, <2>4, ServedKeeps
  <2> QED BY <1>6, <2>3, <2>4 DEF Begins
<1>7. CASE Lands(c)
  <2>1. /\ c.call = "commit" /\ held' = NothingHeld
        /\ committed' = committed \union {c.gesture}
    BY <1>7 DEF Lands
  <2>2. PICK outcome \in Outcomes : Serve(c, outcome)
    BY <1>1, <1>7 DEF Lands
  <2>3. ownerRevision' \in ownerRevision .. LastRevision
    BY <1>1, <1>7 DEF Lands
  <2>4. committed' \subseteq Gestures
    BY <1>1, <2>1
  <2> QED BY <1>3, <1>4, <2>1, <2>2, <2>3, <2>4, ServedKeeps
<1>8. CASE NotCommitted(c)
  <2>1. /\ c.call = "commit" /\ UNCHANGED <<ownerRevision, held, committed>>
    BY <1>8 DEF NotCommitted, owner
  <2>2. PICK outcome \in {"conflict", "failed"} : Serve(c, outcome)
    BY <1>8 DEF NotCommitted
  <2> QED BY <1>1, <1>3, <1>5, <2>1, <2>2, ServedKeeps
<1>9. CASE Ends(c)
  <2>1. /\ c.call = "cancel" /\ UNCHANGED <<ownerRevision, committed>>
        /\ held' = NothingHeld /\ Serve(c, "ok")
    BY <1>3, <1>9 DEF Ends
  <2> QED BY <1>1, <1>3, <1>4, <1>5, <2>1, ServedKeeps
<1>10. CASE Rebases(c)
  <2>1. /\ c.call = "reapply" /\ UNCHANGED <<ownerRevision, committed>>
    BY <1>10 DEF Rebases
  <2>2. CASE /\ held.id = c.gesture /\ held' = [held EXCEPT !.base = ownerRevision]
             /\ Serve(c, "ok")
    <3>1. /\ held' \in CoreDrafts /\ held'.id = held.id /\ held'.base = ownerRevision
          /\ held'.fields = held.fields
      BY <1>1, <2>2 DEF CoreDrafts
    <3>2. ownerRevision \in 1 .. ownerRevision /\ held.id # 0
      BY <1>1, <1>3, <2>2
    <3> QED BY <1>1, <1>3, <1>5, <2>1, <2>2, <3>1, <3>2, ServedKeeps
  <2>3. CASE UNCHANGED held /\ Serve(c, "failed")
    BY <1>1, <1>3, <1>5, <2>1, <2>3, ServedKeeps
  <2> QED BY <1>10, <2>2, <2>3 DEF Rebases
<1> QED BY <1>6, <1>7, <1>8, <1>9, <1>10

\* Another client commits.
LEMMA Elsewhere ==
    ASSUME GesturesAssumption, GInv, CommitElsewhere
    PROVE  GInv'
<1>1. /\ ownerRevision < LastRevision /\ ownerRevision' = ownerRevision + 1
      /\ UNCHANGED <<held, calls, replies, known, serial, slot, kind, drawn, draft, crop,
                     newest, refused, committed>>
  BY DEF CommitElsewhere, desktop
<1>2. GestureTypeOK
  BY DEF GInv
<1>3. /\ ownerRevision \in 1 .. LastRevision /\ known \in 1 .. ownerRevision
      /\ LastRevision \in Nat
  BY <1>2 DEF GestureTypeOK, GesturesAssumption
<1>4. /\ ownerRevision' \in 1 .. LastRevision /\ known \in 1 .. ownerRevision'
      /\ \A b \in 1 .. ownerRevision : b \in 1 .. ownerRevision'
      /\ \A b \in Int : b <= ownerRevision => b <= ownerRevision'
  BY <1>1, <1>3
<1>5. GestureTypeOK'
  BY <1>1, <1>2, <1>4 DEF GestureTypeOK
<1>6. Slots'
  <2>1. slot # "none" => draft.base \in Int
    BY DEF GInv, Slots, Cores
  <2> QED BY <1>1, <1>4, <2>1 DEF GInv, Slots, StageWaits
<1>7. HeldRight' /\ OneRound' /\ NoDraftLeft'
  BY <1>1, <1>4 DEF GInv, HeldRight, OneRound, Served, Told, NoDraftLeft
<1> QED BY <1>5, <1>6, <1>7 DEF GInv

LEMMA GestureStart ==
    ASSUME GesturesAssumption, GestureInit
    PROVE  GInv
<1>1. /\ NoGesture.gesture = 0 /\ NoGesture.id = 0 /\ NoGesture.flight = "none"
      /\ NoGesture.pending = 0 /\ NoGesture.sent = 0 /\ NoGesture.finish = "none"
      /\ NoCrop \in [frame : BOOLEAN, stage : BOOLEAN]
      /\ 0 \in 0 .. MaxGestures /\ 0 \in 0 .. MaxOffers /\ 0 \in 0 .. LastRevision
      /\ 1 \in 1 .. LastRevision
  BY DEF NoGesture, Opened, NoCrop, GesturesAssumption
<1>2. NothingHeld \in CoreDrafts /\ NothingHeld.id = 0
  BY <1>1 DEF NothingHeld, CoreDrafts
<1>3. GestureTypeOK
  BY <1>1, <1>2 DEF GestureInit, GestureTypeOK
<1>4. Slots /\ HeldRight /\ OneRound /\ NoDraftLeft
  BY <1>2 DEF GestureInit, Slots, HeldRight, OneRound, NoDraftLeft
<1> QED BY <1>3, <1>4 DEF GInv

LEMMA GestureStep ==
    ASSUME GesturesAssumption, GInv, [GestureNext]_gestureVars
    PROVE  GInv'
<1>1. CASE UNCHANGED gestureVars
  BY <1>1 DEF gestureVars, owner, desktop, GInv, GestureTypeOK, Slots, HeldRight, OneRound,
              Served, Told, StageWaits, NoDraftLeft
<1>2. ASSUME NEW k \in Kinds, Start(k) PROVE GInv'
  BY <1>2, Starts
<1>3. CASE Offer \/ Release \/ Discard \/ Reapply
  <2>1. slot = "open"
    BY <1>3 DEF Offer, Release, Discard, Reapply
  <2> QED BY <1>3, <2>1, Advances
<1>4. CASE StageArrives \/ StageFails
  <2>1. slot = "open"
    BY <1>4 DEF StageArrives, StageFails
  <2> QED BY <1>4, <2>1, Stages
<1>5. CASE ReapplyCrop
  BY <1>5, CropReapplies
<1>6. CASE Disarm
  BY <1>6, Disarms
<1>7. CASE OwnerServes
  BY <1>7, Serves
<1>8. CASE CommitElsewhere
  BY <1>8, Elsewhere
<1>9. CASE TakeAnswer
  BY <1>9, TakesAnswer
<1>10. CASE Learn
  BY <1>10, Learns
<1> QED BY <1>1, <1>2, <1>3, <1>4, <1>5, <1>6, <1>7, <1>8, <1>9, <1>10 DEF GestureNext

\* What the invariant says of the states.
LEMMA GestureFacts ==
    ASSUME GesturesAssumption, GInv
    PROVE  GestureTypeOK /\ AnswersWanted /\ BeginFindsRoom /\ NoDraftLeft
<1>1. GestureTypeOK
  BY DEF GInv
<1>2. AnswersWanted
  <2>1. ASSUME NEW c \in calls PROVE slot # "none" /\ draft.gesture = c.gesture /\ draft.flight = c.call
    BY DEF GInv, OneRound, Slots, Served
  <2>2. ASSUME NEW a \in replies PROVE slot # "none" /\ draft.gesture = a.gesture /\ draft.flight = a.call
    BY DEF GInv, OneRound, Slots, Told
  <2> QED BY <2>1, <2>2 DEF AnswersWanted
<1>3. BeginFindsRoom
  BY DEF GInv, OneRound, Served, BeginFindsRoom
<1>4. NoDraftLeft
  BY DEF GInv
<1> QED BY <1>1, <1>2, <1>3, <1>4

\* What it says of a step that commits.
LEMMA CommitStep ==
    ASSUME GesturesAssumption, GInv, [GestureNext]_gestureVars
    PROVE  /\ committed' # committed => held.fields = newest \/ newest \in refused
           /\ \A g \in committed' \ committed : ~(slot = "closing" /\ draft.gesture = g)
<1>1. CASE committed' = committed
  BY <1>1
<1>2. CASE committed' # committed
  <2>1. PICK c \in calls : Lands(c)
    <3>1. OwnerServes
      BY <1>2 DEF GestureNext, gestureVars, Start, Offer, Release, Discard, Reapply, ReapplyCrop,
                  Disarm, StageArrives, StageFails, CommitElsewhere, TakeAnswer, TakeBegun,
                  TakeCommitted, TakeRefused, TakeReapplied, TakeCancelled, Taken, Learn
    <3> QED BY <1>2, <3>1 DEF OwnerServes, Begins, NotCommitted, Ends, Rebases
  <2>2. /\ c.call = "commit" /\ held.id = c.gesture
        /\ committed' = committed \union {c.gesture}
    BY <2>1 DEF Lands
  <2>3. /\ draft.flight = "commit" /\ draft.gesture = c.gesture /\ slot # "none"
    BY <2>2 DEF GInv, OneRound, Served, Slots
  <2>4. /\ Fit(draft, kind, drawn, crop, held, newest, refused) /\ ~Closing(draft)
        /\ slot # "closing"
    BY <2>3 DEF GInv, Slots, Closing
  <2>5. Newest(draft, held, newest, refused) /\ draft.sent = newest
    BY <2>3, <2>4 DEF Fit
  <2> QED BY <2>2, <2>3, <2>4, <2>5 DEF Newest
<1> QED BY <1>1, <1>2

\* No answer finds another gesture in its place, a begin finds the owner
\* free of other drafts, no draft is left there that no gesture answers
\* for, what a release commits is the newest fields offered unless the
\* owner refused them, and a gesture discarded commits nothing: for any
\* numbers of gestures, offers and revisions, with calls refused or not.
THEOREM GesturesCorrect ==
    ASSUME GesturesAssumption
    PROVE  GestureSpec => GesturesHold
<1>1. GestureInit => GInv
  BY GestureStart
<1>2. GInv /\ [GestureNext]_gestureVars => GInv'
  BY GestureStep
<1>3. GInv => GestureTypeOK /\ AnswersWanted /\ BeginFindsRoom /\ NoDraftLeft
  BY GestureFacts
<1>4. GInv /\ [GestureNext]_gestureVars =>
        [committed' # committed => held.fields = newest \/ newest \in refused]_gestureVars
  BY CommitStep
<1>5. GInv /\ [GestureNext]_gestureVars =>
        [\A g \in committed' \ committed : ~(slot = "closing" /\ draft.gesture = g)]_gestureVars
  BY CommitStep
<1> QED BY <1>1, <1>2, <1>3, <1>4, <1>5, PTL
        DEF GestureSpec, GesturesHold, CommitsNewest, DiscardedStays

-----------------------------------------------------------------------------
\* The desktop's sync.  An inductive invariant, SyncInv, says what every
\* task on its way will bring and what is left to read when it is lost.

\* The revision and the library after the first n changes.
RevisionAt(p, n) == IF n = 0 THEN 0 ELSE p[n].revision
LibraryAt(p, n) == IF n = 0 THEN 0 ELSE p[n].library

RevisionMoved(p, s) == RevisionAt(p, s) # RevisionAt(p, s - 1)
LibraryMoved(p, s) == LibraryAt(p, s) # LibraryAt(p, s - 1)

SyncEvent == [sequence : Nat, request : Nat, kind : {"asset", "preset"}]

\* The events held are the newest ones and numbered without a break.
EventsOk(l) ==
    /\ l \in [events : Seq(SyncEvent), sequence : Nat]
    /\ Len(l.events) <= EVENT_CAPACITY /\ Len(l.events) <= l.sequence
    /\ \A i \in 1 .. Len(l.events) :
          l.events[i].sequence = l.sequence - Len(l.events) + i

EventsHeld(l) == {l.events[i] : i \in 1 .. Len(l.events)}

\* The tasks as they are on their way.
Reading == {"presets", "state", "versions", "session", "answer"}

Listening == [at : {"since", "failed"}, after : Nat, own : Seq(Nat)]

Polls ==
    [at : Reading \union {"failed"}, sequence : Nat, skipped : SUBSET Nat,
     listed : BOOLEAN, library : Nat, listedAt : Nat, asset : BOOLEAN, whole : BOOLEAN,
     answered : Nat, revision : Nat, versions : Nat, generation : Nat]

Commands ==
    [at : {"send", "state", "versions", "session", "answer", "failed"},
     kind : {"edit", "version"}, request : Nat, whole : BOOLEAN, answered : Nat,
     revision : Nat, versions : Nat, generation : Nat]

LibraryChanges ==
    [at : {"send", "list", "answer", "failed"}, request : Nat, library : Nat, listedAt : Nat]

Comparisons == [at : {"send", "answer"}, kind : {"compare", "select"}, generation : Nat]

NumbersTyped ==
    /\ generation \in Nat /\ seenGeneration \in Nat /\ requests \in Nat
    /\ apiSequence \in Nat /\ librarySequence \in Nat
    /\ signal \in BOOLEAN /\ syncWanted \in BOOLEAN /\ busy \in BOOLEAN
    /\ unread \in BOOLEAN /\ unreadOwn \in BOOLEAN
    /\ screen \in Values
    /\ ownRequests \in Seq(Nat) /\ Len(ownRequests) <= OWN_REQUESTS

TasksTyped ==
    /\ poll \in {NoTask} \union Listening \union Polls
    /\ command \in {NoTask} \union Commands
    /\ change \in {NoTask} \union LibraryChanges
    /\ compare \in {NoTask} \union Comparisons

\* What was counted up to an event is no more than what is counted later.
PastOk(p, l, t) ==
    /\ p \in Seq(Values) /\ t \in Values
    /\ Len(p) = l.sequence
    /\ t.revision = RevisionAt(p, l.sequence) /\ t.library = LibraryAt(p, l.sequence)
    /\ \A i, j \in 0 .. l.sequence :
          i <= j => /\ RevisionAt(p, i) <= RevisionAt(p, j)
                    /\ LibraryAt(p, i) <= LibraryAt(p, j)

\* An event tells which value moved, and whose request it was.
EventTells(p, asked, e) ==
    /\ e.sequence \in 1 .. Len(p)
    /\ e.kind = "preset" => ~RevisionMoved(p, e.sequence)
    /\ e.kind = "asset" => ~LibraryMoved(p, e.sequence)
    /\ e.request <= asked

EventsTell(p, l, asked) == \A e \in EventsHeld(l) : EventTells(p, asked, e)

\* What an event changed has reached the screen.
EventLanded(p, seen, e) ==
    /\ RevisionMoved(p, e.sequence) => RevisionAt(p, e.sequence) <= seen.revision
    /\ LibraryMoved(p, e.sequence) => LibraryAt(p, e.sequence) <= seen.library

RingIds(ring) == {ring[i] : i \in 1 .. Len(ring)}

\* The requests of a ring were asked, and are on the screen.
RingShown(p, l, seen, asked, ids) ==
    /\ ids \subseteq 1 .. asked
    /\ \A e \in EventsHeld(l) : e.request \in ids => EventLanded(p, seen, e)

\* A request on its way is in no ring.
OnItsWay(asked, ring, listen, r) ==
    /\ r \in 1 .. asked /\ r \notin RingIds(ring)
    /\ listen.at = "since" => r \notin RingIds(listen.own)

\* A change of a command on its way is in what its answer holds, once read.
CommandEvent(p, c, e) ==
    e.request = c.request =>
        /\ e.kind = "asset" /\ c.at # "send"
        /\ RevisionMoved(p, e.sequence) =>
              /\ c.kind = "edit"
              /\ c.at \in {"versions", "session", "answer"} =>
                    RevisionAt(p, e.sequence) <= c.revision

CommandTells ==
    command # NoTask =>
        /\ OnItsWay(requests, ownRequests, poll, command.request)
        /\ command.revision <= truth.revision
        /\ change # NoTask => change.request # command.request
        /\ \A e \in EventsHeld(log) : CommandEvent(past, command, e)

ChangeEvent(c, e) ==
    e.request = c.request =>
        /\ e.kind = "preset" /\ c.at # "send"
        /\ c.at = "answer" => e.sequence <= c.listedAt

ChangeTells ==
    change # NoTask =>
        /\ OnItsWay(requests, ownRequests, poll, change.request)
        /\ change.at = "answer" =>
              /\ change.listedAt <= log.sequence
              /\ change.library = LibraryAt(past, change.listedAt)
        /\ \A e \in EventsHeld(log) : ChangeEvent(change, e)

\* What a poll has read.
PollRead(p, l, t, seen, read) ==
    read.at \in Reading =>
        /\ read.sequence <= l.sequence
        /\ read.at = "presets" => read.listed
        /\ read.at \in {"state", "versions", "session"} => read.asset
        /\ ~read.asset => RevisionAt(p, read.sequence) <= seen.revision
        /\ ~read.listed => LibraryAt(p, read.sequence) <= seen.library
        /\ read.asset /\ read.at \in {"versions", "session", "answer"} =>
              /\ RevisionAt(p, read.sequence) <= read.revision
              /\ read.revision <= t.revision
        /\ read.listed /\ read.at # "presets" =>
              /\ read.sequence <= read.listedAt /\ read.listedAt <= l.sequence
              /\ read.library = LibraryAt(p, read.listedAt)

PollTells ==
    /\ poll.at = "since" =>
          /\ poll.after = apiSequence
          /\ RingShown(past, log, screen, requests, RingIds(poll.own))
    /\ PollRead(past, log, truth, screen, poll)

\* The screen is of the past, and not before the cursor.
ScreenTells ==
    /\ screen.revision <= truth.revision
    /\ librarySequence <= log.sequence
    /\ screen.library = LibraryAt(past, librarySequence)
    /\ apiSequence <= log.sequence
    /\ RevisionAt(past, apiSequence) <= screen.revision
    /\ LibraryAt(past, apiSequence) <= screen.library

\* A request of the desktop's own keeps it busy, and there is one.
Selecting == compare # NoTask /\ compare.kind = "select"

BusyTells ==
    /\ command # NoTask => busy /\ ~Selecting
    /\ Selecting => busy

Wanted == syncWanted \/ unread \/ unreadOwn \/ poll.at \in {"since", "failed"}

\* The revision on the screen is the newest one, or is going to be read.
RevisionInPoll ==
    \/ poll.at \in {"presets", "state"} /\ poll.asset
    \/ /\ poll.at \in {"versions", "session", "answer"} /\ poll.asset
       /\ poll.revision = truth.revision

RevisionInCommand ==
    /\ command # NoTask /\ command.kind = "edit"
    /\ \/ command.at \in {"state", "failed"}
       \/ /\ command.at \in {"versions", "session", "answer"}
          /\ command.revision = truth.revision

RevisionComes ==
    \/ screen.revision = truth.revision \/ signal \/ Wanted
    \/ RevisionInPoll \/ RevisionInCommand
    \/ busy /\ command = NoTask /\ ~Selecting

LibraryInPoll ==
    \/ poll.at = "presets"
    \/ poll.at \in Reading /\ poll.listed /\ poll.library = truth.library

LibraryInChange ==
    \/ change.at \in {"list", "failed"}
    \/ change.at = "answer" /\ change.library = truth.library

LibraryComes ==
    screen.library = truth.library \/ signal \/ Wanted \/ LibraryInPoll \/ LibraryInChange

SyncInv ==
    /\ NumbersTyped /\ TasksTyped /\ EventsOk(log) /\ PastOk(past, log, truth)
    /\ EventsTell(past, log, requests)
    /\ RingShown(past, log, screen, requests, RingIds(ownRequests))
    /\ CommandTells /\ ChangeTells /\ PollTells /\ ScreenTells /\ BusyTells
    /\ RevisionComes /\ LibraryComes

\* A function on 0 .. n that is given by its first value and its steps.
Runs(f, n, first, step) ==
    f[0] = first /\ \A i \in 1 .. n : f[i] = step[i][f[i - 1]]

\* A function given that way exists, of any length.
LEMMA Recursion ==
    ASSUME NEW n \in Nat, NEW V, NEW first \in V, NEW step \in [1 .. n -> [V -> V]]
    PROVE  \E f \in [0 .. n -> V] : Runs(f, n, first, step)
<1> DEFINE S == {k \in Nat : k <= n => \E f \in [0 .. k -> V] : Runs(f, k, first, step)}
<1>1. 0 \in S
  <2> DEFINE f == [i \in 0 .. 0 |-> first]
  <2>1. f \in [0 .. 0 -> V] /\ f[0] = first
    OBVIOUS
  <2>2. Runs(f, 0, first, step)
    BY <2>1 DEF Runs
  <2> QED BY <2>1, <2>2
<1>2. ASSUME NEW k \in Nat, k \in S PROVE k + 1 \in S
  <2> SUFFICES ASSUME k + 1 <= n
               PROVE  \E f \in [0 .. k + 1 -> V] : Runs(f, k + 1, first, step)
    OBVIOUS
  <2>1. PICK f \in [0 .. k -> V] : Runs(f, k, first, step)
    BY <1>2
  <2> DEFINE last == step[k + 1][f[k]]
             g == [i \in 0 .. k + 1 |-> IF i = k + 1 THEN last ELSE f[i]]
  <2>2. last \in V
    <3>1. k + 1 \in 1 .. n /\ f[k] \in V
      OBVIOUS
    <3>2. step[k + 1] \in [V -> V]
      BY <3>1
    <3> QED BY <3>1, <3>2
  <2>3. g \in [0 .. k + 1 -> V]
    <3>1. \A i \in 0 .. k + 1 : i # k + 1 => i \in 0 .. k
      OBVIOUS
    <3> QED BY <2>2, <3>1
  <2>4. \A i \in 0 .. k + 1 : g[i] = IF i = k + 1 THEN last ELSE f[i]
    OBVIOUS
  <2> HIDE DEF g
  <2>5. g[0] = first
    BY <2>1, <2>4 DEF Runs
  <2>6. ASSUME NEW i \in 1 .. k + 1 PROVE g[i] = step[i][g[i - 1]]
    <3>1. i \in 0 .. k + 1 /\ i - 1 \in 0 .. k + 1 /\ i - 1 # k + 1 /\ i - 1 \in 0 .. k
      OBVIOUS
    <3>2. g[i - 1] = f[i - 1]
      BY <2>4, <3>1
    <3>3. CASE i = k + 1
      <4>1. i - 1 = k /\ g[i] = last
        BY <2>4, <3>1, <3>3
      <4> QED BY <3>2, <3>3, <4>1
    <3>4. CASE i # k + 1
      <4>1. i \in 1 .. k /\ g[i] = f[i]
        BY <2>4, <3>1, <3>4
      <4> QED BY <2>1, <3>2, <4>1 DEF Runs
    <3> QED BY <3>3, <3>4
  <2>7. Runs(g, k + 1, first, step)
    BY <2>5, <2>6 DEF Runs
  <2> QED BY <2>3, <2>7
<1> HIDE DEF S
<1>3. n \in S
  <2>1. Nat \subseteq S
    BY <1>1, <1>2, Induction
  <2> QED BY <2>1
<1> QED BY <1>3 DEF S

-----------------------------------------------------------------------------
\* What is kept of a sequence, one element at a time.
Filters(t, s, keep) ==
    t = [i \in 0 .. Len(s) |->
            IF i = 0 THEN << >>
            ELSE IF keep[i] THEN Append(t[i - 1], s[i]) ELSE t[i - 1]]

ElementsOf(s) == {s[i] : i \in 1 .. Len(s)}
KeptOf(s, keep) == {s[i] : i \in {j \in 1 .. Len(s) : keep[j]}}

\* Each sequence has its filtering, a function on 0 .. Len(s).
LEMMA FilterIs ==
    ASSUME NEW V, NEW s \in Seq(V), NEW keep \in [1 .. Len(s) -> BOOLEAN]
    PROVE  \E t : Filters(t, s, keep)
<1> DEFINE k == Len(s)
           W == Seq(V)
           TakenInto(i, r) == IF keep[i] THEN Append(r, s[i]) ELSE r
           step == [i \in 1 .. k |-> [r \in W |-> TakenInto(i, r)]]
<1>1. k \in Nat /\ \A i \in 1 .. k : s[i] \in V
  BY LenProperties
<1>2. \A i \in 1 .. k, r \in W : TakenInto(i, r) \in W
  BY <1>1, AppendProperties
<1> HIDE DEF TakenInto
<1>3. /\ step \in [1 .. k -> [W -> W]]
      /\ \A i \in 1 .. k, r \in W : step[i][r] = TakenInto(i, r)
  BY <1>2
<1>4. <<>> \in W
  BY EmptySeq
<1> HIDE DEF step, W
<1>5. PICK f \in [0 .. k -> W] : Runs(f, k, <<>>, step)
  BY <1>1, <1>3, <1>4, Recursion
<1>6. \A i \in 1 .. k : f[i] = TakenInto(i, f[i - 1])
  <2> SUFFICES ASSUME NEW i \in 1 .. k PROVE f[i] = TakenInto(i, f[i - 1])
    OBVIOUS
  <2>1. i - 1 \in 0 .. k
    BY <1>1
  <2>2. f[i - 1] \in W
    BY <2>1
  <2> QED BY <1>3, <1>5, <2>2 DEF Runs
<1>7. \A i \in 0 .. k : i # 0 => i \in 1 .. k
  BY <1>1
<1>8. Filters(f, s, keep)
  BY <1>5, <1>6, <1>7 DEF TakenInto, Runs, Filters
<1> QED BY <1>8

\* Its last value is a sequence of the elements kept, no longer than s.
LEMMA FilterKeeps ==
    ASSUME NEW V, NEW s \in Seq(V), NEW keep \in [1 .. Len(s) -> BOOLEAN],
           NEW t, Filters(t, s, keep)
    PROVE  /\ t[Len(s)] \in Seq(V) /\ Len(t[Len(s)]) <= Len(s)
           /\ ElementsOf(t[Len(s)]) = KeptOf(s, keep)
<1> DEFINE k == Len(s)
           First(i) == {s[j] : j \in {h \in 1 .. i : keep[h]}}
           Good(i) == t[i] \in Seq(V) /\ Len(t[i]) <= i /\ ElementsOf(t[i]) = First(i)
           S == {i \in Nat : i <= k => Good(i)}
<1>1. k \in Nat /\ \A i \in 1 .. k : s[i] \in V
  BY LenProperties
<1>2. \A i \in 0 .. k : t[i] = IF i = 0 THEN << >>
            ELSE IF keep[i] THEN Append(t[i - 1], s[i]) ELSE t[i - 1]
  BY DEF Filters
<1>3. 0 \in S
  <2>1. t[0] = <<>> /\ <<>> \in Seq(V) /\ Len(<<>>) = 0
    BY <1>1, <1>2, EmptySeq
  <2>2. ElementsOf(<<>>) = {} /\ First(0) = {}
    BY <2>1 DEF ElementsOf
  <2> HIDE DEF First
  <2>3. Len(t[0]) <= 0
    BY ONLY <2>1
  <2>4. ElementsOf(t[0]) = First(0)
    BY ONLY <2>1, <2>2
  <2>5. t[0] \in Seq(V)
    BY ONLY <2>1
  <2>6. Good(0)
    BY ONLY <2>3, <2>4, <2>5
  <2> QED BY <2>6
<1>4. ASSUME NEW i \in Nat, i \in S PROVE i + 1 \in S
  <2> SUFFICES ASSUME i + 1 <= k PROVE Good(i + 1)
    OBVIOUS
  <2>1. Good(i) /\ i + 1 \in 1 .. k /\ i + 1 \in 0 .. k /\ i + 1 # 0 /\ (i + 1) - 1 = i
    BY <1>1, <1>4
  <2>2. t[i + 1] = IF keep[i + 1] THEN Append(t[i], s[i + 1]) ELSE t[i]
    BY <1>2, <2>1
  <2>3. \A j \in 1 .. i + 1 : j \in 1 .. i \/ j = i + 1
    OBVIOUS
  <2>4. i + 1 \in 1 .. i + 1 /\ \A j \in 1 .. i : j \in 1 .. i + 1
    OBVIOUS
  <2>5. CASE keep[i + 1]
    <3>1. First(i + 1) = First(i) \union {s[i + 1]}
      BY <2>3, <2>4, <2>5
    <3> DEFINE u == Append(t[i], s[i + 1])
    <3>2. /\ u \in Seq(V) /\ Len(u) = Len(t[i]) + 1 /\ Len(t[i]) \in Nat
          /\ \A j \in 1 .. Len(t[i]) : u[j] = t[i][j]
          /\ u[Len(t[i]) + 1] = s[i + 1]
      BY <1>1, <2>1, AppendProperties, LenProperties
    <3>3. t[i + 1] = u
      BY <2>2, <2>5
    <3> HIDE DEF u, First
    <3>4. ElementsOf(u) = ElementsOf(t[i]) \union {s[i + 1]}
      <4>1. \A j \in 1 .. Len(u) : j \in 1 .. Len(t[i]) \/ j = Len(t[i]) + 1
        BY <3>2
      <4>2. Len(t[i]) + 1 \in 1 .. Len(u) /\ \A j \in 1 .. Len(t[i]) : j \in 1 .. Len(u)
        BY <3>2
      <4> QED BY <3>2, <4>1, <4>2 DEF ElementsOf
    <3>5. Len(u) <= i + 1
      BY <2>1, <3>2
    <3> QED BY <2>1, <3>1, <3>2, <3>3, <3>4, <3>5
  <2>6. CASE ~keep[i + 1]
    <3>1. First(i + 1) = First(i)
      BY <2>3, <2>4, <2>6
    <3> HIDE DEF First
    <3>2. t[i + 1] = t[i] /\ Len(t[i]) \in Nat
      BY <2>1, <2>2, <2>6, LenProperties
    <3> QED BY <2>1, <3>1, <3>2
  <2> QED BY <2>5, <2>6
<1> HIDE DEF S
<1>5. k \in S
  <2>1. Nat \subseteq S
    BY <1>3, <1>4, Induction
  <2> QED BY <1>1, <2>1
<1>6. Good(k)
  <2> HIDE DEF Good
  <2> QED BY <1>1, <1>5 DEF S
<1> QED BY <1>6 DEF KeptOf

\* The events after a sequence.
LEMMA AfterEvents ==
    ASSUME NEW events \in Seq(SyncEvent), NEW after \in Nat
    PROVE  /\ After(events, after) \in Seq(SyncEvent)
           /\ ElementsOf(After(events, after)) =
                 {e \in ElementsOf(events) : e.sequence > after}
<1> DEFINE keep == [i \in 1 .. Len(events) |-> events[i].sequence > after]
           t == CHOOSE f : f = [i \in 0 .. Len(events) |->
                      IF i = 0 THEN << >>
                      ELSE IF events[i].sequence > after THEN Append(f[i - 1], events[i])
                      ELSE f[i - 1]]
<1>1. /\ keep \in [1 .. Len(events) -> BOOLEAN] /\ Len(events) \in Nat
      /\ \A i \in 1 .. Len(events) : keep[i] <=> events[i].sequence > after
  <2>1. Len(events) \in Nat /\ \A i \in 1 .. Len(events) : events[i] \in SyncEvent
    BY LenProperties
  <2>2. \A i \in 1 .. Len(events) : (events[i].sequence > after) \in BOOLEAN
    BY <2>1 DEF SyncEvent
  <2> QED BY <2>1, <2>2
<1>2. \A i \in 0 .. Len(events) : i # 0 => i \in 1 .. Len(events)
  BY <1>1
<1> HIDE DEF keep
<1>3. PICK f : Filters(f, events, keep)
  BY <1>1, FilterIs
<1>4. f = [i \in 0 .. Len(events) |->
              IF i = 0 THEN << >>
              ELSE IF events[i].sequence > after THEN Append(f[i - 1], events[i])
              ELSE f[i - 1]]
  BY <1>1, <1>2, <1>3 DEF Filters
<1>5. t = [i \in 0 .. Len(events) |->
              IF i = 0 THEN << >>
              ELSE IF events[i].sequence > after THEN Append(t[i - 1], events[i])
              ELSE t[i - 1]]
  BY <1>4
<1>6. After(events, after) = t[Len(events)]
  BY DEF After
<1> HIDE DEF t
<1>7. Filters(t, events, keep)
  BY <1>1, <1>2, <1>5 DEF Filters
<1>8. /\ t[Len(events)] \in Seq(SyncEvent)
      /\ ElementsOf(t[Len(events)]) = KeptOf(events, keep)
  BY <1>1, <1>7, FilterKeeps
<1>9. KeptOf(events, keep) = {e \in ElementsOf(events) : e.sequence > after}
  BY <1>1 DEF ElementsOf, KeptOf
<1> QED BY <1>6, <1>8, <1>9

\* The own requests that no poll has met.
LEMMA UnseenLeaves ==
    ASSUME NEW ring \in Seq(Nat), NEW met
    PROVE  /\ Unseen(ring, met) \in Seq(Nat) /\ Len(Unseen(ring, met)) <= Len(ring)
           /\ RingIds(Unseen(ring, met)) \subseteq RingIds(ring)
<1> DEFINE keep == [i \in 1 .. Len(ring) |-> ring[i] \notin met]
           t == CHOOSE f : f = [i \in 0 .. Len(ring) |->
                      IF i = 0 THEN << >>
                      ELSE IF ring[i] \in met THEN f[i - 1] ELSE Append(f[i - 1], ring[i])]
<1>1. /\ keep \in [1 .. Len(ring) -> BOOLEAN] /\ Len(ring) \in Nat
      /\ \A i \in 1 .. Len(ring) : keep[i] <=> ring[i] \notin met
  BY LenProperties
<1>2. \A i \in 0 .. Len(ring) : i # 0 => i \in 1 .. Len(ring)
  BY <1>1
<1> HIDE DEF keep
<1>3. PICK f : Filters(f, ring, keep)
  BY <1>1, FilterIs
<1>4. f = [i \in 0 .. Len(ring) |->
              IF i = 0 THEN << >>
              ELSE IF ring[i] \in met THEN f[i - 1] ELSE Append(f[i - 1], ring[i])]
  BY <1>1, <1>2, <1>3 DEF Filters
<1>5. t = [i \in 0 .. Len(ring) |->
              IF i = 0 THEN << >>
              ELSE IF ring[i] \in met THEN t[i - 1] ELSE Append(t[i - 1], ring[i])]
  BY <1>4
<1>6. Unseen(ring, met) = t[Len(ring)]
  BY DEF Unseen
<1> HIDE DEF t
<1>7. Filters(t, ring, keep)
  BY <1>1, <1>2, <1>5 DEF Filters
<1>8. /\ t[Len(ring)] \in Seq(Nat) /\ Len(t[Len(ring)]) <= Len(ring)
      /\ ElementsOf(t[Len(ring)]) = KeptOf(ring, keep)
  BY <1>1, <1>7, FilterKeeps
<1>9. RingIds(t[Len(ring)]) \subseteq RingIds(ring)
  BY <1>8 DEF ElementsOf, KeptOf, RingIds
<1> QED BY <1>6, <1>8, <1>9

\* What is below a bound, and moves only below it, stays below it.
LEMMA Climbs ==
    ASSUME NEW f, NEW a \in Nat, NEW b \in Nat, NEW v \in Nat, a <= b, f[a] <= v,
           \A s \in a + 1 .. b : f[s] # f[s - 1] => f[s] <= v
    PROVE  f[b] <= v
<1> DEFINE S == {k \in Nat : a + k <= b => f[a + k] <= v}
<1>1. 0 \in S
  <2>1. a + 0 = a
    OBVIOUS
  <2> QED BY <2>1
<1>2. ASSUME NEW k \in Nat, k \in S PROVE k + 1 \in S
  <2> SUFFICES ASSUME a + (k + 1) <= b PROVE f[a + (k + 1)] <= v
    OBVIOUS
  <2>1. /\ a + (k + 1) \in a + 1 .. b /\ (a + (k + 1)) - 1 = a + k /\ a + k <= b
    OBVIOUS
  <2>2. f[a + k] <= v
    BY <1>2, <2>1
  <2>3. CASE f[a + (k + 1)] = f[a + k]
    BY <2>2, <2>3
  <2>4. CASE f[a + (k + 1)] # f[a + k]
    <3>1. f[a + (k + 1)] # f[(a + (k + 1)) - 1]
      BY <2>1, <2>4
    <3> QED BY <2>1, <3>1
  <2> QED BY <2>3, <2>4
<1> HIDE DEF S
<1>3. b - a \in S
  <2>1. Nat \subseteq S
    BY <1>1, <1>2, Induction
  <2>2. b - a \in Nat
    OBVIOUS
  <2> QED BY <2>1, <2>2
<1>4. a + (b - a) = b /\ b <= b
  OBVIOUS
<1> QED BY <1>3, <1>4 DEF S

-----------------------------------------------------------------------------
\* The log and the past.

\* Making room drops the oldest event of a full log, and nothing else.
LEMMA RoomForEvent ==
    ASSUME CapacityAssumption, NEW events \in Seq(SyncEvent), Len(events) <= EVENT_CAPACITY
    PROVE  \E d \in {0, 1} :
              /\ Room(events) \in Seq(SyncEvent) /\ Len(Room(events)) = Len(events) - d
              /\ Len(Room(events)) \in Nat /\ Len(Room(events)) < EVENT_CAPACITY
              /\ \A i \in 1 .. Len(Room(events)) : Room(events)[i] = events[i + d]
<1>1. Len(events) \in Nat /\ EVENT_CAPACITY \in Nat \ {0}
  BY LenProperties DEF CapacityAssumption
<1>2. CASE Len(events) = EVENT_CAPACITY
  <2>1. events # <<>>
    BY <1>1, <1>2, EmptySeq
  <2>2. /\ Tail(events) \in Seq(SyncEvent) /\ Len(Tail(events)) = Len(events) - 1
        /\ \A i \in 1 .. Len(Tail(events)) : Tail(events)[i] = events[i + 1]
    BY <2>1, HeadTailProperties
  <2>3. Room(events) = Tail(events)
    BY <1>2 DEF Room
  <2> QED BY <1>1, <1>2, <2>2, <2>3
<1>3. CASE Len(events) # EVENT_CAPACITY
  <2>1. Room(events) = events
    BY <1>3 DEF Room
  <2>2. \A i \in 1 .. Len(events) : i + 0 = i
    BY <1>1
  <2> QED BY <1>1, <1>3, <2>1, <2>2
<1> QED BY <1>2, <1>3

\* The event of a commit.
EventOf(n, request, sort) == [sequence |-> n, request |-> request, kind |-> sort]

\* The log stays numbered without a break, and only the new event is new.
LEMMA EventRecorded ==
    ASSUME CapacityAssumption, NEW l, EventsOk(l), NEW request \in Nat,
           NEW sort \in {"asset", "preset"},
           NEW r, r = RecordEvent(l, EventOf(0, request, sort))
    PROVE  /\ EventsOk(r) /\ r.sequence = l.sequence + 1
           /\ \A e \in EventsHeld(r) :
                 e \in EventsHeld(l) \/ e = EventOf(l.sequence + 1, request, sort)
<1> DEFINE new == EventOf(l.sequence + 1, request, sort)
           room == Room(l.events)
           es == Append(room, new)
<1>1. /\ l.events \in Seq(SyncEvent) /\ l.sequence \in Nat
      /\ Len(l.events) \in Nat /\ Len(l.events) <= l.sequence
      /\ Len(l.events) <= EVENT_CAPACITY /\ EVENT_CAPACITY \in Nat
  BY LenProperties DEF EventsOk, CapacityAssumption
<1>2. PICK d \in {0, 1} :
          /\ room \in Seq(SyncEvent) /\ Len(room) = Len(l.events) - d
          /\ Len(room) \in Nat /\ Len(room) < EVENT_CAPACITY
          /\ \A i \in 1 .. Len(room) : room[i] = l.events[i + d]
  BY <1>1, RoomForEvent
<1>3. r = [events |-> es, sequence |-> l.sequence + 1]
  <2>1. [EventOf(0, request, sort) EXCEPT !.sequence = l.sequence + 1] = new
    BY DEF EventOf
  <2> QED BY <2>1 DEF RecordEvent
<1>4. new \in SyncEvent /\ new.sequence = l.sequence + 1
  BY <1>1 DEF SyncEvent, EventOf
<1> HIDE DEF new, room
<1>5. /\ es \in Seq(SyncEvent) /\ Len(es) = Len(room) + 1
      /\ \A i \in 1 .. Len(room) : es[i] = room[i]
      /\ es[Len(room) + 1] = new
  BY <1>2, <1>4, AppendProperties
<1> HIDE DEF es
<1>6. /\ Len(es) \in Nat /\ Len(room) \in Nat /\ Len(l.events) \in Nat /\ d \in {0, 1}
      /\ Len(es) = Len(room) + 1 /\ Len(room) = Len(l.events) - d /\ l.sequence \in Nat
  BY <1>1, <1>2, <1>5, LenProperties
<1>7. ASSUME NEW i \in 1 .. Len(es)
      PROVE  /\ es[i].sequence = (l.sequence + 1) - Len(es) + i
             /\ (\E j \in 1 .. Len(l.events) : es[i] = l.events[j]) \/ es[i] = new
  <2>1. CASE i = Len(room) + 1
    <3>1. es[i] = new
      BY <1>5, <2>1
    <3>2. (l.sequence + 1) - Len(es) + i = l.sequence + 1
      BY <1>6, <2>1
    <3> QED BY <1>4, <3>1, <3>2
  <2>2. CASE i # Len(room) + 1
    <3>1. i \in 1 .. Len(room) /\ i + d \in 1 .. Len(l.events)
      BY <1>6, <2>2
    <3>2. es[i] = l.events[i + d]
      BY <1>2, <1>5, <3>1
    <3>3. l.events[i + d].sequence = l.sequence - Len(l.events) + (i + d)
      BY <3>1 DEF EventsOk
    <3>4. l.sequence - Len(l.events) + (i + d) = (l.sequence + 1) - Len(es) + i
      BY <1>6, <3>1
    <3> QED BY <3>1, <3>2, <3>3, <3>4
  <2> QED BY <2>1, <2>2
<1>8. Len(es) <= EVENT_CAPACITY /\ Len(es) <= l.sequence + 1
  <2>1. /\ Len(room) < EVENT_CAPACITY /\ EVENT_CAPACITY \in Nat
        /\ Len(l.events) <= l.sequence
    BY <1>1, <1>2
  <2>2. Len(room) + 1 <= EVENT_CAPACITY
    BY ONLY <1>6, <2>1
  <2>3. Len(room) + 1 <= l.sequence + 1
    BY ONLY <1>2, <1>6, <2>1
  <2> QED BY <1>6, <2>2, <2>3
<1>9. r.events = es /\ r.sequence = l.sequence + 1
      /\ r \in [events : Seq(SyncEvent), sequence : Nat]
  <2>1. l.sequence + 1 \in Nat
    BY <1>6
  <2> QED BY <1>3, <1>5, <2>1
<1>10. EventsOk(r)
  BY <1>7, <1>8, <1>9 DEF EventsOk
<1>11. ASSUME NEW e \in EventsHeld(r) PROVE e \in EventsHeld(l) \/ e = new
  <2>1. PICK i \in 1 .. Len(es) : e = es[i]
    BY <1>9 DEF EventsHeld
  <2> QED BY <1>7, <2>1 DEF EventsHeld
<1> QED BY <1>9, <1>10, <1>11 DEF new

\* Without a gap, an event is held for every change after the cursor.
LEMMA EventForEach ==
    ASSUME NEW l, EventsOk(l), NEW after \in Nat, ~Gap(l, after)
    PROVE  \A s \in after + 1 .. l.sequence : \E e \in EventsHeld(l) : e.sequence = s
<1> SUFFICES ASSUME NEW s \in after + 1 .. l.sequence
             PROVE  \E e \in EventsHeld(l) : e.sequence = s
  OBVIOUS
<1>1. /\ l.events \in Seq(SyncEvent) /\ l.sequence \in Nat
      /\ Len(l.events) \in Nat /\ Len(l.events) <= l.sequence
  BY LenProperties DEF EventsOk
<1>2. ~(after + 1 < Oldest(l))
  BY DEF Gap
<1>3. CASE l.events = << >>
  <2>1. Oldest(l) = l.sequence + 1
    BY <1>3 DEF Oldest
  <2> QED BY <1>1, <1>2, <2>1
<1>4. CASE l.events # << >>
  <2>1. Len(l.events) # 0
    BY <1>1, <1>4, EmptySeq
  <2>2. 1 \in 1 .. Len(l.events)
    BY <1>1, <2>1
  <2>3. Oldest(l) = l.events[1].sequence
    BY <1>4 DEF Oldest
  <2>4. l.events[1].sequence = l.sequence - Len(l.events) + 1
    BY <2>2 DEF EventsOk
  <2> DEFINE i == s - (l.sequence - Len(l.events))
  <2>5. ~(after + 1 < l.sequence - Len(l.events) + 1)
    BY <1>2, <2>3, <2>4
  <2>6. i \in 1 .. Len(l.events) /\ l.sequence - Len(l.events) + i = s
    BY ONLY <1>1, <2>5, after \in Nat, s \in after + 1 .. l.sequence
  <2>7. l.events[i].sequence = l.sequence - Len(l.events) + i
    <3> HIDE DEF i
    <3> QED BY <2>6 DEF EventsOk
  <2> HIDE DEF i
  <2> QED BY <2>6, <2>7 DEF EventsHeld
<1> QED BY <1>3, <1>4

\* What is read of the past is a number, and an event is of the past.
LEMMA PastIsCounted ==
    ASSUME NEW p, NEW l, NEW t, EventsOk(l), PastOk(p, l, t)
    PROVE  /\ l.sequence \in Nat
           /\ \A n \in 0 .. l.sequence : RevisionAt(p, n) \in Nat /\ LibraryAt(p, n) \in Nat
<1>1. l.sequence \in Nat /\ Len(p) = l.sequence /\ p \in Seq(Values)
  BY DEF EventsOk, PastOk
<1>2. ASSUME NEW n \in 0 .. l.sequence PROVE RevisionAt(p, n) \in Nat /\ LibraryAt(p, n) \in Nat
  <2>1. CASE n = 0
    BY <2>1 DEF RevisionAt, LibraryAt
  <2>2. CASE n # 0
    <3>1. n \in 1 .. Len(p)
      BY <1>1, <2>2
    <3>2. p[n] \in Values
      BY <1>1, <3>1, ElementOfSeq
    <3> QED BY <2>2, <3>2 DEF RevisionAt, LibraryAt, Values
  <2> QED BY <2>1, <2>2
<1> QED BY <1>1, <1>2

\* An event held was numbered before now.
LEMMA EventIsPast ==
    ASSUME NEW l, EventsOk(l), NEW e \in EventsHeld(l)
    PROVE  e \in SyncEvent /\ e.sequence \in 1 .. l.sequence
<1>1. /\ l.events \in Seq(SyncEvent) /\ l.sequence \in Nat
      /\ Len(l.events) \in Nat /\ Len(l.events) <= l.sequence
  BY LenProperties DEF EventsOk
<1>2. PICK i \in 1 .. Len(l.events) : e = l.events[i]
  BY DEF EventsHeld
<1>3. e.sequence = l.sequence - Len(l.events) + i
  BY <1>2 DEF EventsOk
<1>4. e.sequence \in 1 .. l.sequence
  BY <1>1, <1>3
<1> QED BY <1>1, <1>2, <1>4, ElementOfSeq

\* A screen only gets newer: what has landed stays.
LEMMA RingStays ==
    ASSUME NEW p, NEW l, NEW t, EventsOk(l), PastOk(p, l, t),
           NEW seen \in Values, NEW later \in Values,
           seen.revision <= later.revision, seen.library <= later.library,
           NEW asked \in Nat, NEW then \in Nat, asked <= then,
           NEW ids, RingShown(p, l, seen, asked, ids)
    PROVE  RingShown(p, l, later, then, ids)
<1>1. ids \subseteq 1 .. then
  <2>1. \A x \in 1 .. asked : x \in 1 .. then
    OBVIOUS
  <2> QED BY <2>1 DEF RingShown
<1>2. ASSUME NEW e \in EventsHeld(l), e.request \in ids PROVE EventLanded(p, later, e)
  <2>1. EventLanded(p, seen, e)
    BY <1>2 DEF RingShown
  <2>2. e.sequence \in 0 .. l.sequence
    <3>1. e.sequence \in 1 .. l.sequence
      BY EventIsPast
    <3> QED BY <3>1
  <2>3. RevisionAt(p, e.sequence) \in Nat /\ LibraryAt(p, e.sequence) \in Nat
    BY <2>2, PastIsCounted
  <2>4. /\ seen.revision \in Nat /\ later.revision \in Nat
        /\ seen.library \in Nat /\ later.library \in Nat
    BY DEF Values
  <2> QED BY <2>1, <2>3, <2>4 DEF EventLanded
<1> QED BY <1>1, <1>2 DEF RingShown

-----------------------------------------------------------------------------
\* Steps that change nothing of the photograph.
Calm ==
    /\ log' = log /\ truth' = truth /\ past' = past
    /\ requests' \in Nat /\ requests <= requests'
    /\ screen' \in Values
    /\ screen.revision <= screen'.revision /\ screen.library <= screen'.library

\* What the log and the past tell is untouched by such a step,
LEMMA CalmPast ==
    ASSUME SyncInv, Calm
    PROVE  /\ EventsOk(log') /\ PastOk(past', log', truth')
           /\ EventsTell(past', log', requests')
<1>1. EventsOk(log) /\ PastOk(past, log, truth) /\ EventsTell(past, log, requests)
  BY DEF SyncInv
<1>2. requests \in Nat
  BY DEF SyncInv, NumbersTyped
<1>3. ASSUME NEW e \in EventsHeld(log) PROVE EventTells(past, requests', e)
  <2>1. EventTells(past, requests, e)
    BY <1>1 DEF EventsTell
  <2>2. e.request \in Nat
    <3>1. e \in SyncEvent
      BY <1>1, EventIsPast
    <3> QED BY <3>1 DEF SyncEvent
  <2> QED BY <1>2, <2>1, <2>2 DEF EventTells, Calm
<1> QED BY <1>1, <1>3 DEF Calm, EventsTell

\* and what the screen shows of the requests of a ring,
LEMMA CalmRing ==
    ASSUME SyncInv, Calm, NEW ids, RingShown(past, log, screen, requests, ids)
    PROVE  RingShown(past', log', screen', requests', ids)
<1>1. EventsOk(log) /\ PastOk(past, log, truth) /\ requests \in Nat /\ screen \in Values
  BY DEF SyncInv, NumbersTyped
<1>2. RingShown(past, log, screen', requests', ids)
  BY <1>1, RingStays DEF Calm
<1> QED BY <1>2 DEF Calm

\* A poll that begins takes the cursor and the ring as they are.
PollBegun == [at |-> "since", after |-> apiSequence', own |-> ownRequests']

\* and that an answer is on its way to a request in no ring,
LEMMA CalmWay ==
    ASSUME SyncInv, Calm, NEW r, OnItsWay(requests, ownRequests, poll, r),
           r \notin RingIds(ownRequests'),
           poll' = poll \/ poll'.at # "since" \/ poll' = PollBegun
    PROVE  OnItsWay(requests', ownRequests', poll', r)
<1>1. requests \in Nat
  BY DEF SyncInv, NumbersTyped
<1>2. r \in 1 .. requests'
  BY <1>1 DEF OnItsWay, Calm
<1>3. poll' = PollBegun => poll'.own = ownRequests'
  BY DEF PollBegun
<1> QED BY <1>2, <1>3 DEF OnItsWay

\* and what a command on its way tells of the log,
LEMMA CalmCommand ==
    ASSUME SyncInv, Calm, command' = command,
           command # NoTask =>
              /\ OnItsWay(requests', ownRequests', poll', command.request)
              /\ change' # NoTask => change'.request # command.request
    PROVE  CommandTells'
BY DEF SyncInv, CommandTells, Calm

\* and a library change,
LEMMA CalmChange ==
    ASSUME SyncInv, Calm, change' = change,
           change # NoTask => OnItsWay(requests', ownRequests', poll', change.request)
    PROVE  ChangeTells'
BY DEF SyncInv, ChangeTells, Calm

\* and what a poll has read,
LEMMA CalmRead ==
    ASSUME SyncInv, Calm, NEW read \in Polls, PollRead(past, log, truth, screen, read)
    PROVE  PollRead(past', log', truth', screen', read)
<1>1. CASE read.at \in Reading
  <2>1. read.sequence \in 0 .. log.sequence
    <3>1. read.sequence \in Nat /\ read.sequence <= log.sequence /\ log.sequence \in Nat
      BY <1>1 DEF PollRead, Polls, SyncInv, EventsOk
    <3> QED BY <3>1
  <2>2. RevisionAt(past, read.sequence) \in Nat /\ LibraryAt(past, read.sequence) \in Nat
    BY <2>1, PastIsCounted DEF SyncInv
  <2>3. /\ screen.revision \in Nat /\ screen'.revision \in Nat
        /\ screen.library \in Nat /\ screen'.library \in Nat
    BY DEF Values, SyncInv, NumbersTyped, Calm
  <2>4. /\ ~read.asset => RevisionAt(past, read.sequence) <= screen'.revision
        /\ ~read.listed => LibraryAt(past, read.sequence) <= screen'.library
    BY <1>1, <2>2, <2>3 DEF PollRead, Calm
  <2> QED BY <1>1, <2>4 DEF PollRead, Calm
<1> QED BY <1>1 DEF PollRead

\* and so what the poll in the slot tells.
LEMMA CalmPoll ==
    ASSUME SyncInv, Calm,
           \/ poll' = poll /\ apiSequence' = apiSequence
           \/ poll' = NoTask
           \/ /\ poll' = PollBegun
              /\ RingShown(past', log', screen', requests', RingIds(ownRequests'))
    PROVE  PollTells'
<1>1. CASE poll' = poll /\ apiSequence' = apiSequence
  <2>1. poll \in {NoTask} \union Listening \union Polls
    BY DEF SyncInv, TasksTyped
  <2>2. PollRead(past, log, truth, screen, poll)
    BY DEF SyncInv, PollTells
  <2>3. PollRead(past', log', truth', screen', poll)
    <3>1. CASE poll \in Polls
      BY <2>2, <3>1, CalmRead
    <3>2. CASE poll \notin Polls
      <4>1. poll.at \notin Reading
        BY <2>1, <3>2 DEF NoTask, Listening, Reading
      <4> QED BY <4>1 DEF PollRead
    <3> QED BY <3>1, <3>2
  <2>4. poll.at = "since" =>
           /\ poll.after = apiSequence
           /\ RingShown(past', log', screen', requests', RingIds(poll.own))
    BY CalmRing DEF SyncInv, PollTells
  <2> QED BY <1>1, <2>3, <2>4 DEF PollTells
<1>2. CASE poll' = NoTask
  BY <1>2 DEF PollTells, PollRead, NoTask, Reading
<1>3. CASE /\ poll' = PollBegun
           /\ RingShown(past', log', screen', requests', RingIds(ownRequests'))
  <2>1. poll'.at = "since" /\ poll'.after = apiSequence' /\ poll'.own = ownRequests'
    BY <1>3 DEF PollBegun
  <2> QED BY <1>3, <2>1 DEF PollTells, PollRead, Reading
<1> QED BY <1>1, <1>2, <1>3

\* A cursor and a screen that stay.
LEMMA CalmScreen ==
    ASSUME SyncInv, Calm, UNCHANGED <<apiSequence, librarySequence>>,
           screen'.revision = screen.revision, screen'.library = screen.library
    PROVE  ScreenTells'
BY DEF SyncInv, ScreenTells, Calm

\* What sync_when_wanted leaves.
LEMMA WhenWanted ==
    ASSUME NEW now, SyncWhenWanted(now),
           now.wanted \in BOOLEAN, now.syncing \in BOOLEAN,
           now.failed \in BOOLEAN, now.failedOwn \in BOOLEAN
    PROVE  /\ busy' = now.busy
           /\ syncWanted' \in BOOLEAN /\ unread' \in BOOLEAN /\ unreadOwn' \in BOOLEAN
           /\ now.wanted \/ now.failed \/ now.failedOwn => Wanted'
           /\ now.syncing => poll' = poll
           /\ ~now.syncing => poll' = NoTask \/ poll' = PollBegun
<1>1. CASE now.wanted /\ ~now.syncing /\ ~now.busy
  <2>1. /\ poll' = PollBegun /\ syncWanted' = FALSE
        /\ unread' = FALSE /\ unreadOwn' = FALSE
    BY <1>1 DEF SyncWhenWanted, PollBegun
  <2>2. poll'.at = "since"
    BY <2>1 DEF PollBegun
  <2>3. busy' = now.busy
    BY DEF SyncWhenWanted
  <2> QED BY <1>1, <2>1, <2>2, <2>3 DEF Wanted
<1>2. CASE ~(now.wanted /\ ~now.syncing /\ ~now.busy)
  <2>1. /\ syncWanted' = now.wanted
        /\ poll' = IF now.syncing THEN poll ELSE NoTask
        /\ unread' = now.failed /\ unreadOwn' = now.failedOwn
    BY <1>2 DEF SyncWhenWanted
  <2>2. busy' = now.busy
    BY DEF SyncWhenWanted
  <2> QED BY <2>1, <2>2 DEF Wanted
<1> QED BY <1>1, <1>2

-----------------------------------------------------------------------------
\* A commit.

\* What a commit of a sort of event by a request leaves.
Recorded(sort, request) ==
    /\ EventsOk(log') /\ PastOk(past', log', truth') /\ log'.sequence = log.sequence + 1
    /\ truth.revision <= truth'.revision
    /\ \A e \in EventsHeld(log') :
          e \in EventsHeld(log) \/ e = EventOf(log.sequence + 1, request, sort)
    /\ \A n \in 0 .. log.sequence :
          /\ RevisionAt(past', n) = RevisionAt(past, n)
          /\ LibraryAt(past', n) = LibraryAt(past, n)
    /\ sort = "asset" => truth'.library = truth.library
    /\ sort = "preset" => truth'.revision = truth.revision

KindOf(field) == IF field = "library" THEN "preset" ELSE "asset"

\* What a commit of a field leaves: one event more, and one value moved.
LEMMA CommitLeaves ==
    ASSUME SyncInv, CapacityAssumption, NEW field \in {"revision", "versions", "library"},
           NEW request \in Nat, CommitBy(field, request)
    PROVE  /\ Recorded(KindOf(field), request)
           /\ field = "versions" => truth'.revision = truth.revision
<1> DEFINE n == log.sequence
           sort == KindOf(field)
<1>1. EventsOk(log) /\ PastOk(past, log, truth)
  BY DEF SyncInv
<1>2. sort \in {"asset", "preset"}
  BY DEF KindOf
<1>3. log' = RecordEvent(log, EventOf(0, request, sort))
  BY DEF CommitBy, EventOf, KindOf
<1>4. /\ EventsOk(log') /\ log'.sequence = n + 1
      /\ \A e \in EventsHeld(log') :
            e \in EventsHeld(log) \/ e = EventOf(n + 1, request, sort)
  <2> HIDE DEF sort
  <2> QED BY <1>1, <1>2, <1>3, EventRecorded
<1>5. /\ truth \in Values /\ truth' = [truth EXCEPT ![field] = @ + 1]
      /\ past' = Append(past, truth') /\ past \in Seq(Values) /\ Len(past) = n /\ n \in Nat
  BY <1>1 DEF CommitBy, PastOk, EventsOk
<1>6. /\ truth' \in Values
      /\ truth.revision <= truth'.revision /\ truth.library <= truth'.library
      /\ sort = "asset" => truth'.library = truth.library
      /\ sort = "preset" => truth'.revision = truth.revision
  <2>1. truth.revision \in Nat /\ truth.versions \in Nat /\ truth.library \in Nat
    BY <1>5 DEF Values
  <2>2. CASE field = "revision"
    <3>1. sort = "asset"
      BY <2>2 DEF KindOf
    <3> QED BY ONLY <1>5, <2>1, <2>2, <3>1 DEF Values
  <2>3. CASE field = "versions"
    <3>1. sort = "asset"
      BY <2>3 DEF KindOf
    <3> QED BY ONLY <1>5, <2>1, <2>3, <3>1 DEF Values
  <2>4. CASE field = "library"
    <3>1. sort = "preset"
      BY <2>4 DEF KindOf
    <3>2. /\ truth'.library = truth.library + 1 /\ truth'.revision = truth.revision
          /\ truth' \in Values
      BY ONLY <1>5, <2>1, <2>4 DEF Values
    <3> QED BY ONLY <2>1, <3>1, <3>2
  <2> QED BY <2>2, <2>3, <2>4
<1>7. /\ past' \in Seq(Values) /\ Len(past') = n + 1
      /\ \A i \in 1 .. n : past'[i] = past[i]
      /\ past'[n + 1] = truth'
  <2>1. /\ Append(past, truth') \in Seq(Values) /\ Len(Append(past, truth')) = Len(past) + 1
        /\ \A i \in 1 .. Len(past) : Append(past, truth')[i] = past[i]
        /\ Append(past, truth')[Len(past) + 1] = truth'
    <3>1. past \in Seq(Values) /\ truth' \in Values
      BY <1>5, <1>6
    <3> QED BY <3>1, AppendProperties
  <2>2. past' = Append(past, truth') /\ Len(past) = n
    BY <1>5
  <2> HIDE DEF n
  <2> QED BY ONLY <2>1, <2>2
<1> HIDE DEF sort
<1>8. \A i \in 0 .. n : /\ RevisionAt(past', i) = RevisionAt(past, i)
                        /\ LibraryAt(past', i) = LibraryAt(past, i)
  <2> SUFFICES ASSUME NEW i \in 0 .. n
               PROVE  /\ RevisionAt(past', i) = RevisionAt(past, i)
                      /\ LibraryAt(past', i) = LibraryAt(past, i)
    OBVIOUS
  <2>1. i # 0 => i \in 1 .. n
    BY <1>5
  <2> QED BY <1>7, <2>1 DEF RevisionAt, LibraryAt
<1>9. RevisionAt(past', n + 1) = truth'.revision /\ LibraryAt(past', n + 1) = truth'.library
  <2>1. n + 1 # 0
    BY <1>5
  <2> QED BY <1>7, <2>1 DEF RevisionAt, LibraryAt
<1>10. \A i \in 0 .. n : RevisionAt(past, i) \in Nat /\ LibraryAt(past, i) \in Nat
  BY <1>1, PastIsCounted
<1>11. \A i \in 0 .. n : /\ RevisionAt(past, i) <= truth'.revision
                         /\ LibraryAt(past, i) <= truth'.library
  <2> SUFFICES ASSUME NEW i \in 0 .. n
               PROVE  /\ RevisionAt(past, i) <= truth'.revision
                      /\ LibraryAt(past, i) <= truth'.library
    OBVIOUS
  <2>1. n \in 0 .. n /\ i <= n
    BY <1>5
  <2>2. RevisionAt(past, i) <= truth.revision /\ LibraryAt(past, i) <= truth.library
    BY <1>1, <2>1 DEF PastOk
  <2>3. /\ truth.revision \in Nat /\ truth'.revision \in Nat
        /\ truth.library \in Nat /\ truth'.library \in Nat
    BY <1>5, <1>6 DEF Values
  <2> QED BY <1>6, <1>10, <2>2, <2>3
<1>12. ASSUME NEW i \in 0 .. n + 1, NEW j \in 0 .. n + 1, i <= j
       PROVE  /\ RevisionAt(past', i) <= RevisionAt(past', j)
              /\ LibraryAt(past', i) <= LibraryAt(past', j)
  <2>1. CASE j = n + 1 /\ i = n + 1
    <3>1. truth'.revision \in Nat /\ truth'.library \in Nat
      BY <1>6 DEF Values
    <3> QED BY <1>9, <2>1, <3>1
  <2>2. CASE j = n + 1 /\ i # n + 1
    <3>1. i \in 0 .. n
      BY <1>5, <2>2
    <3> QED BY <1>8, <1>9, <1>11, <2>2, <3>1
  <2>3. CASE j # n + 1
    <3>1. i \in 0 .. n /\ j \in 0 .. n
      BY <1>5, <1>12, <2>3
    <3> QED BY <1>1, <1>8, <1>12, <3>1 DEF PastOk
  <2> QED BY <2>1, <2>2, <2>3
<1>13. PastOk(past', log', truth')
  BY <1>4, <1>6, <1>7, <1>9, <1>12 DEF PastOk
<1>14. field = "versions" => truth'.revision = truth.revision
  BY <1>5 DEF Values
<1> QED BY <1>4, <1>6, <1>8, <1>13, <1>14 DEF Recorded, sort

\* What had landed has, and a request no ring holds adds nothing to one.
LEMMA CommittedEvents ==
    ASSUME SyncInv, NEW sort \in {"asset", "preset"}, NEW request \in Nat,
           Recorded(sort, request), request <= requests
    PROVE  /\ EventsTell(past', log', requests)
           /\ RevisionMoved(past', log.sequence + 1) => truth'.revision # truth.revision
           /\ \A e \in EventsHeld(log) :
                 /\ RevisionMoved(past', e.sequence) <=> RevisionMoved(past, e.sequence)
                 /\ LibraryMoved(past', e.sequence) <=> LibraryMoved(past, e.sequence)
                 /\ RevisionAt(past', e.sequence) = RevisionAt(past, e.sequence)
                 /\ LibraryAt(past', e.sequence) = LibraryAt(past, e.sequence)
<1> DEFINE n == log.sequence
           new == EventOf(n + 1, request, sort)
<1>1. /\ EventsOk(log) /\ PastOk(past, log, truth) /\ EventsTell(past, log, requests)
      /\ n \in Nat /\ Len(past) = n
  BY DEF SyncInv, EventsOk, PastOk
<1>2. \A i \in 0 .. n : /\ RevisionAt(past', i) = RevisionAt(past, i)
                        /\ LibraryAt(past', i) = LibraryAt(past, i)
  BY DEF Recorded
<1>3. ASSUME NEW e \in EventsHeld(log)
      PROVE  /\ RevisionMoved(past', e.sequence) <=> RevisionMoved(past, e.sequence)
             /\ LibraryMoved(past', e.sequence) <=> LibraryMoved(past, e.sequence)
             /\ RevisionAt(past', e.sequence) = RevisionAt(past, e.sequence)
             /\ LibraryAt(past', e.sequence) = LibraryAt(past, e.sequence)
  <2>1. e.sequence \in 1 .. n
    BY <1>1, EventIsPast
  <2>2. e.sequence \in 0 .. n /\ e.sequence - 1 \in 0 .. n
    BY <1>1, <2>1
  <2> QED BY <1>2, <2>2 DEF RevisionMoved, LibraryMoved
<1>4. Len(past') = n + 1
  BY DEF Recorded, PastOk
<1>5. ASSUME NEW e \in EventsHeld(log) PROVE EventTells(past', requests, e)
  <2>1. EventTells(past, requests, e)
    BY <1>1 DEF EventsTell
  <2>2. e.sequence \in 1 .. Len(past')
    BY <1>1, <1>4, <2>1 DEF EventTells
  <2> QED BY <1>3, <2>1, <2>2 DEF EventTells
<1>6. EventTells(past', requests, new)
  <2>1. new.sequence = n + 1 /\ new.request = request /\ new.kind = sort
    BY DEF EventOf
  <2>2. n + 1 \in 1 .. Len(past') /\ n \in 0 .. n /\ (n + 1) - 1 = n
    BY <1>1, <1>4
  <2>3. /\ RevisionAt(past', n + 1) = truth'.revision
        /\ LibraryAt(past', n + 1) = truth'.library
    BY DEF Recorded, PastOk
  <2>4. RevisionAt(past', n) = truth.revision /\ LibraryAt(past', n) = truth.library
    BY <1>1, <1>2, <2>2 DEF PastOk
  <2>5. /\ sort = "asset" => ~LibraryMoved(past', n + 1)
        /\ sort = "preset" => ~RevisionMoved(past', n + 1)
    BY <2>2, <2>3, <2>4 DEF Recorded, RevisionMoved, LibraryMoved
  <2> HIDE DEF new
  <2> QED BY <2>1, <2>2, <2>5 DEF EventTells
<1>7. EventsTell(past', log', requests)
  <2>1. \A e \in EventsHeld(log') : e \in EventsHeld(log) \/ e = new
    BY DEF Recorded
  <2> HIDE DEF new
  <2> QED BY <1>5, <1>6, <2>1 DEF EventsTell
<1>8. RevisionMoved(past', n + 1) => truth'.revision # truth.revision
  <2>1. n \in 0 .. n /\ (n + 1) - 1 = n
    BY <1>1
  <2>2. RevisionAt(past', n + 1) = truth'.revision
    BY DEF Recorded, PastOk
  <2>3. RevisionAt(past', n) = truth.revision
    BY <1>1, <1>2, <2>1 DEF PastOk
  <2> QED BY <2>1, <2>2, <2>3 DEF RevisionMoved
<1> QED BY <1>3, <1>7, <1>8

\* A request that is not of the ring leaves what the ring shows.
LEMMA CommittedRing ==
    ASSUME SyncInv, NEW sort \in {"asset", "preset"}, NEW request \in Nat,
           Recorded(sort, request), request <= requests,
           NEW ids, request \notin ids, RingShown(past, log, screen, requests, ids)
    PROVE  RingShown(past', log', screen, requests, ids)
<1> DEFINE new == EventOf(log.sequence + 1, request, sort)
<1>1. new.request = request
  BY DEF EventOf
<1>2. \A e \in EventsHeld(log') : e \in EventsHeld(log) \/ e = new
  BY DEF Recorded
<1> HIDE DEF new
<1>3. ASSUME NEW e \in EventsHeld(log'), e.request \in ids
      PROVE  EventLanded(past', screen, e)
  <2>1. e \in EventsHeld(log)
    BY <1>1, <1>2, <1>3
  <2>2. EventLanded(past, screen, e)
    BY <1>3, <2>1 DEF RingShown
  <2> QED BY <2>1, <2>2, CommittedEvents DEF EventLanded
<1> QED BY <1>3 DEF RingShown

\* What a poll has read is what was so at its sequence, before the commit.
LEMMA CommittedRead ==
    ASSUME SyncInv, NEW sort \in {"asset", "preset"}, NEW request \in Nat,
           Recorded(sort, request), NEW read \in Polls,
           PollRead(past, log, truth, screen, read)
    PROVE  PollRead(past', log', truth', screen, read)
<1>1. CASE read.at \in Reading
  <2>1. /\ log.sequence \in Nat /\ log'.sequence = log.sequence + 1
        /\ truth.revision \in Nat /\ truth'.revision \in Nat /\ truth.revision <= truth'.revision
    BY DEF SyncInv, EventsOk, PastOk, Values, Recorded
  <2>2. /\ read.sequence \in Nat /\ read.listedAt \in Nat /\ read.revision \in Nat
        /\ read.sequence <= log.sequence
    BY <1>1 DEF PollRead, Polls
  <2>3. \A i \in Nat : i <= log.sequence =>
           /\ i <= log'.sequence
           /\ RevisionAt(past', i) = RevisionAt(past, i)
           /\ LibraryAt(past', i) = LibraryAt(past, i)
    <3> SUFFICES ASSUME NEW i \in Nat, i <= log.sequence
                 PROVE  /\ i <= log'.sequence
                        /\ RevisionAt(past', i) = RevisionAt(past, i)
                        /\ LibraryAt(past', i) = LibraryAt(past, i)
      OBVIOUS
    <3>1. i \in 0 .. log.sequence /\ i <= log'.sequence
      BY <2>1
    <3> QED BY <3>1 DEF Recorded
  <2>4. read.revision <= truth.revision => read.revision <= truth'.revision
    BY <2>1, <2>2
  <2> QED BY <1>1, <2>2, <2>3, <2>4 DEF PollRead
<1> QED BY <1>1 DEF PollRead

\* A commit leaves what the poll in the slot tells,
LEMMA CommittedPoll ==
    ASSUME SyncInv, NEW sort \in {"asset", "preset"}, NEW request \in Nat,
           Recorded(sort, request), request <= requests,
           poll.at = "since" => request \notin RingIds(poll.own),
           UNCHANGED <<poll, apiSequence, screen, requests>>
    PROVE  PollTells'
<1>1. poll \in {NoTask} \union Listening \union Polls
  BY DEF SyncInv, TasksTyped
<1>2. PollRead(past, log, truth, screen, poll)
  BY DEF SyncInv, PollTells
<1>3. PollRead(past', log', truth', screen, poll)
  <2>1. CASE poll \in Polls
    BY <1>2, <2>1, CommittedRead
  <2>2. CASE poll \notin Polls
    <3>1. poll.at \notin Reading
      BY <1>1, <2>2 DEF NoTask, Listening, Reading
    <3> QED BY <3>1 DEF PollRead
  <2> QED BY <2>1, <2>2
<1>4. poll.at = "since" =>
         /\ poll.after = apiSequence
         /\ RingShown(past', log', screen, requests, RingIds(poll.own))
  BY CommittedRing DEF SyncInv, PollTells
<1> QED BY <1>3, <1>4 DEF PollTells

\* and where the screen stands in the past.
LEMMA CommittedScreen ==
    ASSUME SyncInv, NEW sort \in {"asset", "preset"}, NEW request \in Nat,
           Recorded(sort, request), UNCHANGED <<screen, apiSequence, librarySequence>>
    PROVE  ScreenTells'
<1>1. /\ log.sequence \in Nat /\ log'.sequence = log.sequence + 1
      /\ truth.revision \in Nat /\ truth'.revision \in Nat /\ truth.revision <= truth'.revision
      /\ screen.revision \in Nat /\ apiSequence \in Nat /\ librarySequence \in Nat
  BY DEF SyncInv, EventsOk, PastOk, Values, Recorded, NumbersTyped
<1>2. /\ screen.revision <= truth.revision
      /\ librarySequence <= log.sequence /\ apiSequence <= log.sequence
  BY DEF SyncInv, ScreenTells
<1>3. /\ librarySequence \in 0 .. log.sequence /\ apiSequence \in 0 .. log.sequence
      /\ librarySequence <= log'.sequence /\ apiSequence <= log'.sequence
      /\ screen.revision <= truth'.revision
  BY <1>1, <1>2
<1>4. /\ LibraryAt(past', librarySequence) = LibraryAt(past, librarySequence)
      /\ LibraryAt(past', apiSequence) = LibraryAt(past, apiSequence)
      /\ RevisionAt(past', apiSequence) = RevisionAt(past, apiSequence)
  BY <1>3 DEF Recorded
<1> QED BY <1>3, <1>4 DEF SyncInv, ScreenTells

\* A command that another request's commit finds.
LEMMA CommittedCommand ==
    ASSUME SyncInv, NEW sort \in {"asset", "preset"}, NEW request \in Nat,
           Recorded(sort, request), request <= requests,
           command # NoTask => request # command.request,
           UNCHANGED <<command, requests, ownRequests, poll>>,
           change' # NoTask => change # NoTask /\ change'.request = change.request
    PROVE  CommandTells'
<1> SUFFICES ASSUME command # NoTask PROVE CommandTells'
  BY DEF CommandTells
<1> DEFINE new == EventOf(log.sequence + 1, request, sort)
<1>1. new.request = request
  BY DEF EventOf
<1>2. \A e \in EventsHeld(log') : e \in EventsHeld(log) \/ e = new
  BY DEF Recorded
<1> HIDE DEF new
<1>3. /\ OnItsWay(requests, ownRequests, poll, command.request)
      /\ command.revision <= truth.revision
      /\ change # NoTask => change.request # command.request
      /\ \A e \in EventsHeld(log) : CommandEvent(past, command, e)
  BY DEF SyncInv, CommandTells
<1>4. command \in Commands
  BY DEF SyncInv, TasksTyped
<1>5. command.revision <= truth'.revision
  <2>1. command.revision \in Nat /\ truth.revision \in Nat /\ truth'.revision \in Nat
    BY <1>4 DEF Commands, SyncInv, PastOk, Values, Recorded
  <2>2. truth.revision <= truth'.revision
    BY DEF Recorded
  <2> QED BY <1>3, <2>1, <2>2
<1>6. ASSUME NEW e \in EventsHeld(log') PROVE CommandEvent(past', command, e)
  <2>1. CASE e = new
    BY <1>1, <2>1 DEF CommandEvent
  <2>2. CASE e \in EventsHeld(log)
    <3>1. CommandEvent(past, command, e)
      BY <1>3, <2>2
    <3> QED BY <2>2, <3>1, CommittedEvents DEF CommandEvent
  <2> QED BY <1>2, <2>1, <2>2
<1> QED BY <1>3, <1>5, <1>6 DEF CommandTells

\* A library change that another request's commit finds.
LEMMA CommittedChange ==
    ASSUME SyncInv, NEW sort \in {"asset", "preset"}, NEW request \in Nat,
           Recorded(sort, request), request <= requests,
           change # NoTask => request # change.request,
           UNCHANGED <<change, requests, ownRequests, poll>>
    PROVE  ChangeTells'
<1> SUFFICES ASSUME change # NoTask PROVE ChangeTells'
  BY DEF ChangeTells
<1> DEFINE new == EventOf(log.sequence + 1, request, sort)
<1>1. new.request = request
  BY DEF EventOf
<1>2. \A e \in EventsHeld(log') : e \in EventsHeld(log) \/ e = new
  BY DEF Recorded
<1> HIDE DEF new
<1>3. /\ OnItsWay(requests, ownRequests, poll, change.request)
      /\ change.at = "answer" =>
              /\ change.listedAt <= log.sequence
              /\ change.library = LibraryAt(past, change.listedAt)
      /\ \A e \in EventsHeld(log) : ChangeEvent(change, e)
  BY DEF SyncInv, ChangeTells
<1>4. change.listedAt \in Nat
  BY DEF SyncInv, TasksTyped, LibraryChanges
<1>5. /\ log.sequence \in Nat /\ log'.sequence = log.sequence + 1
  BY DEF SyncInv, EventsOk, Recorded
<1>6. change.at = "answer" =>
              /\ change.listedAt <= log'.sequence
              /\ change.library = LibraryAt(past', change.listedAt)
  <2> SUFFICES ASSUME change.at = "answer"
               PROVE  /\ change.listedAt <= log'.sequence
                      /\ change.library = LibraryAt(past', change.listedAt)
    OBVIOUS
  <2>1. change.listedAt \in 0 .. log.sequence /\ change.listedAt <= log'.sequence
    BY <1>3, <1>4, <1>5
  <2>2. LibraryAt(past', change.listedAt) = LibraryAt(past, change.listedAt)
    BY <2>1 DEF Recorded
  <2> QED BY <1>3, <2>1, <2>2
<1>7. ASSUME NEW e \in EventsHeld(log') PROVE ChangeEvent(change, e)
  BY <1>1, <1>2, <1>3 DEF ChangeEvent
<1> QED BY <1>3, <1>6, <1>7 DEF ChangeTells

-----------------------------------------------------------------------------
\* The owner's steps and the reads.

\* Nothing on the screen, and no cursor, goes back.
Onward ==
    /\ screen'.revision >= screen.revision
    /\ screen'.library >= screen.library
    /\ apiSequence' >= apiSequence
    /\ seenGeneration' >= seenGeneration

\* A step that leaves the screen and the cursor moves nothing back.
LEMMA StillOnward ==
    ASSUME SyncInv, UNCHANGED <<screen, apiSequence, seenGeneration>>
    PROVE  Onward
<1>1. /\ screen.revision \in Nat /\ screen.library \in Nat
      /\ apiSequence \in Nat /\ seenGeneration \in Nat
  BY DEF SyncInv, NumbersTyped, Values
<1> QED BY <1>1 DEF Onward

\* Nothing of the photograph moves.
LEMMA StillCalm ==
    ASSUME SyncInv, UNCHANGED <<log, truth, past, requests, screen>>
    PROVE  Calm
<1>1. screen \in Values /\ requests \in Nat
  BY DEF SyncInv, NumbersTyped
<1>2. screen.revision \in Nat /\ screen.library \in Nat
  BY <1>1 DEF Values
<1> QED BY <1>1, <1>2 DEF Calm

\* No ring holds another client's request.
LEMMA OthersInNoRing ==
    ASSUME SyncInv
    PROVE  /\ 0 \notin RingIds(ownRequests)
           /\ poll.at = "since" => 0 \notin RingIds(poll.own)
           /\ command # NoTask => command.request \in Nat /\ command.request # 0
           /\ change # NoTask => change.request \in Nat /\ change.request # 0
           /\ requests \in Nat
<1>1. requests \in Nat /\ 0 \notin 1 .. requests
  BY DEF SyncInv, NumbersTyped
<1>2. RingIds(ownRequests) \subseteq 1 .. requests
  BY DEF SyncInv, RingShown
<1>3. poll.at = "since" => RingIds(poll.own) \subseteq 1 .. requests
  BY DEF SyncInv, PollTells, RingShown
<1>4. command # NoTask => command.request \in 1 .. requests
  BY DEF SyncInv, CommandTells, OnItsWay
<1>5. change # NoTask => change.request \in 1 .. requests
  BY DEF SyncInv, ChangeTells, OnItsWay
<1> QED BY <1>1, <1>2, <1>3, <1>4, <1>5

\* Another client changes the photograph or the library.
LEMMA OtherChangesKeeps ==
    ASSUME SyncInv, CapacityAssumption, NEW field \in DOMAIN truth, OtherChanges(field)
    PROVE  SyncInv' /\ Onward
<1>1. field \in {"revision", "versions", "library"}
  BY DEF SyncInv, PastOk, Values
<1>2. /\ CommitBy(field, 0) /\ signal' = TRUE
      /\ UNCHANGED <<generation, cursorVars, shownVars, taskVars, requests, unread, unreadOwn>>
  BY DEF OtherChanges
<1>3. Recorded(KindOf(field), 0) /\ KindOf(field) \in {"asset", "preset"}
  BY <1>1, <1>2, CommitLeaves DEF KindOf
<1> DEFINE sort == KindOf(field)
<1> HIDE DEF sort
<1>4. sort \in {"asset", "preset"} /\ Recorded(sort, 0)
  BY <1>3 DEF sort
<1>5. /\ 0 \notin RingIds(ownRequests)
      /\ poll.at = "since" => 0 \notin RingIds(poll.own)
      /\ command # NoTask => 0 # command.request
      /\ change # NoTask => 0 # change.request
      /\ 0 \in Nat /\ 0 <= requests
  BY OthersInNoRing
<1>6. /\ UNCHANGED <<poll, command, change, compare, apiSequence, ownRequests, syncWanted, busy>>
      /\ UNCHANGED <<screen, seenGeneration, librarySequence, requests, generation>>
      /\ UNCHANGED <<unread, unreadOwn>>
  BY <1>2 DEF cursorVars, shownVars, taskVars
<1>7. EventsOk(log') /\ PastOk(past', log', truth') /\ EventsTell(past', log', requests')
  BY <1>4, <1>5, <1>6, CommittedEvents DEF Recorded
<1>8. RingShown(past', log', screen', requests', RingIds(ownRequests'))
  <2>1. RingShown(past, log, screen, requests, RingIds(ownRequests))
    BY DEF SyncInv
  <2>2. RingShown(past', log', screen, requests, RingIds(ownRequests))
    BY <1>4, <1>5, <2>1, CommittedRing
  <2> QED BY <1>6, <2>2
<1>9. NumbersTyped' /\ TasksTyped'
  BY <1>2, <1>6 DEF SyncInv, NumbersTyped, TasksTyped
<1>10. CommandTells'
  BY <1>4, <1>5, <1>6, CommittedCommand
<1>11. ChangeTells'
  BY <1>4, <1>5, <1>6, CommittedChange
<1>12. PollTells'
  BY <1>4, <1>5, <1>6, CommittedPoll
<1>13. ScreenTells'
  BY <1>4, <1>5, <1>6, CommittedScreen
<1>14. BusyTells'
  BY <1>6 DEF SyncInv, BusyTells, Selecting
<1>15. RevisionComes' /\ LibraryComes'
  BY <1>2 DEF RevisionComes, LibraryComes
<1>16. Onward
  BY <1>6, StillOnward
<1> QED BY <1>7, <1>8, <1>9, <1>10, <1>11, <1>12, <1>13, <1>14, <1>15, <1>16 DEF SyncInv

\* Only a command moves.
LEMMA CommandMoves ==
    ASSUME SyncInv, command # NoTask, command' \in Commands,
           UNCHANGED <<log, truth, generation, signal, past, requests>>,
           UNCHANGED <<cursorVars, shownVars, poll, change, compare, unread, unreadOwn>>,
           command'.request = command.request, command'.kind = command.kind,
           command'.revision <= truth.revision,
           \A e \in EventsHeld(log) : CommandEvent(past, command', e),
           RevisionInCommand => RevisionInCommand'
    PROVE  SyncInv' /\ Onward
<1>1. /\ UNCHANGED <<log, truth, generation, signal, past, requests>>
      /\ UNCHANGED <<poll, change, compare, apiSequence, ownRequests, syncWanted, busy>>
      /\ UNCHANGED <<screen, seenGeneration, librarySequence, unread, unreadOwn>>
  BY DEF cursorVars, shownVars
<1>2. Calm /\ Onward
  BY <1>1, StillCalm, StillOnward
<1>3. command' # NoTask
  BY DEF Commands, NoTask
<1>4. EventsOk(log') /\ PastOk(past', log', truth') /\ EventsTell(past', log', requests')
  BY <1>2, CalmPast
<1>5. RingShown(past', log', screen', requests', RingIds(ownRequests'))
  BY <1>1 DEF SyncInv
<1>6. NumbersTyped'
  BY <1>1 DEF SyncInv, NumbersTyped
<1>7. TasksTyped'
  BY <1>1 DEF SyncInv, TasksTyped
<1>8. CommandTells'
  BY <1>1, <1>3 DEF SyncInv, CommandTells
<1>9. ChangeTells'
  BY <1>1 DEF SyncInv, ChangeTells
<1>10. PollTells'
  BY <1>1 DEF SyncInv, PollTells
<1>11. ScreenTells'
  BY <1>1 DEF SyncInv, ScreenTells
<1>12. BusyTells'
  BY <1>1 DEF SyncInv, BusyTells, Selecting
<1>13. RevisionComes'
  <2>1. RevisionComes
    BY DEF SyncInv
  <2>2. (RevisionInPoll' <=> RevisionInPoll) /\ (Wanted' <=> Wanted)
    BY <1>1 DEF RevisionInPoll, Wanted
  <2> QED BY <1>1, <2>1, <2>2 DEF RevisionComes
<1>14. LibraryComes'
  BY <1>1 DEF SyncInv, LibraryComes, LibraryInPoll, LibraryInChange, Wanted
<1> QED BY <1>2, <1>4, <1>5, <1>6, <1>7, <1>8, <1>9, <1>10, <1>11, <1>12, <1>13, <1>14 DEF SyncInv

\* Only a library change moves.
LEMMA ChangeMoves ==
    ASSUME SyncInv, change # NoTask, change' \in LibraryChanges,
           UNCHANGED <<log, truth, generation, signal, past, requests>>,
           UNCHANGED <<cursorVars, shownVars, poll, command, compare, unread, unreadOwn>>,
           change'.request = change.request,
           change'.at = "answer" =>
              /\ change'.listedAt <= log.sequence
              /\ change'.library = LibraryAt(past, change'.listedAt),
           \A e \in EventsHeld(log) : ChangeEvent(change', e),
           LibraryInChange => LibraryInChange'
    PROVE  SyncInv' /\ Onward
<1>1. /\ UNCHANGED <<log, truth, generation, signal, past, requests>>
      /\ UNCHANGED <<poll, command, compare, apiSequence, ownRequests, syncWanted, busy>>
      /\ UNCHANGED <<screen, seenGeneration, librarySequence, unread, unreadOwn>>
  BY DEF cursorVars, shownVars
<1>2. Calm /\ Onward
  BY <1>1, StillCalm, StillOnward
<1>3. change' # NoTask
  BY DEF LibraryChanges, NoTask
<1>4. EventsOk(log') /\ PastOk(past', log', truth') /\ EventsTell(past', log', requests')
  BY <1>2, CalmPast
<1>5. RingShown(past', log', screen', requests', RingIds(ownRequests'))
  BY <1>1 DEF SyncInv
<1>6. NumbersTyped'
  BY <1>1 DEF SyncInv, NumbersTyped
<1>7. TasksTyped'
  BY <1>1 DEF SyncInv, TasksTyped
<1>8. CommandTells'
  BY <1>1 DEF SyncInv, CommandTells
<1>9. ChangeTells'
  BY <1>1, <1>3 DEF SyncInv, ChangeTells
<1>10. PollTells'
  BY <1>1 DEF SyncInv, PollTells
<1>11. ScreenTells'
  BY <1>1 DEF SyncInv, ScreenTells
<1>12. BusyTells'
  BY <1>1 DEF SyncInv, BusyTells, Selecting
<1>13. RevisionComes'
  BY <1>1 DEF SyncInv, RevisionComes, RevisionInPoll, RevisionInCommand, Wanted, Selecting
<1>14. LibraryComes'
  <2>1. LibraryComes
    BY DEF SyncInv
  <2>2. (LibraryInPoll' <=> LibraryInPoll) /\ (Wanted' <=> Wanted)
    BY <1>1 DEF LibraryInPoll, Wanted
  <2> QED BY <1>1, <2>1, <2>2 DEF LibraryComes
<1> QED BY <1>2, <1>4, <1>5, <1>6, <1>7, <1>8, <1>9, <1>10, <1>11, <1>12, <1>13, <1>14 DEF SyncInv

\* Only a poll moves, and it is no longer one that listens for events.
LEMMA PollMoves ==
    ASSUME SyncInv, poll' \in Listening \union Polls, poll'.at # "since",
           UNCHANGED <<log, truth, generation, signal, past, requests>>,
           UNCHANGED <<cursorVars, shownVars, command, change, compare, unread, unreadOwn>>,
           PollRead(past, log, truth, screen, poll'),
           RevisionInPoll \/ poll.at \in {"since", "failed"} =>
              RevisionInPoll' \/ poll'.at = "failed" \/ screen.revision = truth.revision,
           LibraryInPoll \/ poll.at \in {"since", "failed"} =>
              LibraryInPoll' \/ poll'.at = "failed" \/ screen.library = truth.library
    PROVE  SyncInv' /\ Onward
<1>1. /\ UNCHANGED <<log, truth, generation, signal, past, requests>>
      /\ UNCHANGED <<command, change, compare, apiSequence, ownRequests, syncWanted, busy>>
      /\ UNCHANGED <<screen, seenGeneration, librarySequence, unread, unreadOwn>>
  BY DEF cursorVars, shownVars
<1>2. Calm /\ Onward
  BY <1>1, StillCalm, StillOnward
<1>4. EventsOk(log') /\ PastOk(past', log', truth') /\ EventsTell(past', log', requests')
  BY <1>2, CalmPast
<1>5. RingShown(past', log', screen', requests', RingIds(ownRequests'))
  BY <1>1 DEF SyncInv
<1>6. NumbersTyped'
  BY <1>1 DEF SyncInv, NumbersTyped
<1>7. TasksTyped'
  BY <1>1 DEF SyncInv, TasksTyped
<1>8. CommandTells'
  BY <1>1 DEF SyncInv, CommandTells, OnItsWay
<1>9. ChangeTells'
  BY <1>1 DEF SyncInv, ChangeTells, OnItsWay
<1>10. PollTells'
  BY <1>1 DEF PollTells
<1>11. ScreenTells'
  BY <1>1 DEF SyncInv, ScreenTells
<1>12. BusyTells'
  BY <1>1 DEF SyncInv, BusyTells, Selecting
<1>13. RevisionComes'
  <2>1. RevisionComes
    BY DEF SyncInv
  <2>2. RevisionInCommand' <=> RevisionInCommand
    BY <1>1 DEF RevisionInCommand
  <2>3. Selecting' <=> Selecting
    BY <1>1 DEF Selecting
  <2> QED BY <1>1, <2>1, <2>2, <2>3 DEF RevisionComes, Wanted
<1>14. LibraryComes'
  <2>1. LibraryComes
    BY DEF SyncInv
  <2>2. LibraryInChange' <=> LibraryInChange
    BY <1>1 DEF LibraryInChange
  <2> QED BY <1>1, <2>1, <2>2 DEF LibraryComes, Wanted
<1> QED BY <1>2, <1>4, <1>5, <1>6, <1>7, <1>8, <1>9, <1>10, <1>11, <1>12, <1>13, <1>14 DEF SyncInv

\* What the answer of an event's command holds is of the past.
LEMMA EventCounted ==
    ASSUME SyncInv, NEW e \in EventsHeld(log)
    PROVE  /\ RevisionAt(past, e.sequence) <= truth.revision
           /\ e.sequence \in Nat /\ e.sequence <= log.sequence
<1>1. EventsOk(log) /\ PastOk(past, log, truth) /\ log.sequence \in Nat
  BY DEF SyncInv, EventsOk
<1>2. e.sequence \in 1 .. log.sequence
  BY <1>1, EventIsPast
<1>3. /\ e.sequence \in 0 .. log.sequence /\ log.sequence \in 0 .. log.sequence
      /\ e.sequence <= log.sequence /\ e.sequence \in Nat
  BY <1>1, <1>2
<1> QED BY <1>1, <1>3 DEF PastOk

\* A command of the desktop runs at the owner.
LEMMA CommandRunsKeeps ==
    ASSUME SyncInv, CapacityAssumption, CommandRuns
    PROVE  SyncInv' /\ Onward
<1> DEFINE reads == IF command.kind = "edit" THEN "state" ELSE "versions"
           field == IF command.kind = "edit" THEN "revision" ELSE "versions"
<1>1. /\ command.at = "send" /\ command # NoTask
      /\ UNCHANGED <<generation, signal, cursorVars, shownVars, poll, change, compare,
                     requests, unread, unreadOwn>>
  BY DEF CommandRuns, NoTask
<1>2. command \in Commands /\ command.kind \in {"edit", "version"}
  BY <1>1 DEF SyncInv, TasksTyped, Commands
<1>3. /\ OnItsWay(requests, ownRequests, poll, command.request)
      /\ command.revision <= truth.revision
      /\ change # NoTask => change.request # command.request
      /\ \A e \in EventsHeld(log) : CommandEvent(past, command, e)
  BY <1>1 DEF SyncInv, CommandTells
<1>4. \A e \in EventsHeld(log) : e.request # command.request
  BY <1>1, <1>3 DEF CommandEvent
<1>5. ~RevisionInCommand
  BY <1>1 DEF RevisionInCommand
<1>6. CASE /\ CommitBy(field, command.request)
           /\ command' = [command EXCEPT !.at = reads, !.answered = truth'.revision]
  <2> DEFINE new == EventOf(log.sequence + 1, command.request, "asset")
  <2>1. field \in {"revision", "versions"} /\ KindOf(field) = "asset"
    BY DEF KindOf
  <2>2. command.request \in Nat /\ command.request <= requests /\ requests \in Nat
    BY <1>3 DEF OnItsWay, SyncInv, NumbersTyped
  <2>3. Recorded("asset", command.request)
        /\ (field = "versions" => truth'.revision = truth.revision)
    <3> HIDE DEF field
    <3> QED BY <1>6, <2>1, <2>2, CommitLeaves
  <2>4. /\ new.request = command.request /\ new.kind = "asset"
        /\ new.sequence = log.sequence + 1
    BY DEF EventOf
  <2>5. \A e \in EventsHeld(log') : e \in EventsHeld(log) \/ e = new
    BY <2>3 DEF Recorded
  <2>6. /\ UNCHANGED <<poll, change, compare, apiSequence, ownRequests, syncWanted, busy>>
        /\ UNCHANGED <<screen, seenGeneration, librarySequence, requests, generation>>
        /\ UNCHANGED <<unread, unreadOwn, signal>>
    BY <1>1 DEF cursorVars, shownVars
  <2>7. /\ truth'.revision \in Nat /\ truth.revision \in Nat
        /\ truth.revision <= truth'.revision /\ truth'.library = truth.library
    BY <2>3 DEF Recorded, PastOk, Values, SyncInv
  <2>8. /\ command' \in Commands /\ command'.at = reads
        /\ command'.request = command.request /\ command'.kind = command.kind
        /\ command'.revision = command.revision /\ command.revision \in Nat
    BY <1>2, <1>6, <2>7 DEF Commands
  <2> HIDE DEF new
  <2>9. EventsOk(log') /\ PastOk(past', log', truth') /\ EventsTell(past', log', requests')
    BY <2>2, <2>3, <2>6, CommittedEvents DEF Recorded
  <2>10. RingShown(past', log', screen', requests', RingIds(ownRequests'))
    <3>1. RingShown(past, log, screen, requests, RingIds(ownRequests))
      BY DEF SyncInv
    <3>2. command.request \notin RingIds(ownRequests)
      BY <1>3 DEF OnItsWay
    <3>3. RingShown(past', log', screen, requests, RingIds(ownRequests))
      BY <2>2, <2>3, <3>1, <3>2, CommittedRing
    <3> QED BY <2>6, <3>3
  <2>11. NumbersTyped' /\ TasksTyped'
    BY <2>6, <2>8 DEF SyncInv, NumbersTyped, TasksTyped
  <2>12. CommandTells'
    <3>1. OnItsWay(requests', ownRequests', poll', command'.request)
      BY <1>3, <2>6, <2>8
    <3>2. command'.revision <= truth'.revision
      BY <1>3, <2>7, <2>8
    <3>3. ASSUME NEW e \in EventsHeld(log') PROVE CommandEvent(past', command', e)
      <4>1. CASE e = new
        <5>1. command.kind = "version" => ~RevisionMoved(past', log.sequence + 1)
          BY <2>2, <2>3, CommittedEvents
        <5>2. command'.at # "send" /\ (command.kind = "edit" => command'.at = "state")
          BY <2>8
        <5> QED BY <1>2, <2>4, <2>8, <4>1, <5>1, <5>2 DEF CommandEvent
      <4>2. CASE e \in EventsHeld(log)
        BY <1>4, <2>8, <4>2 DEF CommandEvent
      <4> QED BY <2>5, <4>1, <4>2
    <3> QED BY <1>3, <2>6, <2>8, <3>1, <3>2, <3>3 DEF CommandTells
  <2>13. ChangeTells'
    <3>1. change # NoTask => command.request # change.request
      BY <1>3
    <3> QED BY <2>2, <2>3, <2>6, <3>1, CommittedChange
  <2>14. PollTells'
    <3>1. poll.at = "since" => command.request \notin RingIds(poll.own)
      BY <1>3 DEF OnItsWay
    <3> QED BY <2>2, <2>3, <2>6, <3>1, CommittedPoll
  <2>15. ScreenTells'
    BY <2>2, <2>3, <2>6, CommittedScreen
  <2>16. BusyTells'
    BY <1>1, <2>6 DEF SyncInv, BusyTells, Selecting
  <2>17. RevisionComes'
    <3>1. CASE command.kind = "edit"
      <4>1. command'.at = "state" /\ command' # NoTask /\ command'.kind = "edit"
        BY <2>8, <3>1 DEF NoTask
      <4> QED BY <4>1 DEF RevisionComes, RevisionInCommand
    <3>2. CASE command.kind = "version"
      <4>1. truth'.revision = truth.revision
        BY <2>3, <3>2
      <4>2. (RevisionInPoll' <=> RevisionInPoll) /\ (Wanted' <=> Wanted)
        BY <2>6, <4>1 DEF RevisionInPoll, Wanted
      <4> QED BY <1>1, <1>5, <2>6, <4>1, <4>2 DEF SyncInv, RevisionComes
    <3> QED BY <1>2, <3>1, <3>2
  <2>18. LibraryComes'
    BY <2>6, <2>7 DEF SyncInv, LibraryComes, LibraryInPoll, LibraryInChange, Wanted
  <2>19. Onward
    BY <2>6, StillOnward
  <2> QED BY <2>9, <2>10, <2>11, <2>12, <2>13, <2>14, <2>15, <2>16, <2>17, <2>18, <2>19 DEF SyncInv
<1>7. CASE UNCHANGED <<log, truth, past>> /\
           \/ command.kind = "edit"
              /\ command' = [command EXCEPT !.at = reads, !.answered = truth.revision]
           \/ command' = [command EXCEPT !.at = "failed"]
  <2>1. truth.revision \in Nat
    BY DEF SyncInv, PastOk, Values
  <2>2. /\ command' \in Commands
        /\ command'.request = command.request /\ command'.kind = command.kind
        /\ command'.revision = command.revision
    BY <1>2, <1>7, <2>1 DEF Commands
  <2>3. \A e \in EventsHeld(log) : CommandEvent(past, command', e)
    BY <1>4, <2>2 DEF CommandEvent
  <2> QED BY <1>1, <1>3, <1>5, <1>7, <2>2, <2>3, CommandMoves
<1>8. \/ /\ CommitBy(field, command.request)
         /\ command' = [command EXCEPT !.at = reads, !.answered = truth'.revision]
      \/ UNCHANGED <<log, truth, past>> /\
           \/ command.kind = "edit"
              /\ command' = [command EXCEPT !.at = reads, !.answered = truth.revision]
           \/ command' = [command EXCEPT !.at = "failed"]
  BY DEF CommandRuns
<1> QED BY <1>6, <1>7, <1>8

\* Its answer is read back: the state, the versions, the session.
LEMMA CommandReadsKeeps ==
    ASSUME SyncInv, CommandReads
    PROVE  SyncInv' /\ Onward
<1>1. UNCHANGED <<ownerVars, cursorVars, shownVars, requests, past, unread, unreadOwn>>
      /\ UNCHANGED <<poll, change, compare>>
  BY DEF CommandReads, OnlyTask
<1>2. /\ UNCHANGED <<log, truth, generation, signal, past, requests>>
      /\ UNCHANGED <<cursorVars, shownVars, poll, change, compare, unread, unreadOwn>>
  BY <1>1 DEF ownerVars
<1>3. command # NoTask /\ command.at # "send" /\ command.at # "answer"
  BY DEF CommandReads, Refreshing, Failing, NoTask
<1>4. command \in Commands
  BY <1>3 DEF SyncInv, TasksTyped
<1>5. /\ command.revision <= truth.revision
      /\ \A e \in EventsHeld(log) : CommandEvent(past, command, e)
  BY <1>3 DEF SyncInv, CommandTells
<1>6. /\ truth.revision \in Nat /\ truth.versions \in Nat /\ generation \in Nat
      /\ truth.revision <= truth.revision
  BY DEF SyncInv, PastOk, Values, NumbersTyped
<1>7. CASE /\ command.at = "state" /\ command.kind = "edit"
           /\ \E whole \in BOOLEAN :
                 command' = [command EXCEPT !.at = IF whole THEN "versions" ELSE "session",
                                            !.whole = whole, !.revision = truth.revision]
  <2>1. PICK whole \in BOOLEAN :
            command' = [command EXCEPT !.at = IF whole THEN "versions" ELSE "session",
                                       !.whole = whole, !.revision = truth.revision]
    BY <1>7
  <2>2. /\ command' \in Commands /\ command'.at \in {"versions", "session"}
        /\ command'.request = command.request /\ command'.kind = command.kind
        /\ command'.revision = truth.revision
    BY <1>4, <1>6, <2>1 DEF Commands
  <2>3. ASSUME NEW e \in EventsHeld(log) PROVE CommandEvent(past, command', e)
    <3>1. CommandEvent(past, command, e) /\ RevisionAt(past, e.sequence) <= truth.revision
      BY <1>5, EventCounted
    <3> QED BY <1>7, <2>2, <3>1 DEF CommandEvent
  <2>4. RevisionInCommand'
    <3>1. command' # NoTask
      BY <2>2 DEF NoTask
    <3> QED BY <1>2, <1>7, <2>2, <3>1 DEF RevisionInCommand
  <2>5. command'.revision <= truth.revision
    BY <1>6, <2>2
  <2> QED BY <1>2, <1>3, <2>2, <2>3, <2>4, <2>5, CommandMoves
<1>8. CASE /\ command.at \in {"versions", "session"}
           /\ \/ command' = [command EXCEPT !.at = "session", !.versions = truth.versions]
              \/ /\ command.at = "session" \/ command.kind = "version"
                 /\ command' = [command EXCEPT !.at = "answer", !.versions = truth.versions]
              \/ /\ command.at = "session"
                 /\ command' = [command EXCEPT !.at = "answer", !.generation = generation]
  <2>1. /\ command' \in Commands /\ command'.at \in {"session", "answer"}
        /\ command'.request = command.request /\ command'.kind = command.kind
        /\ command'.revision = command.revision
    BY <1>4, <1>6, <1>8 DEF Commands
  <2>2. ASSUME NEW e \in EventsHeld(log) PROVE CommandEvent(past, command', e)
    <3>1. CommandEvent(past, command, e)
      BY <1>5
    <3> QED BY <1>8, <2>1, <3>1 DEF CommandEvent
  <2>3. RevisionInCommand => RevisionInCommand'
    <3>1. command' # NoTask
      BY <2>1 DEF NoTask
    <3> QED BY <1>2, <1>8, <2>1, <3>1 DEF RevisionInCommand
  <2> QED BY <1>2, <1>3, <1>5, <2>1, <2>2, <2>3, CommandMoves
<1>9. CASE Failing(command, command')
  <2>1. command' = [command EXCEPT !.at = "failed"]
    BY <1>9 DEF Failing
  <2>2. /\ command' \in Commands /\ command'.at = "failed"
        /\ command'.request = command.request /\ command'.kind = command.kind
        /\ command'.revision = command.revision
    BY <1>4, <2>1 DEF Commands
  <2>3. ASSUME NEW e \in EventsHeld(log) PROVE CommandEvent(past, command', e)
    <3>1. CommandEvent(past, command, e)
      BY <1>5
    <3> QED BY <2>2, <3>1 DEF CommandEvent
  <2>4. RevisionInCommand => RevisionInCommand'
    <3>1. command' # NoTask
      BY <2>2 DEF NoTask
    <3> QED BY <2>2, <3>1 DEF RevisionInCommand
  <2> QED BY <1>2, <1>3, <1>5, <2>2, <2>3, <2>4, CommandMoves
<1>10. CASE command.kind = "edit" /\ Refreshing(command, command')
  <2>1. CASE command.at = "state"
    <3> DEFINE whole == command.whole \/ truth.revision # command.answered
    <3>1. command' = [command EXCEPT !.at = IF whole THEN "versions" ELSE "session",
                                     !.whole = whole, !.revision = truth.revision]
      BY <1>10, <2>1 DEF Refreshing
    <3>2. whole \in BOOLEAN
      BY <1>4 DEF Commands
    <3> HIDE DEF whole
    <3> QED BY <1>7, <1>10, <2>1, <3>1, <3>2
  <2>2. CASE command.at # "state"
    BY <1>8, <1>10, <2>2 DEF Refreshing
  <2> QED BY <2>1, <2>2
<1>11. CASE /\ command.at = "versions" /\ command.kind = "version"
            /\ command' = [command EXCEPT !.at = "answer", !.versions = truth.versions]
  BY <1>8, <1>11
<1> QED BY <1>9, <1>10, <1>11 DEF CommandReads

\* A change of the library runs at the owner.
LEMMA ChangeRunsKeeps ==
    ASSUME SyncInv, CapacityAssumption, ChangeRuns
    PROVE  SyncInv' /\ Onward
<1>1. /\ change.at = "send" /\ change # NoTask
      /\ UNCHANGED <<generation, signal, cursorVars, shownVars, poll, command, compare,
                     requests, unread, unreadOwn>>
  BY DEF ChangeRuns, NoTask
<1>2. change \in LibraryChanges
  BY <1>1 DEF SyncInv, TasksTyped
<1>3. /\ OnItsWay(requests, ownRequests, poll, change.request)
      /\ \A e \in EventsHeld(log) : ChangeEvent(change, e)
  BY <1>1 DEF SyncInv, ChangeTells
<1>4. \A e \in EventsHeld(log) : e.request # change.request
  BY <1>1, <1>3 DEF ChangeEvent
<1>5. ~LibraryInChange
  BY <1>1 DEF LibraryInChange
<1>6. CASE /\ CommitBy("library", change.request)
           /\ change' = [change EXCEPT !.at = "list"]
  <2> DEFINE new == EventOf(log.sequence + 1, change.request, "preset")
  <2>1. KindOf("library") = "preset"
    BY DEF KindOf
  <2>2. change.request \in Nat /\ change.request <= requests /\ requests \in Nat
    BY <1>3 DEF OnItsWay, SyncInv, NumbersTyped
  <2>3. Recorded("preset", change.request)
    BY <1>6, <2>1, <2>2, CommitLeaves
  <2>4. /\ new.request = change.request /\ new.kind = "preset"
    BY DEF EventOf
  <2>5. \A e \in EventsHeld(log') : e \in EventsHeld(log) \/ e = new
    BY <2>3 DEF Recorded
  <2>6. /\ UNCHANGED <<poll, command, compare, apiSequence, ownRequests, syncWanted, busy>>
        /\ UNCHANGED <<screen, seenGeneration, librarySequence, requests, generation>>
        /\ UNCHANGED <<unread, unreadOwn, signal>>
    BY <1>1 DEF cursorVars, shownVars
  <2>7. truth'.revision = truth.revision
    BY <2>3 DEF Recorded
  <2>8. /\ change' \in LibraryChanges /\ change'.at = "list" /\ change' # NoTask
        /\ change'.request = change.request
    BY <1>2, <1>6 DEF LibraryChanges, NoTask
  <2> HIDE DEF new
  <2>9. EventsOk(log') /\ PastOk(past', log', truth') /\ EventsTell(past', log', requests')
    BY <2>2, <2>3, <2>6, CommittedEvents DEF Recorded
  <2>10. RingShown(past', log', screen', requests', RingIds(ownRequests'))
    <3>1. RingShown(past, log, screen, requests, RingIds(ownRequests))
      BY DEF SyncInv
    <3>2. change.request \notin RingIds(ownRequests)
      BY <1>3 DEF OnItsWay
    <3>3. RingShown(past', log', screen, requests, RingIds(ownRequests))
      BY <2>2, <2>3, <3>1, <3>2, CommittedRing
    <3> QED BY <2>6, <3>3
  <2>11. NumbersTyped' /\ TasksTyped'
    BY <2>6, <2>8 DEF SyncInv, NumbersTyped, TasksTyped
  <2>12. CommandTells'
    <3>1. command # NoTask => change.request # command.request
      BY <1>1 DEF SyncInv, CommandTells
    <3> QED BY <1>1, <2>2, <2>3, <2>6, <2>8, <3>1, CommittedCommand
  <2>13. ChangeTells'
    <3>1. OnItsWay(requests', ownRequests', poll', change'.request)
      BY <1>3, <2>6, <2>8
    <3>2. \A e \in EventsHeld(log') : ChangeEvent(change', e)
      BY <1>4, <2>4, <2>5, <2>8 DEF ChangeEvent
    <3> QED BY <2>8, <3>1, <3>2 DEF ChangeTells
  <2>14. PollTells'
    <3>1. poll.at = "since" => change.request \notin RingIds(poll.own)
      BY <1>3 DEF OnItsWay
    <3> QED BY <2>2, <2>3, <2>6, <3>1, CommittedPoll
  <2>15. ScreenTells'
    BY <2>2, <2>3, <2>6, CommittedScreen
  <2>16. BusyTells'
    BY <2>6 DEF SyncInv, BusyTells, Selecting
  <2>17. RevisionComes'
    BY <2>6, <2>7 DEF SyncInv, RevisionComes, RevisionInPoll, RevisionInCommand, Wanted,
                      Selecting
  <2>18. LibraryComes'
    BY <2>8 DEF LibraryComes, LibraryInChange
  <2>19. Onward
    BY <2>6, StillOnward
  <2> QED BY <2>9, <2>10, <2>11, <2>12, <2>13, <2>14, <2>15, <2>16, <2>17, <2>18, <2>19 DEF SyncInv
<1>7. CASE UNCHANGED <<log, truth, past>> /\ change' = [change EXCEPT !.at = "failed"]
  <2>1. /\ change' \in LibraryChanges /\ change'.at = "failed"
        /\ change'.request = change.request
    BY <1>2, <1>7 DEF LibraryChanges
  <2>2. \A e \in EventsHeld(log) : ChangeEvent(change', e)
    BY <1>4, <2>1 DEF ChangeEvent
  <2> QED BY <1>1, <1>5, <1>7, <2>1, <2>2, ChangeMoves
<1> QED BY <1>6, <1>7 DEF ChangeRuns

\* The library is read after it.
LEMMA ChangeReadsKeeps ==
    ASSUME SyncInv, ChangeReads
    PROVE  SyncInv' /\ Onward
<1>1. UNCHANGED <<ownerVars, cursorVars, shownVars, requests, past, unread, unreadOwn>>
      /\ UNCHANGED <<poll, command, compare>>
  BY DEF ChangeReads, OnlyTask
<1>2. /\ UNCHANGED <<log, truth, generation, signal, past, requests>>
      /\ UNCHANGED <<cursorVars, shownVars, poll, command, compare, unread, unreadOwn>>
  BY <1>1 DEF ownerVars
<1>3. change # NoTask /\ change.at # "send" /\ change.at # "answer"
  BY DEF ChangeReads, Failing, NoTask
<1>4. change \in LibraryChanges
  BY <1>3 DEF SyncInv, TasksTyped
<1>5. \A e \in EventsHeld(log) : ChangeEvent(change, e)
  BY <1>3 DEF SyncInv, ChangeTells
<1>6. /\ truth.library \in Nat /\ log.sequence \in Nat /\ log.sequence <= log.sequence
      /\ truth.library = LibraryAt(past, log.sequence)
  BY DEF SyncInv, PastOk, Values, EventsOk
<1>7. CASE /\ change.at = "list"
           /\ change' = [change EXCEPT !.at = "answer", !.library = truth.library,
                                       !.listedAt = log.sequence]
  <2>1. /\ change' \in LibraryChanges /\ change'.at = "answer"
        /\ change'.request = change.request
        /\ change'.library = truth.library /\ change'.listedAt = log.sequence
    BY <1>4, <1>6, <1>7 DEF LibraryChanges
  <2>2. \A e \in EventsHeld(log) : ChangeEvent(change', e)
    BY <1>5, <1>7, <2>1, EventCounted DEF ChangeEvent
  <2>3. LibraryInChange'
    BY <1>2, <2>1 DEF LibraryInChange
  <2> QED BY <1>2, <1>3, <1>6, <2>1, <2>2, <2>3, ChangeMoves
<1>8. CASE Failing(change, change')
  <2>1. change' = [change EXCEPT !.at = "failed"]
    BY <1>8 DEF Failing
  <2>2. /\ change' \in LibraryChanges /\ change'.at = "failed"
        /\ change'.request = change.request
    BY <1>4, <2>1 DEF LibraryChanges
  <2>3. \A e \in EventsHeld(log) : ChangeEvent(change', e)
    BY <1>3, <1>5, <2>2 DEF ChangeEvent
  <2>4. LibraryInChange'
    BY <2>2 DEF LibraryInChange
  <2> QED BY <1>2, <1>3, <2>2, <2>3, <2>4, ChangeMoves
<1> QED BY <1>7, <1>8 DEF ChangeReads

\* A comparison or a selection runs at the owner.
LEMMA PreviewRunsKeeps ==
    ASSUME SyncInv, PreviewRuns
    PROVE  SyncInv' /\ Onward
<1>1. /\ compare.at = "send" /\ generation' = generation + 1
      /\ compare' = [compare EXCEPT !.at = "answer", !.generation = generation']
      /\ UNCHANGED <<log, truth, signal, poll, command, change, requests, past>>
      /\ UNCHANGED <<syncWanted, busy, apiSequence, ownRequests, unread, unreadOwn>>
      /\ UNCHANGED <<screen, seenGeneration, librarySequence>>
  BY DEF PreviewRuns, cursorVars, shownVars, pastVars
<1>2. Calm /\ Onward
  BY <1>1, StillCalm, StillOnward
<1>3. /\ compare \in Comparisons /\ compare # NoTask /\ generation' \in Nat
  BY <1>1 DEF SyncInv, TasksTyped, NumbersTyped, NoTask
<1>4. /\ compare' \in Comparisons /\ compare' # NoTask
      /\ compare'.kind = compare.kind
  BY <1>1, <1>3 DEF Comparisons, NoTask
<1>5. Selecting' <=> Selecting
  BY <1>3, <1>4 DEF Selecting
<1>6. EventsOk(log') /\ PastOk(past', log', truth') /\ EventsTell(past', log', requests')
  BY <1>2, CalmPast
<1>7. RingShown(past', log', screen', requests', RingIds(ownRequests'))
  BY <1>1 DEF SyncInv
<1>8. NumbersTyped'
  BY <1>1, <1>3 DEF SyncInv, NumbersTyped
<1>9. TasksTyped'
  BY <1>1, <1>4 DEF SyncInv, TasksTyped
<1>10. CommandTells' /\ ChangeTells'
  BY <1>1 DEF SyncInv, CommandTells, ChangeTells
<1>11. PollTells' /\ ScreenTells'
  BY <1>1 DEF SyncInv, PollTells, ScreenTells
<1>12. BusyTells'
  BY <1>1, <1>5 DEF SyncInv, BusyTells
<1>13. RevisionComes'
  BY <1>1, <1>5 DEF SyncInv, RevisionComes, RevisionInPoll, RevisionInCommand, Wanted
<1>14. LibraryComes'
  BY <1>1 DEF SyncInv, LibraryComes, LibraryInPoll, LibraryInChange, Wanted
<1> QED BY <1>2, <1>6, <1>7, <1>8, <1>9, <1>10, <1>11, <1>12, <1>13, <1>14 DEF SyncInv

\* A poll without a gap that acts on no event of a sort has nothing to
\* read: every change since the cursor has landed, or moved another value.
LEMMA NothingToRead ==
    ASSUME SyncInv, poll.at = "since", ~Gap(log, poll.after), NEW sort \in {"asset", "preset"},
           \A e \in EventsHeld(log) :
              e.sequence > poll.after /\ e.request \notin RingIds(poll.own) => e.kind # sort
    PROVE  /\ sort = "asset" => RevisionAt(past, log.sequence) <= screen.revision
           /\ sort = "preset" => LibraryAt(past, log.sequence) <= screen.library
<1>1. /\ EventsOk(log) /\ PastOk(past, log, truth) /\ EventsTell(past, log, requests)
      /\ log.sequence \in Nat
  BY DEF SyncInv, EventsOk
<1>2. /\ poll.after = apiSequence /\ apiSequence \in Nat /\ apiSequence <= log.sequence
      /\ RevisionAt(past, apiSequence) <= screen.revision
      /\ LibraryAt(past, apiSequence) <= screen.library
      /\ screen.revision \in Nat /\ screen.library \in Nat
  BY DEF SyncInv, PollTells, ScreenTells, NumbersTyped, Values
<1>3. \A e \in EventsHeld(log) : e.request \in RingIds(poll.own) => EventLanded(past, screen, e)
  BY DEF SyncInv, PollTells, RingShown
<1>4. \A s \in apiSequence + 1 .. log.sequence : \E e \in EventsHeld(log) : e.sequence = s
  BY <1>1, <1>2, EventForEach
<1>5. ASSUME NEW s \in apiSequence + 1 .. log.sequence
      PROVE  /\ sort = "asset" /\ RevisionMoved(past, s) =>
                   RevisionAt(past, s) <= screen.revision
             /\ sort = "preset" /\ LibraryMoved(past, s) =>
                   LibraryAt(past, s) <= screen.library
  <2>1. PICK e \in EventsHeld(log) : e.sequence = s
    BY <1>4
  <2>2. e.sequence > poll.after
    BY <1>2, <2>1
  <2>3. EventTells(past, requests, e) /\ e.kind \in {"asset", "preset"}
    <3>1. e \in SyncEvent
      BY <1>1, EventIsPast
    <3> QED BY <1>1, <3>1 DEF EventsTell, SyncEvent
  <2>4. CASE e.request \in RingIds(poll.own)
    BY <1>3, <2>1, <2>4 DEF EventLanded
  <2>5. CASE e.request \notin RingIds(poll.own)
    <3>1. e.kind # sort
      BY <2>2, <2>5
    <3> QED BY <2>1, <2>3, <3>1 DEF EventTells
  <2> QED BY <2>4, <2>5
<1>6. CASE sort = "asset"
  <2> DEFINE f == [n \in 0 .. log.sequence |-> RevisionAt(past, n)]
  <2>1. \A n \in 0 .. log.sequence : f[n] = RevisionAt(past, n)
    OBVIOUS
  <2> HIDE DEF f
  <2>2. apiSequence \in 0 .. log.sequence /\ log.sequence \in 0 .. log.sequence
    BY <1>1, <1>2
  <2>3. f[apiSequence] <= screen.revision
    BY <1>2, <2>1, <2>2
  <2>4. ASSUME NEW s \in apiSequence + 1 .. log.sequence, f[s] # f[s - 1]
        PROVE  f[s] <= screen.revision
    <3>1. s \in 0 .. log.sequence /\ s - 1 \in 0 .. log.sequence
      BY <1>1, <1>2
    <3>2. RevisionMoved(past, s)
      BY <2>1, <2>4, <3>1 DEF RevisionMoved
    <3> QED BY <1>5, <1>6, <2>1, <3>1, <3>2
  <2>5. f[log.sequence] <= screen.revision
    BY <1>1, <1>2, <2>3, <2>4, Climbs
  <2> QED BY <1>6, <2>1, <2>2, <2>5
<1>7. CASE sort = "preset"
  <2> DEFINE f == [n \in 0 .. log.sequence |-> LibraryAt(past, n)]
  <2>1. \A n \in 0 .. log.sequence : f[n] = LibraryAt(past, n)
    OBVIOUS
  <2> HIDE DEF f
  <2>2. apiSequence \in 0 .. log.sequence /\ log.sequence \in 0 .. log.sequence
    BY <1>1, <1>2
  <2>3. f[apiSequence] <= screen.library
    BY <1>2, <2>1, <2>2
  <2>4. ASSUME NEW s \in apiSequence + 1 .. log.sequence, f[s] # f[s - 1]
        PROVE  f[s] <= screen.library
    <3>1. s \in 0 .. log.sequence /\ s - 1 \in 0 .. log.sequence
      BY <1>1, <1>2
    <3>2. LibraryMoved(past, s)
      BY <2>1, <2>4, <3>1 DEF LibraryMoved
    <3> QED BY <1>5, <1>7, <2>1, <3>1, <3>2
  <2>5. f[log.sequence] <= screen.library
    BY <1>1, <1>2, <2>3, <2>4, Climbs
  <2> QED BY <1>7, <2>1, <2>2, <2>5
<1> QED BY <1>6, <1>7

\* A poll once it knows what to read.
Planned(presets, assets, sequence, skipped) ==
    [at |-> IF presets THEN "presets" ELSE IF assets THEN "state" ELSE "answer",
     sequence |-> sequence, skipped |-> skipped,
     listed |-> presets, library |-> 0, listedAt |-> 0,
     asset |-> assets, whole |-> TRUE, answered |-> 0,
     revision |-> 0, versions |-> 0, generation |-> 0]

\* What the events leave unread: a poll without a gap whose events move
\* the revision, and did not land, reads it; so with the library.
LEMMA EventsPlan ==
    ASSUME SyncInv, PollReadsEvents
    PROVE  \E presets, assets \in BOOLEAN, skipped \in SUBSET Nat :
              /\ poll' = Planned(presets, assets, log.sequence, skipped)
              /\ ~assets => RevisionAt(past, log.sequence) <= screen.revision
              /\ ~presets => LibraryAt(past, log.sequence) <= screen.library
<1> DEFINE answer == Since(log, poll.after)
           own    == {poll.own[i] : i \in DOMAIN poll.own}
           acted  == {answer.events[i] : i \in DOMAIN answer.events}
           others == {e \in acted : e.request \notin own}
           has(sort) == answer.gap \/ \E e \in others : e.kind = sort
           skipped == {e.request : e \in acted \ others}
<1>1. poll.at = "since"
  BY DEF PollReadsEvents
<1>2. poll \in Listening /\ poll.after \in Nat /\ poll.own \in Seq(Nat)
  <2>1. poll \in Listening
    BY <1>1 DEF SyncInv, TasksTyped, NoTask, Polls, Reading
  <2> QED BY <2>1 DEF Listening
<1>3. EventsOk(log) /\ log.events \in Seq(SyncEvent)
  BY DEF SyncInv, EventsOk
<1>4. /\ answer.events = After(log.events, poll.after)
      /\ answer.sequence = log.sequence /\ answer.gap = Gap(log, poll.after)
  BY DEF Since
<1>5. /\ After(log.events, poll.after) \in Seq(SyncEvent)
      /\ ElementsOf(After(log.events, poll.after)) =
            {e \in ElementsOf(log.events) : e.sequence > poll.after}
  BY <1>2, <1>3, AfterEvents
<1>6. poll' = Planned(has("preset"), has("asset"), log.sequence, skipped)
  BY <1>4 DEF PollReadsEvents, Planned
<1> HIDE DEF answer
<1>7. acted = {e \in EventsHeld(log) : e.sequence > poll.after}
  <2>1. DOMAIN answer.events = 1 .. Len(answer.events)
    BY <1>4, <1>5, LenProperties
  <2>2. acted = ElementsOf(After(log.events, poll.after))
    BY <1>4, <2>1 DEF ElementsOf
  <2>3. ElementsOf(log.events) = EventsHeld(log)
    BY DEF ElementsOf, EventsHeld
  <2> QED BY <1>5, <2>2, <2>3
<1>8. own = RingIds(poll.own)
  BY <1>2, LenProperties DEF RingIds
<1> HIDE DEF acted, own
<1>9. skipped \in SUBSET Nat
  <2>1. \A e \in acted : e.request \in Nat
    <3> SUFFICES ASSUME NEW e \in acted PROVE e.request \in Nat
      OBVIOUS
    <3>1. e \in SyncEvent
      BY <1>3, <1>7, EventIsPast
    <3> QED BY <3>1 DEF SyncEvent
  <2> QED BY <2>1
<1>10. ASSUME NEW sort \in {"asset", "preset"}, ~has(sort)
       PROVE  /\ sort = "asset" => RevisionAt(past, log.sequence) <= screen.revision
              /\ sort = "preset" => LibraryAt(past, log.sequence) <= screen.library
  <2>1. ~Gap(log, poll.after)
    BY <1>4, <1>10
  <2>2. \A e \in EventsHeld(log) :
           e.sequence > poll.after /\ e.request \notin RingIds(poll.own) => e.kind # sort
    BY <1>7, <1>8, <1>10
  <2> QED BY <1>1, <2>1, <2>2, NothingToRead
<1>11. has("preset") \in BOOLEAN /\ has("asset") \in BOOLEAN
  BY <1>4 DEF Gap
<1> HIDE DEF has, skipped
<1> QED BY <1>6, <1>9, <1>10, <1>11

\* A poll reads: the events first, then what they call for.
LEMMA PollReadsKeeps ==
    ASSUME SyncInv, PollReads
    PROVE  SyncInv' /\ Onward
<1>1. UNCHANGED <<ownerVars, cursorVars, shownVars, requests, past, unread, unreadOwn>>
      /\ UNCHANGED <<command, change, compare>>
  BY DEF PollReads, OnlyTask
<1>2. /\ UNCHANGED <<log, truth, generation, signal, past, requests>>
      /\ UNCHANGED <<cursorVars, shownVars, command, change, compare, unread, unreadOwn>>
  BY <1>1 DEF ownerVars
<1>3. /\ PollRead(past, log, truth, screen, poll)
      /\ poll \in {NoTask} \union Listening \union Polls
  BY DEF SyncInv, PollTells, TasksTyped
<1>4. /\ log.sequence \in Nat /\ log.sequence <= log.sequence
      /\ truth \in Values /\ truth.revision \in Nat /\ truth.versions \in Nat
      /\ truth.library \in Nat
      /\ truth.revision <= truth.revision /\ generation \in Nat
      /\ truth.revision = RevisionAt(past, log.sequence)
      /\ truth.library = LibraryAt(past, log.sequence)
      /\ screen.revision \in Nat /\ screen.revision <= truth.revision
      /\ screen.library \in Nat /\ screen.library <= truth.library
  <2>1. /\ truth \in Values /\ screen \in Values /\ log.sequence \in Nat
        /\ truth.revision = RevisionAt(past, log.sequence)
        /\ truth.library = LibraryAt(past, log.sequence) /\ generation \in Nat
    BY DEF SyncInv, PastOk, NumbersTyped, EventsOk
  <2>2. /\ screen.revision <= truth.revision /\ librarySequence \in Nat
        /\ librarySequence <= log.sequence
        /\ screen.library = LibraryAt(past, librarySequence)
    BY DEF SyncInv, ScreenTells, NumbersTyped
  <2>3. librarySequence \in 0 .. log.sequence /\ log.sequence \in 0 .. log.sequence
    BY <2>1, <2>2
  <2>4. screen.library <= truth.library
    BY <2>1, <2>2, <2>3 DEF SyncInv, PastOk
  <2> QED BY <2>1, <2>2, <2>4 DEF Values
<1>5. CASE PollReadsEvents
  <2>1. PICK presets \in BOOLEAN, assets \in BOOLEAN, skipped \in SUBSET Nat :
              /\ poll' = Planned(presets, assets, log.sequence, skipped)
              /\ ~assets => RevisionAt(past, log.sequence) <= screen.revision
              /\ ~presets => LibraryAt(past, log.sequence) <= screen.library
    BY <1>5, EventsPlan
  <2>2. /\ poll'.at = IF presets THEN "presets" ELSE IF assets THEN "state" ELSE "answer"
        /\ poll'.sequence = log.sequence /\ poll'.listed = presets /\ poll'.asset = assets
    BY <2>1 DEF Planned
  <2>3. poll' \in Polls
    BY <1>4, <2>1 DEF Planned, Polls, Reading
  <2>4. PollRead(past, log, truth, screen, poll')
    BY <1>4, <2>1, <2>2 DEF PollRead
  <2>5. RevisionInPoll' \/ screen.revision = truth.revision
    <3>1. CASE assets
      BY <2>2, <3>1 DEF RevisionInPoll
    <3>2. CASE ~assets
      BY <1>4, <2>1, <3>2
    <3> QED BY <3>1, <3>2
  <2>6. LibraryInPoll' \/ screen.library = truth.library
    <3>1. CASE presets
      BY <2>2, <3>1 DEF LibraryInPoll
    <3>2. CASE ~presets
      BY <1>4, <2>1, <3>2
    <3> QED BY <3>1, <3>2
  <2>7. poll'.at # "since"
    BY <2>2
  <2> QED BY <1>2, <2>3, <2>4, <2>5, <2>6, <2>7, PollMoves
<1>6. CASE PollReadsPresets
  <2>1. /\ poll.at = "presets"
        /\ poll' = [poll EXCEPT !.at = IF poll.asset THEN "state" ELSE "answer",
                                !.library = truth.library, !.listedAt = log.sequence]
    BY <1>6 DEF PollReadsPresets
  <2>2. poll \in Polls
    BY <1>3, <2>1 DEF NoTask, Listening
  <2>3. /\ poll' \in Polls /\ poll'.at = (IF poll.asset THEN "state" ELSE "answer")
        /\ poll'.library = truth.library /\ poll'.listedAt = log.sequence
        /\ poll'.sequence = poll.sequence /\ poll'.listed = poll.listed
        /\ poll'.asset = poll.asset /\ poll'.revision = poll.revision
    BY <1>4, <2>1, <2>2 DEF Polls, Reading
  <2>4. poll.listed /\ poll.sequence <= log.sequence
        /\ (~poll.asset => RevisionAt(past, poll.sequence) <= screen.revision)
    BY <1>3, <2>1 DEF PollRead, Reading
  <2>5. PollRead(past, log, truth, screen, poll')
    BY <1>4, <2>3, <2>4 DEF PollRead
  <2>6. RevisionInPoll => RevisionInPoll'
    BY <2>1, <2>3 DEF RevisionInPoll
  <2>7. LibraryInPoll'
    BY <1>2, <2>3, <2>4 DEF LibraryInPoll, Reading
  <2>8. poll'.at # "since" /\ poll.at \notin {"since", "failed"}
    BY <2>1, <2>3
  <2> QED BY <1>2, <2>3, <2>5, <2>6, <2>7, <2>8, PollMoves
<1>7. CASE Refreshing(poll, poll')
  <2>1. poll.at \in {"state", "versions", "session"}
    BY <1>7 DEF Refreshing
  <2>2. poll \in Polls
    BY <1>3, <2>1 DEF NoTask, Listening
  <2>3. /\ poll.asset /\ poll.sequence <= log.sequence
        /\ ~poll.listed => LibraryAt(past, poll.sequence) <= screen.library
        /\ poll.at \in {"versions", "session"} =>
              /\ RevisionAt(past, poll.sequence) <= poll.revision
              /\ poll.revision <= truth.revision
        /\ poll.listed =>
              /\ poll.sequence <= poll.listedAt /\ poll.listedAt <= log.sequence
              /\ poll.library = LibraryAt(past, poll.listedAt)
    BY <1>3, <2>1 DEF PollRead, Reading
  <2>4. CASE poll.at = "state"
    <3>1. PICK whole \in BOOLEAN :
            poll' = [poll EXCEPT !.at = IF whole THEN "versions" ELSE "session",
                                 !.whole = whole, !.revision = truth.revision]
      <4> DEFINE whole == poll.whole \/ truth.revision # poll.answered
      <4>1. poll' = [poll EXCEPT !.at = IF whole THEN "versions" ELSE "session",
                                 !.whole = whole, !.revision = truth.revision]
        BY <1>7, <2>4 DEF Refreshing
      <4>2. whole \in BOOLEAN
        BY <2>2 DEF Polls
      <4> HIDE DEF whole
      <4> QED BY <4>1, <4>2
    <3>2. /\ poll' \in Polls /\ poll'.at \in {"versions", "session"}
          /\ poll'.revision = truth.revision /\ poll'.sequence = poll.sequence
          /\ poll'.listed = poll.listed /\ poll'.listedAt = poll.listedAt
          /\ poll'.library = poll.library /\ poll'.asset = poll.asset
      BY <1>4, <2>2, <3>1 DEF Polls, Reading
    <3>3. RevisionAt(past, poll.sequence) <= truth.revision
      <4>1. poll.sequence \in 0 .. log.sequence /\ log.sequence \in 0 .. log.sequence
        BY <1>4, <2>2, <2>3 DEF Polls
      <4> QED BY <1>4, <2>3, <4>1 DEF SyncInv, PastOk
    <3>4. PollRead(past, log, truth, screen, poll')
      BY <1>4, <2>3, <3>2, <3>3 DEF PollRead
    <3>5. RevisionInPoll'
      BY <1>2, <2>3, <3>2 DEF RevisionInPoll
    <3>6. LibraryInPoll => LibraryInPoll'
      BY <1>2, <2>4, <3>2 DEF LibraryInPoll, Reading
    <3>7. poll'.at # "since" /\ poll.at \notin {"since", "failed"}
      BY <2>1, <3>2
    <3> QED BY <1>2, <3>2, <3>4, <3>5, <3>6, <3>7, PollMoves
  <2>5. CASE poll.at # "state"
    <3>1. \/ poll' = [poll EXCEPT !.at = "session", !.versions = truth.versions]
          \/ poll' = [poll EXCEPT !.at = "answer", !.generation = generation]
      BY <1>7, <2>5 DEF Refreshing
    <3>2. /\ poll' \in Polls /\ poll'.at \in {"session", "answer"}
          /\ poll'.revision = poll.revision /\ poll'.sequence = poll.sequence
          /\ poll'.listed = poll.listed /\ poll'.listedAt = poll.listedAt
          /\ poll'.library = poll.library /\ poll'.asset = poll.asset
      BY <1>4, <2>2, <3>1 DEF Polls, Reading
    <3>3. PollRead(past, log, truth, screen, poll')
      BY <2>1, <2>3, <2>5, <3>2 DEF PollRead
    <3>4. RevisionInPoll => RevisionInPoll'
      BY <1>2, <2>5, <3>2, <2>1 DEF RevisionInPoll
    <3>5. LibraryInPoll => LibraryInPoll'
      BY <1>2, <2>1, <3>2 DEF LibraryInPoll, Reading
    <3>6. poll'.at # "since" /\ poll.at \notin {"since", "failed"}
      BY <2>1, <3>2
    <3> QED BY <1>2, <3>2, <3>3, <3>4, <3>5, <3>6, PollMoves
  <2> QED BY <2>4, <2>5
<1>8. CASE Failing(poll, poll')
  <2>1. /\ poll' = [poll EXCEPT !.at = "failed"] /\ poll \in Listening \union Polls
    BY <1>3, <1>8 DEF Failing, NoTask
  <2>2. poll' \in Listening \union Polls /\ poll'.at = "failed"
    <3>1. CASE poll \in Listening
      BY <2>1, <3>1 DEF Listening
    <3>2. CASE poll \in Polls
      BY <2>1, <3>2 DEF Polls
    <3> QED BY <2>1, <3>1, <3>2
  <2>3. PollRead(past, log, truth, screen, poll')
    BY <2>2 DEF PollRead, Reading
  <2> QED BY <1>2, <2>2, <2>3, PollMoves
<1> QED BY <1>5, <1>6, <1>7, <1>8 DEF PollReads

-----------------------------------------------------------------------------
\* The messages of the desktop, which end with sync_when_wanted.

\* What a message leaves of the poll.
AfterWhenWanted(now) ==
    /\ busy' = now.busy
    /\ syncWanted' \in BOOLEAN /\ unread' \in BOOLEAN /\ unreadOwn' \in BOOLEAN
    /\ poll' \in {NoTask} \union Listening \union Polls
    /\ poll' = poll \/ poll'.at # "since" \/ poll' = PollBegun
    /\ PollTells'
    /\ now.wanted \/ now.failed \/ now.failedOwn => Wanted'
    /\ Wanted => Wanted'
    /\ RevisionInPoll => RevisionInPoll' \/ (~now.syncing /\ poll.at = "answer")
    /\ LibraryInPoll => LibraryInPoll' \/ (~now.syncing /\ poll.at = "answer")

\* The decision is about what there was, with something added.
NowOk(now) ==
    /\ now.wanted \in BOOLEAN /\ now.syncing \in BOOLEAN /\ now.busy \in BOOLEAN
    /\ now.failed \in BOOLEAN /\ now.failedOwn \in BOOLEAN
    /\ syncWanted => now.wanted
    /\ unread => now.failed
    /\ unreadOwn => now.failedOwn
    /\ ~now.syncing =>
          poll.at \in {"none", "answer"} \/ (poll.at = "failed" /\ now.failed)
    /\ now.syncing => apiSequence' = apiSequence

\* What a message leaves, when the ring it leaves is shown.
LEMMA Afterwards ==
    ASSUME SyncInv, Calm, NEW now, NowOk(now), SyncWhenWanted(now),
           apiSequence' \in Nat, ownRequests' \in Seq(Nat),
           RingShown(past', log', screen', requests', RingIds(ownRequests'))
    PROVE  AfterWhenWanted(now)
<1>1. /\ busy' = now.busy
      /\ syncWanted' \in BOOLEAN /\ unread' \in BOOLEAN /\ unreadOwn' \in BOOLEAN
      /\ now.wanted \/ now.failed \/ now.failedOwn => Wanted'
      /\ now.syncing => poll' = poll
      /\ ~now.syncing => poll' = NoTask \/ poll' = PollBegun
  BY WhenWanted DEF NowOk
<1>2. poll \in {NoTask} \union Listening \union Polls
  BY DEF SyncInv, TasksTyped
<1>3. PollBegun \in Listening /\ PollBegun.at = "since" /\ NoTask.at = "none"
  BY DEF PollBegun, Listening, NoTask
<1>4. poll' \in {NoTask} \union Listening \union Polls
  BY <1>1, <1>2, <1>3 DEF NowOk
<1>5. poll' = poll \/ poll'.at # "since" \/ poll' = PollBegun
  BY <1>1, <1>3 DEF NowOk
<1>6. PollTells'
  <2>1. \/ poll' = poll /\ apiSequence' = apiSequence
        \/ poll' = NoTask
        \/ /\ poll' = PollBegun
           /\ RingShown(past', log', screen', requests', RingIds(ownRequests'))
    BY <1>1 DEF NowOk
  <2> QED BY <2>1, CalmPoll
<1>7. Wanted => Wanted'
  <2>1. CASE now.syncing
    <3>1. CASE syncWanted \/ unread \/ unreadOwn
      BY <1>1, <3>1 DEF NowOk
    <3>2. CASE poll.at \in {"since", "failed"}
      BY <1>1, <2>1, <3>2 DEF Wanted
    <3> QED BY <3>1, <3>2 DEF Wanted
  <2>2. CASE ~now.syncing
    BY <1>1, <2>2 DEF NowOk, Wanted
  <2> QED BY <2>1, <2>2 DEF NowOk
<1>8. /\ RevisionInPoll => RevisionInPoll' \/ (~now.syncing /\ poll.at = "answer")
      /\ LibraryInPoll => LibraryInPoll' \/ (~now.syncing /\ poll.at = "answer")
  <2>1. CASE now.syncing
    <3>1. poll' = poll /\ truth' = truth
      BY <1>1, <2>1 DEF Calm
    <3> QED BY <3>1 DEF RevisionInPoll, LibraryInPoll
  <2>2. CASE ~now.syncing
    <3>1. poll.at \in {"none", "answer", "failed"}
      BY <2>2 DEF NowOk
    <3> QED BY <2>2, <3>1 DEF RevisionInPoll, LibraryInPoll, Reading
  <2> QED BY <2>1, <2>2 DEF NowOk
<1> QED BY <1>1, <1>4, <1>5, <1>6, <1>7, <1>8 DEF AfterWhenWanted

\* The revision and the library are still on their way.
LEMMA RevisionStillComes ==
    ASSUME SyncInv, Calm, Wanted => Wanted', signal => signal' \/ Wanted',
           screen'.revision <= truth.revision,
           RevisionInPoll => RevisionInPoll' \/ Wanted' \/ screen'.revision = truth.revision,
           RevisionInCommand =>
              \/ RevisionInCommand' \/ Wanted' \/ screen'.revision = truth.revision
              \/ busy' /\ command' = NoTask /\ ~Selecting',
           busy /\ command = NoTask /\ ~Selecting =>
              busy' /\ command' = NoTask /\ ~Selecting'
    PROVE  RevisionComes'
<1>1. RevisionComes /\ truth' = truth
  BY DEF SyncInv, Calm
<1>2. /\ screen.revision \in Nat /\ screen'.revision \in Nat /\ truth.revision \in Nat
      /\ screen.revision <= screen'.revision
  BY DEF SyncInv, NumbersTyped, PastOk, Values, Calm
<1>3. screen.revision = truth.revision => screen'.revision = truth.revision
  BY <1>2
<1> QED BY <1>1, <1>3 DEF RevisionComes

\* So with the library.
LEMMA LibraryStillComes ==
    ASSUME SyncInv, Calm, Wanted => Wanted', signal => signal' \/ Wanted',
           screen'.library <= truth.library,
           LibraryInPoll => LibraryInPoll' \/ Wanted' \/ screen'.library = truth.library,
           LibraryInChange => LibraryInChange' \/ Wanted' \/ screen'.library = truth.library
    PROVE  LibraryComes'
<1>1. LibraryComes /\ truth' = truth
  BY DEF SyncInv, Calm
<1>2. /\ screen.library \in Nat /\ screen'.library \in Nat /\ truth.library \in Nat
      /\ screen.library <= screen'.library
  BY DEF SyncInv, NumbersTyped, PastOk, Values, Calm
<1>3. screen.library = truth.library => screen'.library = truth.library
  BY <1>2
<1> QED BY <1>1, <1>3 DEF LibraryComes

\* Tasks that go on or have ended, beside a ring that has not taken them.
LEMMA TasksGoOn ==
    ASSUME SyncInv, Calm, NEW now, AfterWhenWanted(now),
           command' = command \/ command' = NoTask,
           change' = change \/ change' = NoTask,
           command' # NoTask => command.request \notin RingIds(ownRequests'),
           change' # NoTask => change.request \notin RingIds(ownRequests')
    PROVE  CommandTells' /\ ChangeTells'
<1>1. poll' = poll \/ poll'.at # "since" \/ poll' = PollBegun
  BY DEF AfterWhenWanted
<1>2. CommandTells'
  <2>1. CASE command' = NoTask
    BY <2>1 DEF CommandTells
  <2>2. CASE command' # NoTask
    <3>1. /\ command' = command /\ command # NoTask
          /\ OnItsWay(requests, ownRequests, poll, command.request)
          /\ change # NoTask => change.request # command.request
      BY <2>2 DEF SyncInv, CommandTells
    <3>2. OnItsWay(requests', ownRequests', poll', command.request)
      BY <1>1, <2>2, <3>1, CalmWay
    <3>3. change' # NoTask => change'.request # command.request
      BY <3>1
    <3> QED BY <3>1, <3>2, <3>3, CalmCommand
  <2> QED BY <2>1, <2>2
<1>3. ChangeTells'
  <2>1. CASE change' = NoTask
    BY <2>1 DEF ChangeTells
  <2>2. CASE change' # NoTask
    <3>1. /\ change' = change /\ change # NoTask
          /\ OnItsWay(requests, ownRequests, poll, change.request)
      BY <2>2 DEF SyncInv, ChangeTells
    <3>2. OnItsWay(requests', ownRequests', poll', change.request)
      BY <1>1, <2>2, <3>1, CalmWay
    <3> QED BY <3>1, <3>2, CalmChange
  <2> QED BY <2>1, <2>2
<1> QED BY <1>2, <1>3

\* A request on its way is in no ring.
LEMMA OnWayInNoRing ==
    ASSUME SyncInv
    PROVE  /\ command # NoTask =>
                 command.request \notin RingIds(ownRequests) /\ command.request \in 1 .. requests
           /\ change # NoTask =>
                 change.request \notin RingIds(ownRequests) /\ change.request \in 1 .. requests
BY DEF SyncInv, CommandTells, ChangeTells, OnItsWay

\* A message that leaves the screen's revision and library, the cursor and
\* the ring as they are: what it leaves of the poll, and the invariant.
Quietly ==
    /\ UNCHANGED <<log, truth, generation, past, screen, apiSequence, ownRequests>>
    /\ UNCHANGED librarySequence
    /\ requests' \in Nat /\ requests <= requests'

\* What such a message leaves of the screen and the poll,
LEMMA QuietlyAfter ==
    ASSUME SyncInv, Quietly, NEW now, NowOk(now), SyncWhenWanted(now)
    PROVE  /\ Calm /\ AfterWhenWanted(now)
           /\ RingShown(past', log', screen', requests', RingIds(ownRequests'))
<1>1. /\ screen \in Values /\ screen.revision \in Nat /\ screen.library \in Nat
      /\ apiSequence \in Nat /\ ownRequests \in Seq(Nat)
  BY DEF SyncInv, NumbersTyped, Values
<1>2. Calm
  BY <1>1 DEF Quietly, Calm
<1>3. RingShown(past', log', screen', requests', RingIds(ownRequests'))
  <2>1. RingShown(past, log, screen, requests, RingIds(ownRequests))
    BY DEF SyncInv
  <2>2. RingShown(past', log', screen', requests', RingIds(ownRequests))
    BY <1>2, <2>1, CalmRing
  <2> QED BY <2>2 DEF Quietly
<1>4. AfterWhenWanted(now)
  BY <1>1, <1>2, <1>3, Afterwards DEF Quietly
<1> QED BY <1>2, <1>3, <1>4

\* and that it keeps the invariant.
LEMMA QuietlyKeeps ==
    ASSUME SyncInv, Quietly, NEW now, NowOk(now), SyncWhenWanted(now),
           seenGeneration' \in Nat, seenGeneration <= seenGeneration',
           signal' \in BOOLEAN, signal => signal' \/ now.wanted,
           command' \in {NoTask} \union Commands,
           change' \in {NoTask} \union LibraryChanges,
           compare' \in {NoTask} \union Comparisons,
           CommandTells', ChangeTells',
           command' # NoTask => now.busy /\ ~Selecting',
           Selecting' => now.busy,
           RevisionInCommand =>
              \/ RevisionInCommand' \/ now.wanted \/ now.failedOwn
              \/ now.busy /\ command' = NoTask /\ ~Selecting',
           busy /\ command = NoTask /\ ~Selecting =>
              now.busy /\ command' = NoTask /\ ~Selecting',
           LibraryInChange => LibraryInChange' \/ now.wanted \/ now.failedOwn,
           now.syncing \/ poll.at # "answer"
    PROVE  SyncInv' /\ Onward
<1>1. /\ Calm /\ AfterWhenWanted(now)
      /\ RingShown(past', log', screen', requests', RingIds(ownRequests'))
  BY QuietlyAfter
<1>2. /\ busy' = now.busy
      /\ syncWanted' \in BOOLEAN /\ unread' \in BOOLEAN /\ unreadOwn' \in BOOLEAN
      /\ poll' \in {NoTask} \union Listening \union Polls
      /\ PollTells'
      /\ now.wanted \/ now.failed \/ now.failedOwn => Wanted'
      /\ Wanted => Wanted'
      /\ RevisionInPoll => RevisionInPoll'
      /\ LibraryInPoll => LibraryInPoll'
  BY <1>1 DEF AfterWhenWanted
<1>3. EventsOk(log') /\ PastOk(past', log', truth') /\ EventsTell(past', log', requests')
  BY <1>1, CalmPast
<1>4. NumbersTyped'
  BY <1>2 DEF SyncInv, NumbersTyped, Quietly, NowOk
<1>5. TasksTyped'
  BY <1>2 DEF TasksTyped
<1>6. ScreenTells'
  BY <1>1, CalmScreen DEF Quietly
<1>7. BusyTells'
  BY <1>2 DEF BusyTells
<1>8. screen' = screen /\ screen.revision <= truth.revision /\ screen.library <= truth.library
  <2>1. /\ librarySequence \in 0 .. log.sequence /\ log.sequence \in 0 .. log.sequence
        /\ librarySequence <= log.sequence
    BY DEF SyncInv, ScreenTells, NumbersTyped, EventsOk
  <2> QED BY <2>1 DEF SyncInv, ScreenTells, PastOk, Quietly
<1>9. signal => signal' \/ Wanted'
  BY <1>2
<1>10. RevisionComes'
  <2>1. RevisionInCommand =>
           RevisionInCommand' \/ Wanted' \/ (busy' /\ command' = NoTask /\ ~Selecting')
    BY <1>2
  <2>2. busy /\ command = NoTask /\ ~Selecting => busy' /\ command' = NoTask /\ ~Selecting'
    BY <1>2
  <2>3. screen'.revision <= truth.revision
    BY <1>8
  <2> QED BY <1>1, <1>2, <1>9, <2>1, <2>2, <2>3, RevisionStillComes
<1>11. LibraryComes'
  <2>1. LibraryInChange => LibraryInChange' \/ Wanted'
    BY <1>2
  <2>2. screen'.library <= truth.library
    BY <1>8
  <2> QED BY <1>1, <1>2, <1>9, <2>1, <2>2, LibraryStillComes
<1>12. Onward
  <2>1. /\ screen.revision \in Nat /\ screen.library \in Nat
        /\ apiSequence \in Nat /\ seenGeneration \in Nat
    BY DEF SyncInv, NumbersTyped, Values
  <2>2. screen' = screen /\ apiSequence' = apiSequence
    BY DEF Quietly
  <2> QED BY <2>1, <2>2 DEF Onward
<1> QED BY <1>1, <1>2, <1>3, <1>4, <1>5, <1>6, <1>7, <1>10, <1>11, <1>12 DEF SyncInv

\* What the desktop has now is what a decision is about.
LEMMA NowIs ==
    ASSUME SyncInv
    PROVE  /\ syncWanted \in BOOLEAN /\ busy \in BOOLEAN
           /\ unread \in BOOLEAN /\ unreadOwn \in BOOLEAN
           /\ Syncing \in BOOLEAN /\ (~Syncing <=> poll.at = "none")
           /\ requests \in Nat /\ requests <= requests /\ requests + 1 \in Nat
           /\ requests <= requests + 1
           /\ seenGeneration \in Nat /\ seenGeneration <= seenGeneration
           /\ signal \in BOOLEAN
           /\ command \in {NoTask} \union Commands
           /\ change \in {NoTask} \union LibraryChanges
           /\ compare \in {NoTask} \union Comparisons
           /\ command # NoTask => busy /\ ~Selecting
           /\ Selecting => busy
<1>1. requests \in Nat /\ seenGeneration \in Nat
  BY DEF SyncInv, NumbersTyped
<1> QED BY <1>1 DEF SyncInv, NumbersTyped, TasksTyped, BusyTells, Syncing

\* The owner's wake is delivered.
LEMMA ChangedKeeps ==
    ASSUME SyncInv, Changed
    PROVE  SyncInv' /\ Onward
<1> DEFINE now == [Now EXCEPT !.wanted = TRUE]
<1>1. /\ now.wanted = TRUE /\ now.syncing = Syncing /\ now.busy = busy
      /\ now.failed = unread /\ now.failedOwn = unreadOwn
  BY DEF Now
<1>2. /\ UNCHANGED <<log, truth, generation, past, screen, apiSequence, ownRequests>>
      /\ UNCHANGED <<librarySequence, seenGeneration, requests, command, change, compare>>
      /\ signal' = FALSE
      /\ SyncWhenWanted(now)
  BY DEF Changed, shownVars
<1> HIDE DEF now
<1>3. Quietly /\ NowOk(now)
  BY <1>1, <1>2, NowIs DEF Quietly, NowOk
<1>4. Calm /\ AfterWhenWanted(now)
  BY <1>2, <1>3, QuietlyAfter
<1>5. CommandTells' /\ ChangeTells'
  BY <1>2, <1>4, OnWayInNoRing, TasksGoOn
<1>6. Selecting' <=> Selecting
  BY <1>2 DEF Selecting
<1>7. now.syncing \/ poll.at # "answer"
  BY <1>1 DEF Syncing
<1>8. RevisionInCommand => now.wanted
  BY <1>1
<1>9. LibraryInChange => now.wanted
  BY <1>1
<1> QED BY <1>1, <1>2, <1>3, <1>5, <1>6, <1>7, <1>8, <1>9, NowIs, QuietlyKeeps

\* A poll failed.
LEMMA SyncFailedKeeps ==
    ASSUME SyncInv, SyncFailed
    PROVE  SyncInv' /\ Onward
<1> DEFINE now == [Now EXCEPT !.syncing = FALSE, !.failed = TRUE]
<1>1. /\ now.wanted = syncWanted /\ now.syncing = FALSE /\ now.busy = busy
      /\ now.failed = TRUE /\ now.failedOwn = unreadOwn
  BY DEF Now
<1>2. /\ UNCHANGED <<log, truth, generation, past, screen, apiSequence, ownRequests>>
      /\ UNCHANGED <<librarySequence, seenGeneration, requests, command, change, compare>>
      /\ UNCHANGED signal /\ poll.at = "failed"
      /\ SyncWhenWanted(now)
  BY DEF SyncFailed, shownVars, ownerVars
<1> HIDE DEF now
<1>3. Quietly /\ NowOk(now)
  BY <1>1, <1>2, NowIs DEF Quietly, NowOk
<1>4. Calm /\ AfterWhenWanted(now)
  BY <1>2, <1>3, QuietlyAfter
<1>5. CommandTells' /\ ChangeTells'
  BY <1>2, <1>4, OnWayInNoRing, TasksGoOn
<1>6. Selecting' <=> Selecting
  BY <1>2 DEF Selecting
<1>7. (RevisionInCommand => RevisionInCommand') /\ (LibraryInChange => LibraryInChange')
  BY <1>2 DEF RevisionInCommand, LibraryInChange
<1> QED BY <1>1, <1>2, <1>3, <1>5, <1>6, <1>7, NowIs, QuietlyKeeps

\* A command, or the reads after it, failed.
LEMMA RefreshFailedKeeps ==
    ASSUME SyncInv, RefreshFailed
    PROVE  SyncInv' /\ Onward
<1> DEFINE now == [Now EXCEPT !.busy = FALSE, !.wanted = TRUE]
<1>1. /\ now.wanted = TRUE /\ now.syncing = Syncing /\ now.busy = FALSE
      /\ now.failed = unread /\ now.failedOwn = unreadOwn
  BY DEF Now
<1>2. /\ UNCHANGED <<log, truth, generation, past, screen, apiSequence, ownRequests>>
      /\ UNCHANGED <<librarySequence, seenGeneration, requests, change, compare>>
      /\ UNCHANGED signal /\ command.at = "failed" /\ command' = NoTask
      /\ SyncWhenWanted(now)
  BY DEF RefreshFailed, shownVars, ownerVars
<1> HIDE DEF now
<1>3. Quietly /\ NowOk(now)
  BY <1>1, <1>2, NowIs DEF Quietly, NowOk
<1>4. Calm /\ AfterWhenWanted(now)
  BY <1>2, <1>3, QuietlyAfter
<1>5. CommandTells' /\ ChangeTells'
  BY <1>2, <1>4, OnWayInNoRing, TasksGoOn
<1>6. /\ Selecting' <=> Selecting
      /\ command # NoTask
      /\ ~Selecting
  BY <1>2, NowIs DEF Selecting, NoTask
<1>7. now.syncing \/ poll.at # "answer"
  BY <1>1 DEF Syncing
<1>8. /\ RevisionInCommand => now.wanted
      /\ LibraryInChange => now.wanted
  BY <1>1
<1> QED BY <1>1, <1>2, <1>3, <1>5, <1>6, <1>7, <1>8, NowIs, QuietlyKeeps

\* A command is sent.
LEMMA AskKeeps ==
    ASSUME SyncInv, NEW sort \in {"edit", "version"}, Ask(sort)
    PROVE  SyncInv' /\ Onward
<1> DEFINE now == [Now EXCEPT !.busy = TRUE]
<1>1. /\ now.wanted = syncWanted /\ now.syncing = Syncing /\ now.busy = TRUE
      /\ now.failed = unread /\ now.failedOwn = unreadOwn
  BY DEF Now
<1>2. /\ UNCHANGED <<log, truth, generation, past, screen, apiSequence, ownRequests>>
      /\ UNCHANGED <<librarySequence, seenGeneration, change, compare>>
      /\ UNCHANGED signal /\ ~busy /\ requests' = requests + 1
      /\ command' = [at |-> "send", kind |-> sort, request |-> requests', whole |-> FALSE,
                     answered |-> 0, revision |-> 0, versions |-> 0, generation |-> 0]
      /\ SyncWhenWanted(now)
  BY DEF Ask, shownVars, ownerVars
<1> HIDE DEF now
<1>3. Quietly /\ NowOk(now)
  BY <1>1, <1>2, NowIs DEF Quietly, NowOk
<1>4. Calm /\ AfterWhenWanted(now)
  BY <1>2, <1>3, QuietlyAfter
<1>5. command = NoTask /\ ~Selecting
  BY <1>2, NowIs
<1>6. /\ command' \in Commands /\ command' # NoTask /\ command'.at = "send"
      /\ command'.request = requests + 1 /\ command'.revision = 0
  BY <1>2, NowIs DEF Commands, NoTask
<1>7. CommandTells'
  <2>1. requests \in Nat /\ requests + 1 \notin 1 .. requests /\ requests + 1 \in 1 .. requests'
    BY <1>2, NowIs
  <2>2. /\ requests + 1 \notin RingIds(ownRequests)
        /\ poll.at = "since" => requests + 1 \notin RingIds(poll.own)
        /\ change # NoTask => change.request # requests + 1
    BY <2>1, OnWayInNoRing DEF SyncInv, RingShown, PollTells
  <2>3. OnItsWay(requests', ownRequests', poll', requests + 1)
    <3>1. poll' = poll \/ poll'.at # "since" \/ poll' = PollBegun
      BY <1>4 DEF AfterWhenWanted
    <3>2. poll' = PollBegun => poll'.own = ownRequests'
      BY DEF PollBegun
    <3> QED BY <1>2, <2>1, <2>2, <3>1, <3>2 DEF OnItsWay
  <2>4. ASSUME NEW e \in EventsHeld(log) PROVE e.request # requests + 1
    <3>1. EventTells(past, requests, e) /\ EventsOk(log)
      BY DEF SyncInv, EventsTell
    <3>2. e \in SyncEvent
      BY <3>1, EventIsPast
    <3> QED BY <2>1, <3>1, <3>2 DEF EventTells, SyncEvent
  <2>5. \A e \in EventsHeld(log') : CommandEvent(past', command', e)
    BY <1>2, <1>6, <2>4 DEF CommandEvent
  <2>6. command'.revision <= truth'.revision
    <3>1. truth.revision \in Nat /\ truth' = truth
      BY <1>2 DEF SyncInv, PastOk, Values
    <3> QED BY <1>6, <3>1
  <2> QED BY <1>2, <1>6, <2>2, <2>3, <2>5, <2>6 DEF CommandTells
<1>8. ChangeTells'
  <2>1. /\ change # NoTask => OnItsWay(requests, ownRequests, poll, change.request)
        /\ change # NoTask => change.request \notin RingIds(ownRequests')
    BY <1>2, OnWayInNoRing DEF SyncInv, ChangeTells
  <2>2. poll' = poll \/ poll'.at # "since" \/ poll' = PollBegun
    BY <1>4 DEF AfterWhenWanted
  <2>3. change # NoTask => OnItsWay(requests', ownRequests', poll', change.request)
    BY <1>4, <2>1, <2>2, CalmWay
  <2> QED BY <1>2, <1>4, <2>3, CalmChange
<1>9. Selecting' <=> Selecting
  BY <1>2 DEF Selecting
<1>10. now.syncing \/ poll.at # "answer"
  BY <1>1 DEF Syncing
<1>11. ~RevisionInCommand /\ ~busy
  BY <1>2, <1>5 DEF RevisionInCommand
<1>12. LibraryInChange => LibraryInChange'
  BY <1>2 DEF LibraryInChange
<1> QED BY <1>1, <1>2, <1>3, <1>5, <1>6, <1>7, <1>8, <1>9, <1>10, <1>11, <1>12, NowIs, QuietlyKeeps

\* A change of the library is sent.
LEMMA AskChangeKeeps ==
    ASSUME SyncInv, AskChange
    PROVE  SyncInv' /\ Onward
<1> DEFINE now == Now
<1>1. /\ now.wanted = syncWanted /\ now.syncing = Syncing /\ now.busy = busy
      /\ now.failed = unread /\ now.failedOwn = unreadOwn
  BY DEF Now
<1>2. /\ UNCHANGED <<log, truth, generation, past, screen, apiSequence, ownRequests>>
      /\ UNCHANGED <<librarySequence, seenGeneration, command, compare>>
      /\ UNCHANGED signal /\ change = NoTask /\ requests' = requests + 1
      /\ change' = [at |-> "send", request |-> requests', library |-> 0, listedAt |-> 0]
      /\ SyncWhenWanted(now)
  BY DEF AskChange, shownVars, ownerVars
<1> HIDE DEF now
<1>3. Quietly /\ NowOk(now)
  BY <1>1, <1>2, NowIs DEF Quietly, NowOk
<1>4. Calm /\ AfterWhenWanted(now)
  BY <1>2, <1>3, QuietlyAfter
<1>5. /\ change' \in LibraryChanges /\ change' # NoTask /\ change'.at = "send"
      /\ change'.request = requests + 1
  BY <1>2, NowIs DEF LibraryChanges, NoTask
<1>6. requests \in Nat /\ requests + 1 \notin 1 .. requests /\ requests + 1 \in 1 .. requests'
  BY <1>2, NowIs
<1>7. poll' = poll \/ poll'.at # "since" \/ poll' = PollBegun
  BY <1>4 DEF AfterWhenWanted
<1>8. ChangeTells'
  <2>1. /\ requests + 1 \notin RingIds(ownRequests)
        /\ poll.at = "since" => requests + 1 \notin RingIds(poll.own)
    BY <1>6 DEF SyncInv, RingShown, PollTells
  <2>2. OnItsWay(requests', ownRequests', poll', requests + 1)
    <3>1. poll' = PollBegun => poll'.own = ownRequests'
      BY DEF PollBegun
    <3> QED BY <1>2, <1>6, <1>7, <2>1, <3>1 DEF OnItsWay
  <2>3. ASSUME NEW e \in EventsHeld(log) PROVE e.request # requests + 1
    <3>1. EventTells(past, requests, e) /\ EventsOk(log)
      BY DEF SyncInv, EventsTell
    <3>2. e \in SyncEvent
      BY <3>1, EventIsPast
    <3> QED BY <1>6, <3>1, <3>2 DEF EventTells, SyncEvent
  <2>4. \A e \in EventsHeld(log') : ChangeEvent(change', e)
    BY <1>2, <1>5, <2>3 DEF ChangeEvent
  <2> QED BY <1>5, <2>2, <2>4 DEF ChangeTells
<1>9. CommandTells'
  <2>1. command # NoTask => /\ OnItsWay(requests, ownRequests, poll, command.request)
                            /\ command.request \notin RingIds(ownRequests')
                            /\ command.request \in 1 .. requests
    BY <1>2, OnWayInNoRing DEF SyncInv, CommandTells
  <2>2. command # NoTask => OnItsWay(requests', ownRequests', poll', command.request)
    BY <1>4, <1>7, <2>1, CalmWay
  <2>3. command # NoTask => change'.request # command.request
    BY <1>5, <1>6, <2>1
  <2> QED BY <1>2, <1>4, <2>2, <2>3, CalmCommand
<1>10. Selecting' <=> Selecting
  BY <1>2 DEF Selecting
<1>11. now.syncing \/ poll.at # "answer"
  BY <1>1 DEF Syncing
<1>12. RevisionInCommand => RevisionInCommand'
  BY <1>2 DEF RevisionInCommand
<1>13. ~LibraryInChange
  BY <1>2 DEF LibraryInChange, NoTask
<1> QED BY <1>1, <1>2, <1>3, <1>5, <1>8, <1>9, <1>10, <1>11, <1>12, <1>13, NowIs, QuietlyKeeps

\* A comparison or a selection is sent.
LEMMA PreviewKeeps ==
    ASSUME SyncInv, NEW sort \in {"compare", "select"}, Preview(sort)
    PROVE  SyncInv' /\ Onward
<1> DEFINE now == [Now EXCEPT !.busy = @ \/ sort = "select"]
<1>1. /\ now.wanted = syncWanted /\ now.syncing = Syncing
      /\ now.busy = (busy \/ sort = "select")
      /\ now.failed = unread /\ now.failedOwn = unreadOwn
  BY DEF Now
<1>2. /\ UNCHANGED <<log, truth, generation, past, screen, apiSequence, ownRequests>>
      /\ UNCHANGED <<librarySequence, seenGeneration, command, change>>
      /\ UNCHANGED signal /\ compare = NoTask /\ requests' = requests + 1
      /\ sort = "select" => ~busy
      /\ compare' = [at |-> "send", kind |-> sort, generation |-> 0]
      /\ SyncWhenWanted(now)
  BY DEF Preview, shownVars, ownerVars
<1> HIDE DEF now
<1>3. Quietly /\ NowOk(now)
  BY <1>1, <1>2, NowIs DEF Quietly, NowOk
<1>4. Calm /\ AfterWhenWanted(now)
  BY <1>2, <1>3, QuietlyAfter
<1>5. CommandTells' /\ ChangeTells'
  BY <1>2, <1>4, OnWayInNoRing, TasksGoOn
<1>6. compare' \in Comparisons /\ (Selecting' <=> sort = "select") /\ ~Selecting
  BY <1>2 DEF Comparisons, Selecting, NoTask
<1>7. now.syncing \/ poll.at # "answer"
  BY <1>1 DEF Syncing
<1>8. (RevisionInCommand => RevisionInCommand') /\ (LibraryInChange => LibraryInChange')
  BY <1>2 DEF RevisionInCommand, LibraryInChange
<1> QED BY <1>1, <1>2, <1>3, <1>5, <1>6, <1>7, <1>8, NowIs, QuietlyKeeps

\* It is answered.
LEMMA PreviewLoadedKeeps ==
    ASSUME SyncInv, PreviewLoaded
    PROVE  SyncInv' /\ Onward
<1> DEFINE now == [Now EXCEPT !.busy = @ /\ compare.kind # "select"]
<1>1. /\ now.wanted = syncWanted /\ now.syncing = Syncing
      /\ now.busy = (busy /\ compare.kind # "select")
      /\ now.failed = unread /\ now.failedOwn = unreadOwn
  BY DEF Now
<1>2. /\ UNCHANGED <<log, truth, generation, past, screen, apiSequence, ownRequests>>
      /\ UNCHANGED <<librarySequence, requests, command, change>>
      /\ UNCHANGED signal /\ compare.at = "answer" /\ compare' = NoTask
      /\ seenGeneration' = IF compare.generation < seenGeneration THEN seenGeneration
                           ELSE compare.generation
      /\ SyncWhenWanted(now)
  BY DEF PreviewLoaded, ownerVars
<1> HIDE DEF now
<1>3. Quietly /\ NowOk(now)
  BY <1>1, <1>2, NowIs DEF Quietly, NowOk
<1>4. Calm /\ AfterWhenWanted(now)
  BY <1>2, <1>3, QuietlyAfter
<1>5. CommandTells' /\ ChangeTells'
  BY <1>2, <1>4, OnWayInNoRing, TasksGoOn
<1>6. /\ compare # NoTask /\ compare.generation \in Nat
      /\ ~Selecting'
      /\ Selecting <=> compare.kind = "select"
  BY <1>2, NowIs DEF Comparisons, Selecting, NoTask
<1>7. seenGeneration' \in Nat /\ seenGeneration <= seenGeneration'
  BY <1>2, <1>6, NowIs
<1>8. now.syncing \/ poll.at # "answer"
  BY <1>1 DEF Syncing
<1>9. (RevisionInCommand => RevisionInCommand') /\ (LibraryInChange => LibraryInChange')
  BY <1>2 DEF RevisionInCommand, LibraryInChange
<1> QED BY <1>1, <1>2, <1>3, <1>5, <1>6, <1>7, <1>8, <1>9, NowIs, QuietlyKeeps

\* The ring with one more request.
LEMMA ReadBackLeaves ==
    ASSUME SyncInv, SyncAssumption, NEW request \in Nat, ReadBack(request)
    PROVE  /\ ownRequests' \in Seq(Nat) /\ Len(ownRequests') <= OWN_REQUESTS
           /\ RingIds(ownRequests') \subseteq RingIds(ownRequests) \union {request}
<1> DEFINE ring == IF Len(ownRequests) = OWN_REQUESTS THEN Tail(ownRequests)
                   ELSE ownRequests
<1>1. /\ ownRequests \in Seq(Nat) /\ Len(ownRequests) \in Nat
      /\ Len(ownRequests) <= OWN_REQUESTS /\ OWN_REQUESTS \in Nat \ {0}
  BY LenProperties DEF SyncInv, NumbersTyped, SyncAssumption
<1>2. /\ ring \in Seq(Nat) /\ Len(ring) \in Nat /\ Len(ring) < OWN_REQUESTS
      /\ RingIds(ring) \subseteq RingIds(ownRequests)
  <2>1. CASE Len(ownRequests) = OWN_REQUESTS
    <3>1. ownRequests # <<>>
      BY <1>1, <2>1, EmptySeq
    <3>2. /\ Tail(ownRequests) \in Seq(Nat) /\ Len(Tail(ownRequests)) = Len(ownRequests) - 1
          /\ \A i \in 1 .. Len(Tail(ownRequests)) : Tail(ownRequests)[i] = ownRequests[i + 1]
      BY <1>1, <3>1, HeadTailProperties
    <3>3. ring = Tail(ownRequests)
      BY <2>1
    <3> HIDE DEF ring
    <3>4. Len(ring) = Len(ownRequests) - 1
      BY <3>2, <3>3
    <3>5. \A i \in 1 .. Len(ring) : i + 1 \in 1 .. Len(ownRequests)
      BY <1>1, <3>4
    <3>6. Len(ring) \in Nat /\ Len(ring) < OWN_REQUESTS
      BY <1>1, <2>1, <3>4
    <3> QED BY <3>2, <3>3, <3>5, <3>6 DEF RingIds
  <2>2. CASE Len(ownRequests) # OWN_REQUESTS
    BY <1>1, <2>2
  <2> QED BY <2>1, <2>2
<1>3. ownRequests' = Append(ring, request)
  BY DEF ReadBack
<1> HIDE DEF ring
<1>4. /\ ownRequests' \in Seq(Nat) /\ Len(ownRequests') = Len(ring) + 1
      /\ \A i \in 1 .. Len(ring) : ownRequests'[i] = ring[i]
      /\ ownRequests'[Len(ring) + 1] = request
  BY <1>2, <1>3, AppendProperties
<1>5. Len(ownRequests') <= OWN_REQUESTS
  BY <1>1, <1>2, <1>4
<1>6. \A i \in 1 .. Len(ownRequests') : i \in 1 .. Len(ring) \/ i = Len(ring) + 1
  BY <1>2, <1>4
<1>7. RingIds(ownRequests') \subseteq RingIds(ring) \union {request}
  BY <1>4, <1>6 DEF RingIds
<1> QED BY <1>2, <1>4, <1>5, <1>7

\* A ring that takes a request whose events landed still shows all of its
\* own.
LEMMA RingTakes ==
    ASSUME NEW p, NEW l, NEW seen, NEW asked, NEW ids, NEW more, NEW r \in 1 .. asked,
           RingShown(p, l, seen, asked, ids), more \subseteq ids \union {r},
           \A e \in EventsHeld(l) : e.request = r => EventLanded(p, seen, e)
    PROVE  RingShown(p, l, seen, asked, more)
BY DEF RingShown

\* A message that moves the screen: the invariant.
LEMMA MessageKeeps ==
    ASSUME SyncInv, Calm, NEW now, now.busy \in BOOLEAN, AfterWhenWanted(now),
           UNCHANGED <<generation, signal, requests>>,
           seenGeneration' \in Nat, seenGeneration <= seenGeneration',
           librarySequence' \in Nat, apiSequence' \in Nat, apiSequence <= apiSequence',
           ownRequests' \in Seq(Nat), Len(ownRequests') <= OWN_REQUESTS,
           RingShown(past', log', screen', requests', RingIds(ownRequests')),
           command' = command \/ command' = NoTask,
           change' = change \/ change' = NoTask,
           compare' = compare,
           CommandTells', ChangeTells', ScreenTells', BusyTells',
           RevisionComes', LibraryComes'
    PROVE  SyncInv' /\ Onward
<1>1. /\ busy' = now.busy
      /\ syncWanted' \in BOOLEAN /\ unread' \in BOOLEAN /\ unreadOwn' \in BOOLEAN
      /\ poll' \in {NoTask} \union Listening \union Polls
      /\ PollTells'
  BY DEF AfterWhenWanted
<1>2. EventsOk(log') /\ PastOk(past', log', truth') /\ EventsTell(past', log', requests')
  BY CalmPast
<1>3. NumbersTyped'
  BY <1>1 DEF SyncInv, NumbersTyped, Calm
<1>4. TasksTyped'
  BY <1>1 DEF SyncInv, TasksTyped
<1>5. Onward
  <2>1. /\ screen.revision \in Nat /\ screen'.revision \in Nat
        /\ screen.library \in Nat /\ screen'.library \in Nat
        /\ apiSequence \in Nat /\ seenGeneration \in Nat
    BY DEF SyncInv, NumbersTyped, Values, Calm
  <2> QED BY <2>1 DEF Onward, Calm
<1> QED BY <1>1, <1>2, <1>3, <1>4, <1>5 DEF SyncInv

\* The screen is of the past.
LEMMA ScreenIs ==
    ASSUME SyncInv
    PROVE  /\ screen \in Values /\ truth \in Values
           /\ screen.revision \in Nat /\ screen.versions \in Nat /\ screen.library \in Nat
           /\ truth.revision \in Nat /\ truth.library \in Nat
           /\ screen.revision <= truth.revision /\ screen.library <= truth.library
           /\ log.sequence \in Nat
           /\ librarySequence \in Nat /\ librarySequence <= log.sequence
           /\ apiSequence \in Nat /\ apiSequence <= apiSequence
           /\ screen.library = LibraryAt(past, librarySequence)
           /\ screen.revision <= screen.revision /\ screen.library <= screen.library
<1>1. /\ screen \in Values /\ truth \in Values /\ log.sequence \in Nat
      /\ truth.library = LibraryAt(past, log.sequence)
      /\ screen.revision <= truth.revision /\ librarySequence \in Nat
      /\ librarySequence <= log.sequence /\ apiSequence \in Nat
      /\ screen.library = LibraryAt(past, librarySequence)
  BY DEF SyncInv, PastOk, NumbersTyped, EventsOk, ScreenTells
<1>2. librarySequence \in 0 .. log.sequence /\ log.sequence \in 0 .. log.sequence
  BY <1>1
<1>3. screen.library <= truth.library
  BY <1>1, <1>2 DEF SyncInv, PastOk
<1>4. /\ screen.revision \in Nat /\ screen.versions \in Nat /\ screen.library \in Nat
      /\ truth.revision \in Nat /\ truth.library \in Nat
  BY <1>1 DEF Values
<1> QED BY <1>1, <1>3, <1>4

\* A later listing is of no smaller a library.
LEMMA LaterListing ==
    ASSUME SyncInv, NEW m \in Nat, NEW n \in Nat, m <= n, n <= log.sequence
    PROVE  LibraryAt(past, m) <= LibraryAt(past, n) /\ LibraryAt(past, n) \in Nat
<1>1. log.sequence \in Nat
  BY DEF SyncInv, EventsOk
<1>2. m \in 0 .. log.sequence /\ n \in 0 .. log.sequence
  BY <1>1
<1>3. LibraryAt(past, n) \in Nat
  BY <1>2, PastIsCounted DEF SyncInv
<1> QED BY <1>2, <1>3 DEF SyncInv, PastOk

\* What an answered command has read is on the screen that shows it.
LEMMA EditRefreshedKeeps ==
    ASSUME SyncInv, SyncAssumption, EditRefreshed
    PROVE  SyncInv' /\ Onward
<1>1. /\ command.at = "answer" /\ command.kind = "edit" /\ command' = NoTask
      /\ UNCHANGED apiSequence
      /\ UNCHANGED <<log, truth, generation, signal, change, compare, requests, past>>
  BY DEF EditRefreshed, ownerVars
<1>2. command # NoTask /\ command \in Commands /\ busy /\ ~Selecting
  BY <1>1, NowIs DEF NoTask
<1>3. /\ command.revision \in Nat /\ command.versions \in Nat /\ command.generation \in Nat
      /\ command.request \in Nat /\ command.whole \in BOOLEAN
  BY <1>2 DEF Commands
<1>4. ~Selecting'
  BY <1>1, <1>2 DEF Selecting
<1>5. LibraryInChange => LibraryInChange'
  BY <1>1 DEF LibraryInChange
<1>6. CASE Superseded(command)
  <2> DEFINE now == Now
  <2>1. /\ now.wanted = syncWanted /\ now.syncing = Syncing /\ now.busy = busy
        /\ now.failed = unread /\ now.failedOwn = unreadOwn
    BY DEF Now
  <2>2. /\ UNCHANGED <<screen, seenGeneration, librarySequence, ownRequests>>
        /\ SyncWhenWanted(now)
    BY <1>6 DEF EditRefreshed, shownVars
  <2> HIDE DEF now
  <2>3. Quietly /\ NowOk(now)
    BY <1>1, <2>1, <2>2, NowIs DEF Quietly, NowOk
  <2>4. Calm /\ AfterWhenWanted(now)
    BY <2>2, <2>3, QuietlyAfter
  <2>5. CommandTells' /\ ChangeTells'
    BY <1>1, <2>2, <2>4, OnWayInNoRing, TasksGoOn
  <2>6. now.syncing \/ poll.at # "answer"
    BY <2>1 DEF Syncing
  <2>7. now.busy /\ command' = NoTask /\ ~Selecting'
    BY <1>1, <1>2, <1>4, <2>1
  <2> QED BY <1>1, <1>2, <1>5, <2>2, <2>3, <2>5, <2>6, <2>7, NowIs, QuietlyKeeps
<1>7. CASE ~Superseded(command)
  <2> DEFINE now == [Now EXCEPT !.busy = FALSE]
  <2>1. /\ now.wanted = syncWanted /\ now.syncing = Syncing /\ now.busy = FALSE
        /\ now.failed = unread /\ now.failedOwn = unreadOwn
    BY DEF Now
  <2>2. /\ Accept(command, screen.library) /\ ReadBack(command.request)
        /\ UNCHANGED librarySequence /\ SyncWhenWanted(now)
    BY <1>7 DEF EditRefreshed
  <2> HIDE DEF now
  <2>3. /\ screen' \in Values /\ screen'.revision = command.revision
        /\ screen'.library = screen.library /\ seenGeneration' = command.generation
    BY <1>3, <2>2, ScreenIs DEF Accept, Values
  <2>4. /\ seenGeneration <= command.generation /\ screen.revision <= command.revision
    BY <1>3, <1>7, ScreenIs, NowIs DEF Superseded
  <2>5. Calm
    BY <1>1, <2>3, <2>4, ScreenIs, NowIs DEF Calm
  <2>6. /\ OnItsWay(requests, ownRequests, poll, command.request)
        /\ command.revision <= truth.revision
        /\ change # NoTask => change.request # command.request
        /\ \A e \in EventsHeld(log) : CommandEvent(past, command, e)
    BY <1>2 DEF SyncInv, CommandTells
  <2>7. /\ ownRequests' \in Seq(Nat) /\ Len(ownRequests') <= OWN_REQUESTS
        /\ RingIds(ownRequests') \subseteq RingIds(ownRequests) \union {command.request}
    BY <1>3, <2>2, ReadBackLeaves
  <2>8. RingShown(past', log', screen', requests', RingIds(ownRequests'))
    <3>1. RingShown(past', log', screen', requests', RingIds(ownRequests))
      BY <2>5, CalmRing DEF SyncInv
    <3>2. command.request \in 1 .. requests'
      BY <1>1, <2>6 DEF OnItsWay
    <3>3. ASSUME NEW e \in EventsHeld(log'), e.request = command.request
          PROVE  EventLanded(past', screen', e)
      <4>1. e \in EventsHeld(log) /\ past' = past
        BY <1>1
      <4>2. CommandEvent(past, command, e)
        BY <2>6, <4>1
      <4>3. EventTells(past, requests, e)
        BY <4>1 DEF SyncInv, EventsTell
      <4> QED BY <1>1, <2>3, <3>3, <4>1, <4>2, <4>3 DEF CommandEvent, EventTells, EventLanded
    <3> QED BY <2>7, <3>1, <3>2, <3>3, RingTakes
  <2>9. NowOk(now)
    BY <1>1, <2>1, NowIs DEF NowOk
  <2>10. AfterWhenWanted(now)
    BY <1>1, <2>2, <2>5, <2>7, <2>8, <2>9, ScreenIs, Afterwards
  <2>11. CommandTells' /\ ChangeTells'
    <3>1. change # NoTask => change.request \notin RingIds(ownRequests')
      BY <2>6, <2>7, OnWayInNoRing
    <3> QED BY <1>1, <2>5, <2>10, <3>1, TasksGoOn
  <2>12. ScreenTells'
    <3>1. RevisionAt(past, apiSequence) <= command.revision
      <4>1. RevisionAt(past, apiSequence) <= screen.revision
        BY DEF SyncInv, ScreenTells
      <4>2. apiSequence \in 0 .. log.sequence
        BY ScreenIs DEF SyncInv, ScreenTells
      <4>3. RevisionAt(past, apiSequence) \in Nat
        BY <4>2, PastIsCounted DEF SyncInv
      <4> QED BY <1>3, <2>4, <4>1, <4>3, ScreenIs
    <3> QED BY <1>1, <2>2, <2>3, <2>6, <3>1 DEF SyncInv, ScreenTells
  <2>13. /\ Wanted => Wanted' /\ busy' = now.busy
         /\ RevisionInPoll => RevisionInPoll'
         /\ LibraryInPoll => LibraryInPoll'
    BY <2>1, <2>10 DEF AfterWhenWanted, Syncing
  <2>14. BusyTells'
    BY <1>1, <1>4 DEF BusyTells
  <2>15. RevisionComes'
    <3>1. RevisionInCommand => screen'.revision = truth.revision
      BY <1>1, <2>3 DEF RevisionInCommand
    <3>2. screen'.revision <= truth.revision
      BY <2>3, <2>6
    <3> QED BY <1>1, <1>2, <2>5, <2>13, <3>1, <3>2, RevisionStillComes
  <2>16. LibraryComes'
    <3>1. screen'.library <= truth.library
      BY <2>3, ScreenIs
    <3> QED BY <1>1, <1>5, <2>5, <2>13, <3>1, LibraryStillComes
  <2>17. now.busy \in BOOLEAN /\ seenGeneration' \in Nat /\ seenGeneration <= seenGeneration'
    BY <1>3, <2>1, <2>3, <2>4
  <2> QED BY <1>1, <2>2, <2>5, <2>7, <2>8, <2>10, <2>11, <2>12, <2>14, <2>15, <2>16, <2>17,
             ScreenIs, MessageKeeps
<1> QED BY <1>6, <1>7

\* A version command is answered: the screen takes what it read.
LEMMA VersionsLoadedKeeps ==
    ASSUME SyncInv, SyncAssumption, VersionsLoaded
    PROVE  SyncInv' /\ Onward
<1>1. /\ command.at \in {"answer", "failed"} /\ command.kind = "version" /\ command' = NoTask
      /\ UNCHANGED <<apiSequence, seenGeneration, librarySequence>>
      /\ UNCHANGED <<log, truth, generation, signal, change, compare, requests, past>>
  BY DEF VersionsLoaded, ownerVars
<1>2. command # NoTask /\ command \in Commands /\ busy /\ ~Selecting
  BY <1>1, NowIs DEF NoTask
<1>3. command.versions \in Nat /\ command.request \in Nat
  BY <1>2 DEF Commands
<1>4. ~Selecting' /\ ~RevisionInCommand
  BY <1>1, <1>2 DEF Selecting, RevisionInCommand
<1>5. LibraryInChange => LibraryInChange'
  BY <1>1 DEF LibraryInChange
<1>6. CASE command.at # "answer"
  <2> DEFINE now == [Now EXCEPT !.busy = FALSE, !.failedOwn = TRUE]
  <2>1. /\ now.wanted = syncWanted /\ now.syncing = Syncing /\ now.busy = FALSE
        /\ now.failed = unread /\ now.failedOwn = TRUE
    BY DEF Now
  <2>2. UNCHANGED <<screen, ownRequests>> /\ SyncWhenWanted(now)
    BY <1>6 DEF VersionsLoaded
  <2> HIDE DEF now
  <2>3. Quietly /\ NowOk(now)
    BY <1>1, <2>1, <2>2, NowIs DEF Quietly, NowOk
  <2>4. Calm /\ AfterWhenWanted(now)
    BY <2>2, <2>3, QuietlyAfter
  <2>5. CommandTells' /\ ChangeTells'
    BY <1>1, <2>2, <2>4, OnWayInNoRing, TasksGoOn
  <2>6. now.syncing \/ poll.at # "answer"
    BY <2>1 DEF Syncing
  <2> QED BY <1>1, <1>2, <1>4, <1>5, <2>2, <2>3, <2>5, <2>6, NowIs, QuietlyKeeps
<1>7. CASE command.at = "answer"
  <2> DEFINE now == [Now EXCEPT !.busy = FALSE]
  <2>1. /\ now.wanted = syncWanted /\ now.syncing = Syncing /\ now.busy = FALSE
        /\ now.failed = unread /\ now.failedOwn = unreadOwn
    BY DEF Now
  <2>2. /\ screen' = [screen EXCEPT !.versions = command.versions]
        /\ ReadBack(command.request) /\ SyncWhenWanted(now)
    BY <1>7 DEF VersionsLoaded
  <2> HIDE DEF now
  <2>3. /\ screen' \in Values /\ screen'.revision = screen.revision
        /\ screen'.library = screen.library
    BY <1>3, <2>2, ScreenIs DEF Values
  <2>5. Calm
    BY <1>1, <2>3, ScreenIs, NowIs DEF Calm
  <2>6. /\ OnItsWay(requests, ownRequests, poll, command.request)
        /\ change # NoTask => change.request # command.request
        /\ \A e \in EventsHeld(log) : CommandEvent(past, command, e)
    BY <1>2 DEF SyncInv, CommandTells
  <2>7. /\ ownRequests' \in Seq(Nat) /\ Len(ownRequests') <= OWN_REQUESTS
        /\ RingIds(ownRequests') \subseteq RingIds(ownRequests) \union {command.request}
    BY <1>3, <2>2, ReadBackLeaves
  <2>8. RingShown(past', log', screen', requests', RingIds(ownRequests'))
    <3>1. RingShown(past', log', screen', requests', RingIds(ownRequests))
      BY <2>5, CalmRing DEF SyncInv
    <3>2. command.request \in 1 .. requests'
      BY <1>1, <2>6 DEF OnItsWay
    <3>3. ASSUME NEW e \in EventsHeld(log'), e.request = command.request
          PROVE  EventLanded(past', screen', e)
      <4>1. e \in EventsHeld(log) /\ past' = past
        BY <1>1
      <4>2. CommandEvent(past, command, e)
        BY <2>6, <4>1
      <4>3. EventTells(past, requests, e)
        BY <4>1 DEF SyncInv, EventsTell
      <4> QED BY <1>1, <3>3, <4>1, <4>2, <4>3 DEF CommandEvent, EventTells, EventLanded
    <3> QED BY <2>7, <3>1, <3>2, <3>3, RingTakes
  <2>9. NowOk(now)
    BY <1>1, <2>1, NowIs DEF NowOk
  <2>10. AfterWhenWanted(now)
    BY <1>1, <2>2, <2>5, <2>7, <2>8, <2>9, ScreenIs, Afterwards
  <2>11. CommandTells' /\ ChangeTells'
    <3>1. change # NoTask => change.request \notin RingIds(ownRequests')
      BY <2>6, <2>7, OnWayInNoRing
    <3> QED BY <1>1, <2>5, <2>10, <3>1, TasksGoOn
  <2>12. ScreenTells'
    BY <1>1, <2>3, <2>5, CalmScreen
  <2>13. /\ Wanted => Wanted' /\ busy' = now.busy
         /\ RevisionInPoll => RevisionInPoll'
         /\ LibraryInPoll => LibraryInPoll'
    BY <2>1, <2>10 DEF AfterWhenWanted, Syncing
  <2>14. BusyTells'
    BY <1>1, <1>4 DEF BusyTells
  <2>15. RevisionComes'
    <3>1. screen'.revision <= truth.revision
      BY <2>3, ScreenIs
    <3> QED BY <1>1, <1>2, <1>4, <2>5, <2>13, <3>1, RevisionStillComes
  <2>16. LibraryComes'
    <3>1. screen'.library <= truth.library
      BY <2>3, ScreenIs
    <3> QED BY <1>1, <1>5, <2>5, <2>13, <3>1, LibraryStillComes
  <2>17. now.busy \in BOOLEAN /\ seenGeneration' \in Nat /\ seenGeneration <= seenGeneration'
    BY <1>1, <2>1, NowIs
  <2>18. librarySequence' \in Nat /\ apiSequence' \in Nat /\ apiSequence <= apiSequence'
    BY <1>1, ScreenIs
  <2> QED BY <1>1, <2>2, <2>5, <2>7, <2>8, <2>10, <2>11, <2>12, <2>14, <2>15, <2>16, <2>17,
             <2>18, MessageKeeps
<1> QED BY <1>6, <1>7

\* A library change is answered: its listing is taken unless a later one
\* is held.
LEMMA ChangeAnsweredKeeps ==
    ASSUME SyncInv, SyncAssumption, ChangeAnswered
    PROVE  SyncInv' /\ Onward
<1>1. /\ change.at \in {"answer", "failed"} /\ change' = NoTask
      /\ UNCHANGED <<apiSequence, seenGeneration>>
      /\ UNCHANGED <<log, truth, generation, signal, command, compare, requests, past>>
  BY DEF ChangeAnswered, ownerVars
<1>2. change # NoTask /\ change \in LibraryChanges
  BY <1>1, NowIs DEF NoTask
<1>3. change.library \in Nat /\ change.listedAt \in Nat /\ change.request \in Nat
  BY <1>2 DEF LibraryChanges
<1>4. (Selecting' <=> Selecting) /\ (RevisionInCommand => RevisionInCommand')
  BY <1>1 DEF Selecting, RevisionInCommand
<1>5. CASE change.at # "answer"
  <2> DEFINE now == [Now EXCEPT !.failedOwn = TRUE]
  <2>1. /\ now.wanted = syncWanted /\ now.syncing = Syncing /\ now.busy = busy
        /\ now.failed = unread /\ now.failedOwn = TRUE
    BY DEF Now
  <2>2. UNCHANGED <<ownRequests, screen, librarySequence>> /\ SyncWhenWanted(now)
    BY <1>5 DEF ChangeAnswered
  <2> HIDE DEF now
  <2>3. Quietly /\ NowOk(now)
    BY <1>1, <2>1, <2>2, NowIs DEF Quietly, NowOk
  <2>4. Calm /\ AfterWhenWanted(now)
    BY <2>2, <2>3, QuietlyAfter
  <2>5. CommandTells' /\ ChangeTells'
    BY <1>1, <2>2, <2>4, OnWayInNoRing, TasksGoOn
  <2>6. now.syncing \/ poll.at # "answer"
    BY <2>1 DEF Syncing
  <2> QED BY <1>1, <1>4, <2>1, <2>2, <2>3, <2>5, <2>6, NowIs, QuietlyKeeps
<1>6. CASE change.at = "answer"
  <2> DEFINE now == Now
             adopted == Adopted(TRUE, change.listedAt)
  <2>1. /\ now.wanted = syncWanted /\ now.syncing = Syncing /\ now.busy = busy
        /\ now.failed = unread /\ now.failedOwn = unreadOwn
    BY DEF Now
  <2>21. now.busy = busy
    BY DEF Now
  <2>2. /\ ReadBack(change.request) /\ SyncWhenWanted(now)
        /\ IF adopted
           THEN /\ screen' = [screen EXCEPT !.library = change.library]
                /\ librarySequence' = change.listedAt
           ELSE UNCHANGED <<screen, librarySequence>>
    BY <1>6 DEF ChangeAnswered
  <2> HIDE DEF now
  <2>3. /\ OnItsWay(requests, ownRequests, poll, change.request)
        /\ change.listedAt <= log.sequence
        /\ change.library = LibraryAt(past, change.listedAt)
        /\ \A e \in EventsHeld(log) : ChangeEvent(change, e)
    BY <1>2, <1>6 DEF SyncInv, ChangeTells
  \* The screen holds a listing that is no older than this answer.
  <2>4. /\ screen' \in Values /\ screen'.revision = screen.revision
        /\ screen.library <= screen'.library /\ change.library <= screen'.library
        /\ librarySequence' \in Nat /\ librarySequence' <= log.sequence
        /\ screen'.library = LibraryAt(past, librarySequence')
        /\ screen'.library \in Nat
    <3>1. CASE adopted
      <4>1. librarySequence <= change.listedAt
        BY <1>3, <3>1, ScreenIs DEF Adopted
      <4>2. screen.library <= change.library
        BY <1>3, <2>3, <4>1, ScreenIs, LaterListing
      <4>3. /\ screen' \in Values /\ screen'.revision = screen.revision
            /\ screen'.library = change.library /\ librarySequence' = change.listedAt
        BY <1>3, <2>2, <3>1, ScreenIs DEF Values
      <4> QED BY <1>3, <2>3, <4>2, <4>3
    <3>2. CASE ~adopted
      <4>1. change.listedAt <= librarySequence
        BY <1>3, <3>2, ScreenIs DEF Adopted
      <4>2. change.library <= screen.library
        BY <1>3, <2>3, <4>1, ScreenIs, LaterListing
      <4> QED BY <2>2, <3>2, <4>2, ScreenIs
    <3> QED BY <3>1, <3>2
  <2>5. Calm
    BY <1>1, <2>4, ScreenIs, NowIs DEF Calm
  <2>6. /\ ownRequests' \in Seq(Nat) /\ Len(ownRequests') <= OWN_REQUESTS
        /\ RingIds(ownRequests') \subseteq RingIds(ownRequests) \union {change.request}
    BY <1>3, <2>2, ReadBackLeaves
  <2>7. RingShown(past', log', screen', requests', RingIds(ownRequests'))
    <3>1. RingShown(past', log', screen', requests', RingIds(ownRequests))
      BY <2>5, CalmRing DEF SyncInv
    <3>2. change.request \in 1 .. requests'
      BY <1>1, <2>3 DEF OnItsWay
    <3>3. ASSUME NEW e \in EventsHeld(log'), e.request = change.request
          PROVE  EventLanded(past', screen', e)
      <4>1. e \in EventsHeld(log) /\ past' = past
        BY <1>1
      <4>2. e.kind = "preset" /\ e.sequence <= change.listedAt
        BY <1>6, <2>3, <3>3, <4>1 DEF ChangeEvent
      <4>3. EventTells(past, requests, e)
        BY <4>1 DEF SyncInv, EventsTell
      <4>4. e.sequence \in Nat
        BY <4>1, EventCounted
      <4>5. LibraryAt(past, e.sequence) <= change.library
        BY <1>3, <2>3, <4>2, <4>4, LaterListing
      <4>6. LibraryAt(past, e.sequence) \in Nat
        BY <1>3, <2>3, <4>1, <4>4, EventCounted, LaterListing
      <4>7. LibraryAt(past, e.sequence) <= screen'.library
        BY ONLY <1>3, <2>4, <4>5, <4>6
      <4> QED BY <4>1, <4>2, <4>3, <4>7 DEF EventTells, EventLanded
    <3> QED BY <2>6, <3>1, <3>2, <3>3, RingTakes
  <2>8. NowOk(now)
    BY <1>1, <2>1, NowIs DEF NowOk
  <2>9. AfterWhenWanted(now)
    BY <1>1, <2>2, <2>5, <2>6, <2>7, <2>8, ScreenIs, Afterwards
  <2>10. CommandTells' /\ ChangeTells'
    <3>1. command # NoTask => command.request # change.request
      BY <1>2 DEF SyncInv, CommandTells
    <3>2. command # NoTask => command.request \notin RingIds(ownRequests')
      BY <2>6, <3>1, OnWayInNoRing
    <3> QED BY <1>1, <2>5, <2>9, <3>2, TasksGoOn
  <2>11. ScreenTells'
    <3>1. LibraryAt(past, apiSequence) <= screen'.library
      <4>1. /\ LibraryAt(past, apiSequence) <= screen.library /\ apiSequence <= log.sequence
        BY DEF SyncInv, ScreenTells
      <4>2. LibraryAt(past, apiSequence) \in Nat
        BY <4>1, ScreenIs, LaterListing
      <4> QED BY <2>4, <4>1, <4>2, ScreenIs
    <3> QED BY <1>1, <2>4, <3>1 DEF SyncInv, ScreenTells
  <2>12. /\ Wanted => Wanted' /\ busy' = now.busy
         /\ RevisionInPoll => RevisionInPoll'
         /\ LibraryInPoll => LibraryInPoll'
    BY <2>1, <2>9 DEF AfterWhenWanted, Syncing
  <2>19. busy' = busy /\ command' = command
    <3>1. command' = command
      BY <1>1
    <3>2. busy' = now.busy
      BY ONLY <2>9 DEF AfterWhenWanted
    <3>3. busy' = busy
      BY ONLY <2>21, <3>2, Zenon
    <3> QED BY <3>1, <3>3
  <2>13. BusyTells'
    BY <1>4, <2>19, NowIs DEF BusyTells
  <2>20. busy /\ command = NoTask /\ ~Selecting => busy' /\ command' = NoTask /\ ~Selecting'
    BY <1>4, <2>19
  <2>14. RevisionComes'
    <3>1. screen'.revision <= truth.revision
      BY <2>4, ScreenIs
    <3> QED BY <1>1, <1>4, <2>5, <2>12, <2>20, <3>1, RevisionStillComes
  <2>15. screen'.library <= truth.library
    <3>1. truth.library = LibraryAt(past, log.sequence) /\ log.sequence \in Nat
      BY DEF SyncInv, PastOk, EventsOk
    <3>2. log.sequence <= log.sequence
      BY <3>1
    <3> QED BY <2>4, <3>1, <3>2, LaterListing
  <2>16. LibraryComes'
    <3>1. LibraryInChange => screen'.library = truth.library
      <4> SUFFICES ASSUME LibraryInChange PROVE screen'.library = truth.library
        OBVIOUS
      <4>1. change.library = truth.library
        BY <1>6 DEF LibraryInChange
      <4> QED BY <2>4, <2>15, <4>1, ScreenIs
    <3> QED BY <1>1, <2>5, <2>12, <2>15, <3>1, LibraryStillComes
  <2>17. now.busy \in BOOLEAN /\ seenGeneration' \in Nat /\ seenGeneration <= seenGeneration'
    BY <1>1, <2>1, NowIs
  <2>18. apiSequence' \in Nat /\ apiSequence <= apiSequence'
    BY <1>1, ScreenIs
  <2> QED BY <1>1, <2>4, <2>5, <2>6, <2>7, <2>9, <2>10, <2>11, <2>13, <2>14, <2>16, <2>17,
             <2>18, MessageKeeps
<1> QED BY <1>5, <1>6

\* What an answered poll leaves of the screen and the cursors.
LEMMA SyncedShows ==
    ASSUME SyncInv, Synced
    PROVE  LET superseded == poll.asset /\ Superseded(poll)
           IN  /\ Calm
               /\ screen'.revision <= truth.revision /\ screen'.library <= truth.library
               /\ ~superseded => RevisionAt(past, poll.sequence) <= screen'.revision
               /\ LibraryAt(past, poll.sequence) <= screen'.library
               /\ poll.asset /\ ~superseded => screen'.revision = poll.revision
               /\ poll.listed /\ poll.library = truth.library =>
                     screen'.library = truth.library
               /\ librarySequence' \in Nat /\ librarySequence' <= log.sequence
               /\ screen'.library = LibraryAt(past, librarySequence')
               /\ seenGeneration' \in Nat /\ seenGeneration <= seenGeneration'
               /\ poll \in Polls /\ poll.sequence <= log.sequence
<1> DEFINE superseded == poll.asset /\ Superseded(poll)
           adopted    == Adopted(poll.listed, poll.listedAt)
           library    == IF adopted THEN poll.library ELSE screen.library
<1>1. /\ poll.at = "answer"
      /\ librarySequence' = IF adopted THEN poll.listedAt ELSE librarySequence
      /\ IF poll.asset /\ ~superseded THEN Accept(poll, library)
         ELSE screen' = [screen EXCEPT !.library = library] /\ UNCHANGED seenGeneration
      /\ UNCHANGED <<log, truth, generation, signal, requests, past>>
  BY DEF Synced, ownerVars
<1>2. poll \in Polls
  BY <1>1 DEF SyncInv, TasksTyped, NoTask, Listening
<1>3. /\ poll.sequence \in Nat /\ poll.listedAt \in Nat /\ poll.library \in Nat
      /\ poll.revision \in Nat /\ poll.versions \in Nat /\ poll.generation \in Nat
      /\ poll.asset \in BOOLEAN /\ poll.listed \in BOOLEAN /\ poll.whole \in BOOLEAN
  BY <1>2 DEF Polls
<1>4. /\ poll.sequence <= log.sequence
      /\ ~poll.asset => RevisionAt(past, poll.sequence) <= screen.revision
      /\ ~poll.listed => LibraryAt(past, poll.sequence) <= screen.library
      /\ poll.asset =>
            /\ RevisionAt(past, poll.sequence) <= poll.revision
            /\ poll.revision <= truth.revision
      /\ poll.listed =>
            /\ poll.sequence <= poll.listedAt /\ poll.listedAt <= log.sequence
            /\ poll.library = LibraryAt(past, poll.listedAt)
  BY <1>1 DEF SyncInv, PollTells, PollRead, Reading
\* The library.
<1>5. truth.library = LibraryAt(past, log.sequence) /\ log.sequence \in Nat
      /\ log.sequence <= log.sequence
  <2>1. truth.library = LibraryAt(past, log.sequence) /\ log.sequence \in Nat
    BY DEF SyncInv, PastOk, EventsOk
  <2> QED BY <2>1
<1>6. /\ librarySequence' \in Nat /\ librarySequence' <= log.sequence
      /\ library = LibraryAt(past, librarySequence') /\ library \in Nat
      /\ screen.library <= library
      /\ poll.listed => poll.library <= library /\ poll.sequence <= librarySequence'
  <2>1. CASE adopted
    <3>1. poll.listed /\ librarySequence <= poll.listedAt
      BY <1>3, <2>1, ScreenIs DEF Adopted
    <3>2. screen.library <= poll.library
      BY <1>3, <1>4, <3>1, ScreenIs, LaterListing
    <3> QED BY <1>1, <1>3, <1>4, <2>1, <3>1, <3>2
  <2>2. CASE ~adopted
    <3>1. library = screen.library /\ librarySequence' = librarySequence
      BY <1>1, <2>2
    <3>2. ASSUME poll.listed
          PROVE  poll.library <= library /\ poll.sequence <= librarySequence'
      <4>1. poll.listedAt <= librarySequence
        BY <1>3, <2>2, <3>2, ScreenIs DEF Adopted
      <4>2. LibraryAt(past, poll.listedAt) <= screen.library
        BY <1>3, <4>1, ScreenIs, LaterListing
      <4>3. poll.sequence <= librarySequence
        BY <1>3, <1>4, <3>2, <4>1, ScreenIs
      <4> QED BY <1>4, <3>1, <3>2, <4>2, <4>3
    <3> QED BY <3>1, <3>2, ScreenIs
  <2> QED BY <2>1, <2>2
<1> HIDE DEF library
<1>7. library <= truth.library
  BY <1>5, <1>6, LaterListing
<1>8. LibraryAt(past, poll.sequence) <= library
  <2>1. CASE poll.listed
    BY <1>3, <1>6, <2>1, LaterListing
  <2>2. CASE ~poll.listed
    <3>1. LibraryAt(past, poll.sequence) \in Nat
      BY <1>3, <1>4, <1>5, LaterListing
    <3> QED BY <1>4, <1>6, <2>2, <3>1, ScreenIs
  <2> QED BY <1>3, <2>1, <2>2
<1>9. poll.listed /\ poll.library = truth.library => library = truth.library
  BY <1>6, <1>7, ScreenIs
\* The revision.
<1>10. RevisionAt(past, poll.sequence) \in Nat
  <2>1. poll.sequence \in 0 .. log.sequence
    BY <1>3, <1>4, <1>5
  <2> QED BY <2>1, PastIsCounted DEF SyncInv
<1>11. /\ screen' \in Values /\ screen'.library = library
       /\ screen.revision <= screen'.revision /\ screen'.revision <= truth.revision
       /\ ~superseded => RevisionAt(past, poll.sequence) <= screen'.revision
       /\ poll.asset /\ ~superseded => screen'.revision = poll.revision
       /\ seenGeneration' \in Nat /\ seenGeneration <= seenGeneration'
  <2>1. CASE poll.asset /\ ~superseded
    <3>1. Accept(poll, library) /\ ~Superseded(poll)
      BY <1>1, <2>1
    <3>2. seenGeneration <= poll.generation /\ screen.revision <= poll.revision
      BY <1>3, <3>1, ScreenIs, NowIs DEF Superseded
    <3>3. /\ screen' \in Values /\ screen'.revision = poll.revision
          /\ screen'.library = library /\ seenGeneration' = poll.generation
      BY <1>3, <1>6, <3>1, ScreenIs DEF Accept, Values
    <3> QED BY <1>3, <1>4, <2>1, <3>2, <3>3
  <2>2. CASE ~(poll.asset /\ ~superseded)
    <3>1. screen' = [screen EXCEPT !.library = library] /\ seenGeneration' = seenGeneration
      BY <1>1, <2>2
    <3>2. /\ screen' \in Values /\ screen'.revision = screen.revision
          /\ screen'.library = library
      BY <1>6, <3>1, ScreenIs DEF Values
    <3>3. ~superseded => ~poll.asset
      BY <1>3, <2>2
    <3> QED BY <1>3, <1>4, <2>2, <3>1, <3>2, <3>3, ScreenIs, NowIs
  <2> QED BY <2>1, <2>2
<1>12. Calm
  BY <1>1, <1>6, <1>11, ScreenIs, NowIs DEF Calm
<1> QED BY <1>2, <1>4, <1>6, <1>7, <1>8, <1>9, <1>11, <1>12

\* A poll is answered: the screen takes what it read and the cursor moves,
\* unless a preview is newer.
LEMMA SyncedKeeps ==
    ASSUME SyncInv, SyncAssumption, Synced
    PROVE  SyncInv' /\ Onward
<1> DEFINE superseded == poll.asset /\ Superseded(poll)
           now == [Now EXCEPT !.wanted = @ \/ superseded, !.syncing = FALSE]
<1>1. /\ Calm
      /\ screen'.revision <= truth.revision /\ screen'.library <= truth.library
      /\ ~superseded => RevisionAt(past, poll.sequence) <= screen'.revision
      /\ LibraryAt(past, poll.sequence) <= screen'.library
      /\ poll.asset /\ ~superseded => screen'.revision = poll.revision
      /\ poll.listed /\ poll.library = truth.library => screen'.library = truth.library
      /\ librarySequence' \in Nat /\ librarySequence' <= log.sequence
      /\ screen'.library = LibraryAt(past, librarySequence')
      /\ seenGeneration' \in Nat /\ seenGeneration <= seenGeneration'
      /\ poll \in Polls /\ poll.sequence <= log.sequence
  BY SyncedShows
<1>2. /\ poll.at = "answer"
      /\ apiSequence' = IF superseded \/ poll.sequence < apiSequence THEN apiSequence
                        ELSE poll.sequence
      /\ ownRequests' = IF superseded THEN ownRequests
                        ELSE Unseen(ownRequests, poll.skipped)
      /\ SyncWhenWanted(now)
      /\ UNCHANGED <<log, truth, generation, signal, command, change, compare, requests, past>>
  BY DEF Synced, ownerVars
<1>3. /\ now.wanted = (syncWanted \/ superseded) /\ now.syncing = FALSE /\ now.busy = busy
      /\ now.failed = unread /\ now.failedOwn = unreadOwn
  BY DEF Now
<1>21. now.busy = busy
  BY DEF Now
<1> HIDE DEF now
<1>4. superseded \in BOOLEAN
  BY <1>1 DEF Polls
<1> HIDE DEF superseded
<1>5. poll.sequence \in Nat
  BY <1>1 DEF Polls
<1>6. /\ apiSequence' \in Nat /\ apiSequence <= apiSequence'
      /\ apiSequence' = apiSequence \/ (~superseded /\ apiSequence' = poll.sequence)
  BY <1>2, <1>5, ScreenIs
<1>7. /\ ownRequests' \in Seq(Nat) /\ Len(ownRequests') <= OWN_REQUESTS
      /\ RingIds(ownRequests') \subseteq RingIds(ownRequests)
  <2>1. /\ ownRequests \in Seq(Nat) /\ Len(ownRequests) \in Nat
        /\ Len(ownRequests) <= OWN_REQUESTS /\ OWN_REQUESTS \in Nat
    BY LenProperties DEF SyncInv, NumbersTyped, SyncAssumption
  <2>2. CASE superseded
    BY <1>2, <2>1, <2>2
  <2>3. CASE ~superseded
    <3>1. ownRequests' = Unseen(ownRequests, poll.skipped)
      BY <1>2, <2>3
    <3>2. /\ ownRequests' \in Seq(Nat) /\ Len(ownRequests') <= Len(ownRequests)
          /\ RingIds(ownRequests') \subseteq RingIds(ownRequests)
      BY <2>1, <3>1, UnseenLeaves
    <3>3. Len(ownRequests') \in Nat
      BY <3>2, LenProperties
    <3>4. Len(ownRequests') <= OWN_REQUESTS
      BY <2>1, <3>2, <3>3
    <3> QED BY <3>2, <3>4
  <2> QED BY <1>4, <2>2, <2>3
<1>8. RingShown(past', log', screen', requests', RingIds(ownRequests'))
  <2>1. RingShown(past', log', screen', requests', RingIds(ownRequests))
    BY <1>1, CalmRing DEF SyncInv
  <2> QED BY <1>7, <2>1 DEF RingShown
<1>9. NowOk(now)
  BY <1>2, <1>3, <1>4, NowIs DEF NowOk
<1>10. AfterWhenWanted(now)
  BY <1>1, <1>2, <1>6, <1>7, <1>8, <1>9, Afterwards
<1>11. CommandTells' /\ ChangeTells'
  BY <1>1, <1>2, <1>7, <1>10, OnWayInNoRing, TasksGoOn
<1>12. ScreenTells'
  <2>1. /\ apiSequence <= log.sequence
        /\ RevisionAt(past, apiSequence) <= screen.revision
        /\ LibraryAt(past, apiSequence) <= screen.library
    BY DEF SyncInv, ScreenTells
  <2>2. apiSequence \in 0 .. log.sequence
    BY <2>1, ScreenIs
  <2>3. RevisionAt(past, apiSequence) \in Nat /\ LibraryAt(past, apiSequence) \in Nat
    BY <2>2, PastIsCounted DEF SyncInv
  <2>4. /\ screen.revision <= screen'.revision /\ screen.library <= screen'.library
        /\ screen'.revision \in Nat /\ screen'.library \in Nat
    BY <1>1 DEF Calm, Values
  <2>5. /\ RevisionAt(past, apiSequence) <= screen'.revision
        /\ LibraryAt(past, apiSequence) <= screen'.library
    BY ONLY <2>1, <2>3, <2>4, ScreenIs, SyncInv
  <2>6. /\ apiSequence' <= log.sequence
        /\ RevisionAt(past, apiSequence') <= screen'.revision
        /\ LibraryAt(past, apiSequence') <= screen'.library
    BY <1>1, <1>6, <2>1, <2>5
  <2> QED BY <1>1, <1>2, <2>6 DEF ScreenTells
<1>13. /\ Wanted => Wanted' /\ busy' = now.busy
       /\ now.wanted => Wanted'
  BY <1>10 DEF AfterWhenWanted
<1>14. (Selecting' <=> Selecting) /\ (RevisionInCommand => RevisionInCommand')
       /\ (LibraryInChange => LibraryInChange')
  BY <1>2 DEF Selecting, RevisionInCommand, LibraryInChange
<1>19. busy' = busy /\ command' = command
  <2>1. command' = command
    BY <1>2
  <2>2. busy' = now.busy
    BY ONLY <1>10 DEF AfterWhenWanted
  <2>3. busy' = busy
    BY ONLY <1>21, <2>2, Zenon
  <2> QED BY <2>1, <2>3
<1>15. BusyTells'
  BY <1>14, <1>19, NowIs DEF BusyTells
<1>20. busy /\ command = NoTask /\ ~Selecting => busy' /\ command' = NoTask /\ ~Selecting'
  BY <1>14, <1>19
<1>16. RevisionComes'
  <2>1. RevisionInPoll => Wanted' \/ screen'.revision = truth.revision
    <3> SUFFICES ASSUME RevisionInPoll PROVE Wanted' \/ screen'.revision = truth.revision
      OBVIOUS
    <3>1. poll.asset /\ poll.revision = truth.revision
      BY <1>2 DEF RevisionInPoll
    <3> QED BY <1>1, <1>3, <1>4, <1>13, <3>1
  <2> QED BY <1>1, <1>2, <1>13, <1>14, <1>20, <2>1, RevisionStillComes
<1>17. LibraryComes'
  <2>1. LibraryInPoll => screen'.library = truth.library
    BY <1>1, <1>2 DEF LibraryInPoll
  <2> QED BY <1>1, <1>2, <1>13, <1>14, <2>1, LibraryStillComes
<1>18. now.busy \in BOOLEAN
  BY <1>3, NowIs
<1> QED BY <1>1, <1>2, <1>6, <1>7, <1>8, <1>10, <1>11, <1>12, <1>15, <1>16, <1>17, <1>18,
           MessageKeeps

-----------------------------------------------------------------------------
\* The theorem.

\* It holds at the start.
LEMMA SyncBegins ==
    ASSUME SyncAssumption, CapacityAssumption, SyncInit
    PROVE  SyncInv
<1>1. /\ log = [events |-> << >>, sequence |-> 0] /\ past = << >>
      /\ truth = [revision |-> 0, versions |-> 0, library |-> 0] /\ screen = truth
      /\ ownRequests = << >> /\ requests = 0 /\ apiSequence = 0 /\ librarySequence = 0
      /\ poll = NoTask /\ command = NoTask /\ change = NoTask /\ compare = NoTask
      /\ generation = 0 /\ seenGeneration = 0
      /\ signal = FALSE /\ syncWanted = FALSE /\ busy = FALSE
      /\ unread = FALSE /\ unreadOwn = FALSE
  BY DEF SyncInit, EmptyLog
<1>2. /\ << >> \in Seq(SyncEvent) /\ << >> \in Seq(Values) /\ << >> \in Seq(Nat)
      /\ Len(<< >>) = 0
  BY EmptySeq
<1>3. truth \in Values /\ truth.revision = 0 /\ truth.library = 0
  BY <1>1 DEF Values
<1>4. NumbersTyped
  <2>1. /\ ownRequests \in Seq(Nat) /\ Len(ownRequests) = 0 /\ OWN_REQUESTS \in Nat
        /\ screen \in Values
    BY <1>1, <1>2, <1>3 DEF SyncAssumption
  <2>2. Len(ownRequests) <= OWN_REQUESTS
    BY ONLY <2>1
  <2> QED BY <1>1, <2>1, <2>2 DEF NumbersTyped
<1>5. TasksTyped
  BY <1>1 DEF TasksTyped
<1>6. log.events = << >> /\ log.sequence = 0 /\ Len(log.events) = 0
  BY <1>1, <1>2
<1>7. log \in [events : Seq(SyncEvent), sequence : Nat]
  BY <1>1, <1>2
<1>8. EventsOk(log)
  BY <1>6, <1>7 DEF EventsOk, CapacityAssumption
<1>9. /\ \A i \in 0 .. 0 : i = 0
      /\ RevisionAt(past, 0) = 0 /\ LibraryAt(past, 0) = 0
  BY DEF RevisionAt, LibraryAt
<1>10. PastOk(past, log, truth)
  BY <1>1, <1>2, <1>3, <1>6, <1>9 DEF PastOk
<1>11. EventsHeld(log) = {} /\ RingIds(ownRequests) = {}
  BY <1>1, <1>2, <1>6 DEF EventsHeld, RingIds
<1>12. /\ EventsTell(past, log, requests)
       /\ RingShown(past, log, screen, requests, RingIds(ownRequests))
  BY <1>11 DEF EventsTell, RingShown
<1>13. CommandTells /\ ChangeTells /\ PollTells
  BY <1>1 DEF CommandTells, ChangeTells, PollTells, PollRead, NoTask, Reading
<1>14. ScreenTells
  BY <1>1, <1>3, <1>6, <1>9 DEF ScreenTells
<1>15. BusyTells /\ RevisionComes /\ LibraryComes
  BY <1>1 DEF BusyTells, Selecting, RevisionComes, LibraryComes
<1> QED BY <1>4, <1>5, <1>8, <1>10, <1>12, <1>13, <1>14, <1>15 DEF SyncInv

\* A step of another component keeps it.
LEMMA SyncStays ==
    ASSUME SyncInv, UNCHANGED syncVars
    PROVE  SyncInv' /\ Onward
<1>1. /\ UNCHANGED <<log, truth, generation, past, screen, apiSequence, ownRequests>>
      /\ UNCHANGED <<librarySequence, requests, seenGeneration, signal, busy, syncWanted>>
      /\ UNCHANGED <<unread, unreadOwn, poll, command, change, compare>>
  BY DEF syncVars, ownerVars, cursorVars, shownVars, taskVars, pastVars
<1>2. Onward
  BY <1>1, StillOnward
<1>3. NumbersTyped' /\ TasksTyped'
  BY <1>1 DEF SyncInv, NumbersTyped, TasksTyped
<1>4. CommandTells' /\ ChangeTells' /\ PollTells'
  BY <1>1 DEF SyncInv, CommandTells, ChangeTells, PollTells
<1>5. ScreenTells' /\ BusyTells'
  BY <1>1 DEF SyncInv, ScreenTells, BusyTells, Selecting
<1>6. RevisionComes'
  BY <1>1 DEF SyncInv, RevisionComes, RevisionInPoll, RevisionInCommand, Wanted, Selecting
<1>7. LibraryComes'
  BY <1>1 DEF SyncInv, LibraryComes, LibraryInPoll, LibraryInChange, Wanted
<1>8. /\ EventsOk(log') /\ PastOk(past', log', truth') /\ EventsTell(past', log', requests')
      /\ RingShown(past', log', screen', requests', RingIds(ownRequests'))
  BY <1>1 DEF SyncInv
<1> QED BY <1>2, <1>3, <1>4, <1>5, <1>6, <1>7, <1>8 DEF SyncInv

\* Each step keeps it and moves nothing back.
LEMMA SyncSteps ==
    ASSUME SyncAssumption, CapacityAssumption, SyncInv, SyncNext
    PROVE  SyncInv' /\ Onward
<1>1. CASE \E field \in DOMAIN truth : OtherChanges(field)
  BY <1>1, OtherChangesKeeps
<1>2. CASE Deliveries
  BY <1>2, ChangedKeeps, SyncedKeeps, SyncFailedKeeps, EditRefreshedKeeps,
     RefreshFailedKeeps, VersionsLoadedKeeps, ChangeAnsweredKeeps, PreviewLoadedKeeps
     DEF Deliveries
<1>3. CASE PollReads
  BY <1>3, PollReadsKeeps
<1>4. CASE CommandRuns
  BY <1>4, CommandRunsKeeps
<1>5. CASE CommandReads
  BY <1>5, CommandReadsKeeps
<1>6. CASE ChangeRuns
  BY <1>6, ChangeRunsKeeps
<1>7. CASE ChangeReads
  BY <1>7, ChangeReadsKeeps
<1>8. CASE PreviewRuns
  BY <1>8, PreviewRunsKeeps
<1>9. CASE \E sort \in {"edit", "version"} : Ask(sort)
  BY <1>9, AskKeeps
<1>10. CASE AskChange
  BY <1>10, AskChangeKeeps
<1>11. CASE \E sort \in {"compare", "select"} : Preview(sort)
  BY <1>11, PreviewKeeps
<1>12. CASE Asleep
  BY <1>12, SyncStays DEF Asleep
<1> QED BY <1>1, <1>2, <1>3, <1>4, <1>5, <1>6, <1>7, <1>8, <1>9, <1>10, <1>11, <1>12
           DEF SyncNext

\* What the invariant says of the screen and the cursor.
LEMMA SyncInvTells ==
    ASSUME SyncInv
    PROVE  SyncTypeOK /\ ScreenCaughtUp /\ CursorBehindScreen
<1>1. /\ EventsOk(log) /\ PastOk(past, log, truth) /\ NumbersTyped /\ TasksTyped
  BY DEF SyncInv
<1>2. SyncTypeOK
  <2>1. log.sequence = Len(past) /\ Len(log.events) <= EVENT_CAPACITY
        /\ truth \in Values /\ screen \in Values /\ Len(ownRequests) <= OWN_REQUESTS
    BY <1>1 DEF EventsOk, PastOk, NumbersTyped
  <2>2. /\ {generation, seenGeneration, apiSequence, librarySequence} \subseteq Nat
        /\ {signal, syncWanted, busy, unread, unreadOwn} \subseteq BOOLEAN
    BY <1>1 DEF NumbersTyped
  <2>3. poll.at \in {"none", "since", "presets", "state", "versions", "session",
                     "answer", "failed"}
    <3>1. poll \in {NoTask} \union Listening \union Polls
      BY <1>1 DEF TasksTyped
    <3> QED BY <3>1 DEF NoTask, Listening, Polls, Reading
  <2>4. command.at \in {"none", "send", "state", "versions", "session", "answer", "failed"}
    BY <1>1 DEF TasksTyped, NoTask, Commands
  <2>5. change.at \in {"none", "send", "list", "answer", "failed"}
    BY <1>1 DEF TasksTyped, NoTask, LibraryChanges
  <2>6. compare.at \in {"none", "send", "answer"}
    BY <1>1 DEF TasksTyped, NoTask, Comparisons
  <2> QED BY <2>1, <2>2, <2>3, <2>4, <2>5, <2>6 DEF SyncTypeOK
<1>3. ScreenCaughtUp
  <2> SUFFICES ASSUME Quiet
               PROVE  screen.revision = truth.revision /\ screen.library = truth.library
    BY DEF ScreenCaughtUp
  <2>1. /\ ~signal /\ poll = NoTask /\ command = NoTask /\ change = NoTask
        /\ ~syncWanted /\ ~busy /\ ~unread /\ ~unreadOwn
    BY DEF Quiet, Resting
  <2>2. poll.at = "none" /\ change.at = "none"
    BY <2>1 DEF NoTask
  <2>3. screen.revision = truth.revision
    BY <2>1, <2>2 DEF SyncInv, RevisionComes, RevisionInPoll, RevisionInCommand, Wanted
  <2>4. screen.library = truth.library
    BY <2>1, <2>2 DEF SyncInv, LibraryComes, LibraryInPoll, LibraryInChange, Wanted, Reading
  <2> QED BY <2>3, <2>4
<1>4. CursorBehindScreen
  <2> SUFFICES ASSUME NEW s \in 1 .. apiSequence PROVE Shown(s)
    BY DEF CursorBehindScreen
  <2>1. /\ apiSequence \in Nat /\ apiSequence <= log.sequence /\ log.sequence \in Nat
        /\ RevisionAt(past, apiSequence) <= screen.revision
        /\ LibraryAt(past, apiSequence) <= screen.library
        /\ screen.revision \in Nat /\ screen.library \in Nat
        /\ Len(past) = log.sequence
    BY ScreenIs DEF SyncInv, ScreenTells, PastOk
  <2>2. /\ s \in 0 .. log.sequence /\ apiSequence \in 0 .. log.sequence
        /\ s <= apiSequence /\ s <= Len(past) /\ s # 0
    BY <2>1
  <2>3. /\ RevisionAt(past, s) <= RevisionAt(past, apiSequence)
        /\ LibraryAt(past, s) <= LibraryAt(past, apiSequence)
    BY <1>1, <2>2 DEF PastOk
  <2>4. /\ RevisionAt(past, s) \in Nat /\ RevisionAt(past, apiSequence) \in Nat
        /\ LibraryAt(past, s) \in Nat /\ LibraryAt(past, apiSequence) \in Nat
    BY <1>1, <2>2, PastIsCounted
  <2>5. RevisionAt(past, s) <= screen.revision /\ LibraryAt(past, s) <= screen.library
    BY ONLY <2>1, <2>3, <2>4
  <2> QED BY <2>2, <2>5 DEF Shown, RevisionAt, LibraryAt
<1> QED BY <1>2, <1>3, <1>4

\* For any event capacity, ring of own requests and numbers of changes,
\* requests and failures: a desktop that is at rest, with no poll wanted
\* and no failed read, shows the owner's revision and library, however the
\* changes, reads and answers fell together; its cursor is never ahead of
\* what it shows; and neither the revision and library it shows nor its
\* cursor and preview generation ever go back.
THEOREM ScreenCorrect ==
    ASSUME SyncAssumption, CapacityAssumption
    PROVE  SyncSpec => ScreenFollows
<1>1. SyncInit => SyncInv
  BY SyncBegins
<1>2. SyncInv /\ [SyncNext]_syncVars => SyncInv' /\ Onward
  BY SyncSteps, SyncStays
<1>3. SyncInv => SyncTypeOK /\ ScreenCaughtUp /\ CursorBehindScreen
  BY SyncInvTells
<1>4. Onward => /\ screen'.revision >= screen.revision
                /\ screen'.library >= screen.library
                /\ apiSequence' >= apiSequence
                /\ seenGeneration' >= seenGeneration
  BY DEF Onward
<1> QED BY <1>1, <1>2, <1>3, <1>4, PTL DEF SyncSpec, ScreenFollows, NeverBack

=============================================================================
