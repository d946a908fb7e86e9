------------------------------- MODULE Drafts --------------------------------
(***************************************************************************)
(* Client sessions over the asset history (api/mod.rs, api/methods.rs,     *)
(* draft.rs, preview.rs): what each client is previewing, and the one      *)
(* draft it may hold, which is bound to the revision it was begun against. *)
(*                                                                         *)
(* The owner's thread serves one call at a time, so one action is one      *)
(* call; what interleaves is the calls of several clients, and of one      *)
(* client with itself (its own undo under its own draft).  No client is    *)
(* told that an asset moved: a draft's conflict is worked out again        *)
(* whenever the draft is read.                                             *)
(*                                                                         *)
(* A draft's fields are what its plan makes of the stack they land on, so  *)
(* a commit may produce any stack.  Named versions take no part.           *)
(***************************************************************************)
EXTENDS History

CONSTANTS
    Clients,     \* registered clients
    MaxTouches   \* bound: changes of one session

DraftsAssumption == MaxTouches \in Nat /\ None \notin Assets

VARIABLES
    session,     \* per client, its ClientSession
    report,      \* per client, the last session it was answered with
    \* history
    overtaken    \* per client: its draft's asset moved since it was based

sessionVars == <<session, report, overtaken>>
allVars == <<vars, sessionVars>>

\* HistorySelection: the live state, or one entry.
Live == [asset |-> None, entry |-> None]
Selection == [asset : Assets, entry : EntryIds] \union {Live}

Draft == [asset : Assets, base : Revisions, edits : 0 .. MaxTouches,
          conflicted : BOOLEAN]
NoDraft == [asset |-> None, base |-> 0, edits |-> 0, conflicted |-> FALSE]

Session == [selection : Selection, draft : Draft \union {NoDraft},
            revision : 0 .. MaxTouches]
NewSession == [selection |-> Live, draft |-> NoDraft, revision |-> 0]

Report == [of : Session, overtaken : BOOLEAN]
NoReport == [of |-> NewSession, overtaken |-> FALSE]

SessionInit ==
    /\ session = [c \in Clients |-> NewSession]
    /\ report = [c \in Clients |-> NoReport]
    /\ overtaken = [c \in Clients |-> FALSE]

Holds(c) == session[c].draft # NoDraft
CanEdit(c) == session[c].selection = Live

Touchable(c) == session[c].revision < MaxTouches

\* touch
Touched(s) == [s EXCEPT !.revision = @ + 1]

\* refresh_conflict: no call is told that an asset moved, so each that
\* shows a draft asks for the asset's revision.
Refreshed(s) ==
    IF s.draft = NoDraft THEN s
    ELSE [s EXCEPT !.draft.conflicted =
             s.draft.base # HeadOf(s.draft.asset).revision]

Holding(c, s) == session' = [session EXCEPT ![c] = s]

\* session_value: the session is refreshed, kept and answered with.
Answered(c, s) ==
    /\ Holding(c, Refreshed(s))
    /\ report' = [report EXCEPT ![c] =
         [of |-> Refreshed(s), overtaken |-> overtaken[c]]]

\* Every draft on an asset whose head moves is overtaken, this client's
\* own among them; `ended` is the client whose draft this call ends.
Overtake(a, ended) ==
    overtaken' = [c \in Clients |->
        c \notin ended /\ (overtaken[c] \/
            (Holds(c) /\ session[c].draft.asset = a /\ moves'[a] # moves[a]))]

-----------------------------------------------------------------------------
\* Edits and navigation of a client that shows the live state.

\* edit_action, history_undo, history_redo: require_current first.
Edit(c, a, m) ==
    /\ CanEdit(c)
    /\ Commit(a, m) \/ Undo(a, m) \/ Redo(a, m)
    /\ Overtake(a, {})
    /\ UNCHANGED <<session, report>>

\* The answer of a request handled before, asked for again.
Repeats(a, m) ==
    /\ answers[a][m.request].operation = m.operation
    /\ answers[a][m.request].expected = m.expected

BackToLive(c) ==
    \/ CanEdit(c) /\ UNCHANGED session
    \/ /\ ~CanEdit(c) /\ Touchable(c)
       /\ Holding(c, Touched([session[c] EXCEPT !.selection = Live]))

\* history_restore works from a historical selection and ends it, also
\* when the request was answered before.
RestoreEntry(c, a, m) ==
    /\ \/ Restore(a, m)
       \/ /\ m.operation.kind = "restore" /\ Repeats(a, m)
          /\ UNCHANGED vars
    /\ BackToLive(c)
    /\ Overtake(a, {})
    /\ UNCHANGED report

-----------------------------------------------------------------------------
\* The session's own calls.

\* preview_select: the current entry is the live state.
PreviewSelect(c, a, e) ==
    /\ Imported(a) /\ e \in 1 .. Len(entries[a])
    /\ Touchable(c)
    /\ Answered(c, Touched([session[c] EXCEPT !.selection =
          IF e = HeadOf(a).current THEN Live
          ELSE [asset |-> a, entry |-> e]]))
    /\ Keep(a, HeadOf(a))
    /\ UNCHANGED <<catalog, moves, overtaken>>

ReturnCurrent(c) ==
    /\ Touchable(c)
    /\ Answered(c, Touched([session[c] EXCEPT !.selection = Live]))
    /\ UNCHANGED <<vars, overtaken>>

\* view_set, workspace_set: what they set is no part of the model.
ViewSet(c) ==
    /\ Touchable(c)
    /\ Answered(c, Touched(session[c]))
    /\ UNCHANGED <<vars, overtaken>>

SessionState(c) ==
    /\ Answered(c, session[c])
    /\ UNCHANGED <<vars, overtaken>>

-----------------------------------------------------------------------------
\* Drafts.

DraftBegin(c, a) ==
    /\ Imported(a) /\ ~Holds(c) /\ CanEdit(c) /\ Touchable(c)
    /\ Holding(c, Touched([session[c] EXCEPT !.draft =
          [asset |-> a, base |-> HeadOf(a).revision, edits |-> 0,
           conflicted |-> FALSE]]))
    /\ overtaken' = [overtaken EXCEPT ![c] = FALSE]
    /\ UNCHANGED <<vars, report>>

\* A bug for the mutants: a set moves the draft to the newest revision.
FaultyMerged(draft) ==
    [draft EXCEPT !.edits = @ + 1, !.base = HeadOf(draft.asset).revision]

\* Draft::merge
Merged(draft) == [draft EXCEPT !.edits = @ + 1]

DraftSet(c) ==
    /\ Holds(c) /\ Touchable(c)
    /\ Holding(c, Refreshed(Touched([session[c] EXCEPT !.draft = Merged(@)])))
    /\ UNCHANGED <<vars, report, overtaken>>

\* draft_read, and a draft_commit that is refused or whose action fails:
\* both leave the draft, its conflict worked out again.
DraftKept(c) ==
    /\ Holds(c)
    /\ Holding(c, Refreshed(session[c]))
    /\ UNCHANGED <<vars, report, overtaken>>

DraftCancel(c) ==
    /\ Holds(c) /\ Touchable(c)
    /\ Holding(c, Touched([session[c] EXCEPT !.draft = NoDraft]))
    /\ overtaken' = [overtaken EXCEPT ![c] = FALSE]
    /\ UNCHANGED <<vars, report>>

\* draft_commit refreshes before it looks.
Unconflicted(c) == ~Refreshed(session[c]).draft.conflicted

\* draft_commit of a draft no change overtook: the action runs on the one
\* path every edit takes, or its stored answer is found, and the draft
\* ends.  Nothing asks what the session is showing.
DraftCommit(c, m) ==
    LET draft == session[c].draft
    IN  /\ Holds(c) /\ Touchable(c)
        /\ Unconflicted(c)
        /\ m.expected = draft.base
        /\ m.operation.kind = "commit"
        /\ Commit(draft.asset, m) \/ (Repeats(draft.asset, m) /\ UNCHANGED vars)
        /\ Holding(c, Touched([session[c] EXCEPT !.draft = NoDraft]))
        /\ Overtake(draft.asset, {c})
        /\ UNCHANGED report

Reapplied(draft) ==
    [draft EXCEPT !.base = HeadOf(draft.asset).revision,
                  !.conflicted = FALSE]

DraftReapply(c) ==
    /\ Holds(c) /\ Touchable(c)
    /\ Holding(c, Touched([session[c] EXCEPT !.draft = Reapplied(@)]))
    /\ overtaken' = [overtaken EXCEPT ![c] = FALSE]
    /\ UNCHANGED <<vars, report>>

-----------------------------------------------------------------------------
\* The process and its clients.

\* A disconnected client's session goes, its draft with it.
Disconnect(c) ==
    /\ Holding(c, NewSession)
    /\ report' = [report EXCEPT ![c] = NoReport]
    /\ overtaken' = [overtaken EXCEPT ![c] = FALSE]
    /\ UNCHANGED vars

Restart ==
    /\ Reopen
    /\ session' = [c \in Clients |-> NewSession]
    /\ report' = [c \in Clients |-> NoReport]
    /\ overtaken' = [c \in Clients |-> FALSE]

DraftsInit == Init /\ SessionInit

Beside(a) == (Import(a) \/ ReadHead(a)) /\ UNCHANGED sessionVars

Call(c) ==
    \/ \E a \in Assets :
          \/ \E m \in Messages : Edit(c, a, m) \/ RestoreEntry(c, a, m)
          \/ \E e \in EntryIds : PreviewSelect(c, a, e)
          \/ DraftBegin(c, a)
    \/ ReturnCurrent(c) \/ ViewSet(c) \/ SessionState(c)
    \/ DraftSet(c) \/ DraftKept(c) \/ DraftCancel(c) \/ DraftReapply(c)
    \/ \E m \in Messages : DraftCommit(c, m)
    \/ Disconnect(c)

DraftsNext ==
    \/ \E a \in Assets : Beside(a)
    \/ \E c \in Clients : Call(c)
    \/ Restart

DraftsSpec == DraftsInit /\ [][DraftsNext]_allVars

-----------------------------------------------------------------------------
\* Properties

DraftsTypeOK ==
    /\ session \in [Clients -> Session]
    /\ report \in [Clients -> Report]
    /\ overtaken \in [Clients -> BOOLEAN]

\* The draft of `c` ends in this step with a change of its asset.
Committed(c) ==
    /\ Holds(c)
    /\ session'[c].draft = NoDraft
    /\ moves'[session[c].draft.asset] # moves[session[c].draft.asset]

\* A draft is committed only over the stack its client saw when it began
\* or last reapplied it: no other change came in between, not even one
\* that was undone and redone back to the same entry, whoever made it and
\* whatever the session last knew of the conflict.
CommitsOnWhatWasSeen ==
    [][\A c \in Clients : Committed(c) => ~overtaken[c]]_allVars

\* A session answered says of its draft that it conflicts exactly when its
\* asset moved since the draft was based, though no one was notified.
ConflictIsTrue ==
    \A c \in Clients :
        report[c].of.draft # NoDraft =>
            report[c].of.draft.conflicted = report[c].overtaken

\* Two sessions a client is answered with under one revision hold the same
\* selection and the same draft but for its conflict, so a client that
\* keeps the newest of answers out of order shows none that was replaced.
OneSessionPerRevision ==
    [][\A c \in Clients :
         LET shown(s) == [s EXCEPT !.draft.conflicted = FALSE]
         IN  /\ report[c] # NoReport /\ report'[c] # NoReport
             /\ report'[c].of.revision = report[c].of.revision
             => shown(report'[c].of) = shown(report[c].of)]_allVars

\* What a client may believe of its session: whether its draft conflicts,
\* that a commit replaces only what it saw, and which answer is newer.
DraftsHonest ==
    /\ [](DraftsTypeOK /\ ConflictIsTrue)
    /\ CommitsOnWhatWasSeen /\ OneSessionPerRevision

\* ClientSession says its revision increases on every session change, so
\* that answers taken out of order leave the newest: two answers under one
\* revision would be the same session.
RevisionOrdersSessions ==
    [][\A c \in Clients :
         /\ report[c] # NoReport /\ report'[c] # NoReport
         /\ report'[c].of.revision = report[c].of.revision
         => report'[c].of = report[c].of]_allVars

\* The specification of preview says editing while previewing requires
\* Return to current or Restore first: no draft's commit would change an
\* asset under a client that shows a historical entry.
NoEditWhilePreviewing ==
    [][\A c \in Clients : Committed(c) => CanEdit(c)]_allVars

=============================================================================
