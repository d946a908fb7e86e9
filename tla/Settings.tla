------------------------------ MODULE Settings ------------------------------
(***************************************************************************)
(* A module's settings in luxforge-core: provider profiles with an         *)
(* endpoint and a secret, and the consent given for the endpoint           *)
(* (capabilities/settings.rs, document.rs, grants.rs, host.rs).            *)
(*                                                                         *)
(* Every editor process of a user works on the same settings.json and      *)
(* grants.json and on the same secret store.  A change of settings.json is *)
(* a read-modify-write under an advisory lock, which the system releases   *)
(* when its holder dies; the secret store changes in the middle of it.     *)
(* What a change means for the consent follows once the lock is released.  *)
(* A change of grants.json is one locked read-modify-write and nothing     *)
(* else, so it is one step; reads take no lock.  Each process serves one   *)
(* request at a time.                                                      *)
(*                                                                         *)
(* A profile's secret and endpoint stand for all of its fields; the        *)
(* module's own fields, labels and the schema's version are left out.      *)
(***************************************************************************)
EXTENDS Integers, Sequences, FiniteSets

CONSTANTS
    Hosts,        \* editor processes
    Profiles,     \* profile ids; each is created at most once
    Endpoints,    \* origins a profile may send to
    MaxWrites,    \* bound: settings requests
    MaxGrants,    \* bound: grants recorded
    MaxFaults     \* bound: failing writes and processes that die

Unset == "unset"        \* a profile without a valid endpoint
Missing == "missing"    \* not a profile of the document
NoOne == "nobody"

SettingsAssumption ==
    /\ MaxWrites \in Nat /\ MaxGrants \in Nat /\ MaxFaults \in Nat
    /\ {Unset, Missing} \intersect Endpoints = {} /\ NoOne \notin Hosts

VARIABLES
    \* what the processes share
    document,   \* settings.json: the revision and each profile's endpoint
    secrets,    \* the secret store: profiles whose secret is present
    grants,     \* grants.json
    lock,       \* who holds settings.lock
    \* the processes
    host,       \* the request each owner serves and how far it is
    created,    \* profile ids given out
    \* for the properties and the bounds
    moved,      \* how often each profile's endpoint has changed
    committed,  \* the revisions answered to committed writes, in order
    lost,       \* changes whose revocation did not happen
    outdated,   \* a task was admitted by consent to an earlier endpoint
    writes,
    faults

shared == <<document, secrets, grants, lock>>
ghosts == <<moved, committed, lost, outdated>>
settingsVars == <<shared, host, created, ghosts, writes, faults>>

Idle == [at |-> "idle"]

SettingsInit ==
    /\ document = [revision |-> 0, endpoint |-> [q \in Profiles |-> Missing]]
    /\ secrets = {} /\ grants = <<>> /\ lock = NoOne
    /\ host = [h \in Hosts |-> Idle]
    /\ created = {}
    /\ moved = [q \in Profiles |-> 0] /\ committed = <<>> /\ lost = 0 /\ outdated = FALSE
    /\ writes = 0 /\ faults = 0

Known(doc, q) == doc.endpoint[q] # Missing

\* What each write makes of the document's profiles.
Changed(doc, req) ==
    CASE req.kind \in {"set", "create"} -> [doc.endpoint EXCEPT ![req.profile] = req.value]
      [] req.kind = "remove"            -> [doc.endpoint EXCEPT ![req.profile] = Missing]
      [] req.kind = "reset"             -> [q \in Profiles |-> Missing]
      [] OTHER                          -> doc.endpoint

\* A write that changes nothing is a no-op and is not written.
NoOp(doc, req) ==
    CASE req.kind = "set"    -> doc.endpoint[req.profile] = req.value
      [] req.kind = "clear"  -> req.profile \notin secrets
      [] req.kind = "reset"  -> \A q \in Profiles : ~Known(doc, q)
      [] OTHER               -> FALSE

-----------------------------------------------------------------------------
\* One settings request, from the owner's call to its answer.

Requests ==
    [kind : {"set"}, profile : Profiles, value : Endpoints \union {Unset}]
        \union [kind : {"create"}, profile : Profiles, value : {Unset}]
        \union [kind : {"secret", "clear", "remove", "reset"}, profile : Profiles,
                value : {Unset}]

\* The client sends the revision it read last.
Ask(h, req) ==
    /\ host[h] = Idle /\ writes < MaxWrites
    /\ IF req.kind = "create" THEN req.profile \notin created ELSE req.profile \in created
    /\ host' = [host EXCEPT ![h] = [at |-> "lock", req |-> req,
                                    expected |-> document.revision]]
    /\ created' = created \union {req.profile}
    /\ writes' = writes + 1
    /\ UNCHANGED <<shared, ghosts, faults>>

\* transact: the lock, then the file is read again.
Lock(h) ==
    /\ host[h].at = "lock"
    /\ lock = NoOne /\ lock' = h
    /\ host' = [host EXCEPT ![h] = [at |-> "apply", req |-> host[h].req,
                                    expected |-> host[h].expected, read |-> document]]
    /\ UNCHANGED <<document, secrets, grants, created, ghosts, writes, faults>>

\* A stale revision, or a profile that is not there.
Refused(h) ==
    \/ host[h].expected # host[h].read.revision
    \/ /\ host[h].req.kind \in {"set", "secret", "clear", "remove"}
       /\ ~Known(host[h].read, host[h].req.profile)

Release(h) == lock' = NoOne /\ host' = [host EXCEPT ![h] = Idle]

Refuse(h) ==
    /\ host[h].at = "apply" /\ Refused(h)
    /\ Release(h)
    /\ UNCHANGED <<document, secrets, grants, created, ghosts, writes, faults>>

\* The secret store changes while the file is still the previous one.
SecretsAfter(req) ==
    CASE req.kind = "secret"              -> secrets \union {req.profile}
      [] req.kind \in {"clear", "remove"} -> secrets \ {req.profile}
      [] req.kind = "reset"               -> {}
      [] OTHER                            -> secrets

Apply(h) ==
    /\ host[h].at = "apply" /\ ~Refused(h)
    /\ secrets' = SecretsAfter(host[h].req)
    /\ IF NoOp(host[h].read, host[h].req)
          THEN Release(h)
          ELSE /\ host' = [host EXCEPT ![h] = [at |-> "write", req |-> host[h].req,
                                                read |-> host[h].read]]
               /\ UNCHANGED lock
    /\ UNCHANGED <<document, grants, created, ghosts, writes, faults>>

Fault == faults < MaxFaults /\ faults' = faults + 1

\* The secret store refuses; a reset may have cleared some by then.
SecretsFail(h) ==
    /\ host[h].at = "apply" /\ ~Refused(h)
    /\ host[h].req.kind \in {"secret", "clear", "remove", "reset"}
    /\ Fault
    /\ IF host[h].req.kind = "reset" THEN secrets' \in SUBSET secrets ELSE UNCHANGED secrets
    /\ Release(h)
    /\ UNCHANGED <<document, grants, created, ghosts, writes>>

Moves(h) == {q \in Profiles :
                Changed(host[h].read, host[h].req)[q] # host[h].read.endpoint[q]}

\* A bug for the mutants: a change of the secret alone is not numbered.
SavesChanges(h) ==
    /\ document' = [revision |-> host[h].read.revision + (IF Moves(h) = {} THEN 0 ELSE 1),
                    endpoint |-> Changed(host[h].read, host[h].req)]
    /\ moved' = [q \in Profiles |-> IF q \in Moves(h) THEN moved[q] + 1 ELSE moved[q]]

Saves(h) ==
    /\ document' = [revision |-> host[h].read.revision + 1,
                    endpoint |-> Changed(host[h].read, host[h].req)]
    /\ moved' = [q \in Profiles |-> IF q \in Moves(h) THEN moved[q] + 1 ELSE moved[q]]

Follows(req) == req.kind \in {"set", "remove", "reset"}

Write(h) ==
    /\ host[h].at = "write"
    /\ Saves(h)
    /\ committed' = Append(committed, host[h].read.revision + 1)
    /\ lock' = NoOne
    /\ host' = [host EXCEPT ![h] = IF Follows(host[h].req)
                                      THEN [at |-> "revoke", req |-> host[h].req]
                                      ELSE Idle]
    /\ UNCHANGED <<secrets, grants, created, lost, outdated, writes, faults>>

\* The write fails before the rename, or after it while the directory is
\* synced: either way the request fails and nothing follows.
WriteFails(h) ==
    /\ host[h].at = "write"
    /\ Fault
    /\ \/ UNCHANGED <<document, moved, lost>>
       \/ Saves(h) /\ lost' = lost + (IF Follows(host[h].req) THEN 1 ELSE 0)
    /\ lock' = NoOne
    /\ host' = [host EXCEPT ![h] = [at |-> "failed"]]
    /\ UNCHANGED <<secrets, grants, created, committed, outdated, writes>>

Reported(h) ==
    /\ host[h].at = "failed"
    /\ host' = [host EXCEPT ![h] = Idle]
    /\ UNCHANGED <<shared, created, ghosts, writes, faults>>

-----------------------------------------------------------------------------
\* Consent.

Grant(q, e) == [profile |-> q, endpoint |-> e, given |-> moved[q], live |-> TRUE]

Covers(g, q, e) == g.live /\ g.profile = q /\ g.endpoint = e

RevokesAtReset(g, req) == IF req.kind = "reset" THEN [g EXCEPT !.live = FALSE] ELSE g

\* A profile whose endpoint changed loses every remote grant, one that was
\* removed likewise, and a reset takes those of the module.
Revoked(g, req) ==
    IF req.kind = "reset" \/ g.profile = req.profile THEN [g EXCEPT !.live = FALSE] ELSE g

Revoke(h) ==
    /\ host[h].at = "revoke"
    /\ grants' = [i \in DOMAIN grants |-> Revoked(grants[i], host[h].req)]
    /\ host' = [host EXCEPT ![h] = Idle]
    /\ UNCHANGED <<document, secrets, lock, created, ghosts, writes, faults>>

\* The grants file cannot be updated: reported beside the write's result.
RevokeFails(h) ==
    /\ host[h].at = "revoke"
    /\ \E i \in DOMAIN grants : Revoked(grants[i], host[h].req) # grants[i]
    /\ Fault
    /\ lost' = lost + 1
    /\ host' = [host EXCEPT ![h] = Idle]
    /\ UNCHANGED <<shared, created, moved, committed, outdated, writes>>

\* module.permission.grant: the scope is checked against the settings,
\* then recorded.
CheckScope(h, q) ==
    /\ host[h] = Idle /\ Len(grants) < MaxGrants
    /\ document.endpoint[q] \in Endpoints
    /\ host' = [host EXCEPT ![h] = [at |-> "grant", profile |-> q,
                                    endpoint |-> document.endpoint[q]]]
    /\ UNCHANGED <<shared, created, ghosts, writes, faults>>

RecordGrant(h) ==
    /\ host[h].at = "grant"
    /\ LET q == host[h].profile
           e == host[h].endpoint
       IN  IF \/ \E i \in DOMAIN grants : Covers(grants[i], q, e)
              \/ Len(grants) = MaxGrants
              THEN UNCHANGED grants
              ELSE grants' = Append(grants, Grant(q, e))
    /\ host' = [host EXCEPT ![h] = Idle]
    /\ UNCHANGED <<document, secrets, lock, created, ghosts, writes, faults>>

\* A task reads the endpoint it will send to, then looks for a live grant
\* of exactly that scope.
TaskReads(h, q) ==
    /\ host[h] = Idle
    /\ document.endpoint[q] \in Endpoints
    /\ host' = [host EXCEPT ![h] = [at |-> "task", profile |-> q,
                                    endpoint |-> document.endpoint[q],
                                    moved |-> moved[q]]]
    /\ UNCHANGED <<shared, created, ghosts, writes, faults>>

TaskConsent(h) ==
    /\ host[h].at = "task"
    /\ outdated' = (outdated \/
          \E i \in DOMAIN grants :
              /\ Covers(grants[i], host[h].profile, host[h].endpoint)
              /\ grants[i].given < host[h].moved)
    /\ host' = [host EXCEPT ![h] = Idle]
    /\ UNCHANGED <<shared, created, moved, committed, lost, writes, faults>>

\* A process dies and is started again; the system releases its lock.
Crash(h) ==
    /\ host[h] # Idle
    /\ Fault
    /\ host' = [host EXCEPT ![h] = Idle]
    /\ lock' = IF lock = h THEN NoOne ELSE lock
    /\ lost' = lost + (IF host[h].at = "revoke" THEN 1 ELSE 0)
    /\ UNCHANGED <<document, secrets, grants, created, moved, committed, outdated, writes>>

\* Every request the bound allows has been made and answered.
Done == writes = MaxWrites /\ (\A h \in Hosts : host[h] = Idle) /\ UNCHANGED settingsVars

SettingsNext ==
    \/ \E h \in Hosts :
          \/ \E req \in Requests : Ask(h, req)
          \/ Lock(h) \/ Refuse(h) \/ Apply(h) \/ SecretsFail(h)
          \/ Write(h) \/ WriteFails(h) \/ Reported(h)
          \/ Revoke(h) \/ RevokeFails(h)
          \/ \E q \in Profiles : CheckScope(h, q) \/ TaskReads(h, q)
          \/ RecordGrant(h) \/ TaskConsent(h)
          \/ Crash(h)
    \/ Done

SettingsSpec == SettingsInit /\ [][SettingsNext]_settingsVars

-----------------------------------------------------------------------------
\* Properties

SettingsTypeOK ==
    /\ document.revision \in 0 .. MaxWrites
    /\ document.endpoint \in [Profiles -> Endpoints \union {Unset, Missing}]
    /\ secrets \subseteq Profiles /\ created \subseteq Profiles
    /\ lock \in Hosts \union {NoOne}
    /\ \A h \in Hosts : host[h].at \in {"idle", "lock", "apply", "write", "failed",
                                        "revoke", "grant", "task"}
    /\ \A h \in Hosts : host[h].at \in {"apply", "write"} <=> lock = h
    /\ \A i \in DOMAIN grants : grants[i].endpoint \in Endpoints
    /\ lost \in 0 .. MaxFaults /\ outdated \in BOOLEAN

\* No committed write is lost to another process: each was answered a
\* revision of its own, in the order the file took them, and the file has
\* every one of them.
NoWriteLost ==
    /\ \A i, j \in DOMAIN committed : i < j => committed[i] < committed[j]
    /\ \A i \in DOMAIN committed : committed[i] <= document.revision

\* A secret belongs to a profile that the settings have: a profile that is
\* removed, or reset away, takes its secret with it whatever another
\* process does meanwhile, and wherever the change fails or is cut off.
NoOrphanSecret == \A q \in secrets : Known(document, q)

\* With one process, a task runs by consent to the endpoint as it was last
\* set, unless two changes lost their revocation: after one, the next
\* change of the endpoint still revokes what it left.
OneLossIsHarmless ==
    (\A h, other \in Hosts : h = other) /\ outdated => lost >= 2

\* No process's settings are lost under another's, no secret is left
\* without its profile, and one lost revocation lets no task send where it
\* was not consented.
SettingsKept == SettingsTypeOK /\ NoWriteLost /\ NoOrphanSecret /\ OneLossIsHarmless

\* host.rs, of a revocation that fails: "Nothing it leaves behind can be
\* used: a grant names its exact path or endpoint origin, which the
\* settings no longer hold" (false: they may hold it again).
NothingLeftIsUsed == ~outdated

\* document.rs: a change goes "through the shared durable write, so a
\* failure at any point leaves the previous file" (false: the directory is
\* synced after the rename, and may fail).
FailureLeavesPrevious ==
    [][\A h \in Hosts : host[h].at = "write" /\ host'[h].at = "failed" =>
          document' = document]_settingsVars

=============================================================================
