---------------------------- MODULE MCCapabilities ----------------------------
(***************************************************************************)
(* The threads that work beside the owner, for TLC: the point worker       *)
(* (PointWorker), a module's activations and tasks on its lane (Lanes),    *)
(* the settings and secrets of its profiles (Settings), the resources it   *)
(* installs (Resources) and the exchange with a service (Transport), all   *)
(* extended here, and smaller instances of two of them.  They share no     *)
(* state, so one component moves in each behaviour and the run is as large *)
(* as their sum.                                                           *)
(***************************************************************************)
EXTENDS PointWorker, Settings, Lanes, Resources, Transport, TLC

CONSTANTS One, Other, P1, P2, Near, Far

VARIABLES
    part,  \* the component that takes the steps of this behaviour
    itsStaged, itsTarget, itsWaiting, itsLane, itsLastJob, itsCrashes,
    itsDiskFaults,
    itsDocument, itsSecrets, itsGrants, itsLock, itsHost, itsCreated,
    itsMoved, itsCommitted, itsLost, itsOutdated, itsWrites, itsFaults

sharedVars == <<itsStaged, itsTarget, itsWaiting, itsLane, itsLastJob,
    itsCrashes, itsDiskFaults>>
consentVars == <<itsDocument, itsSecrets, itsGrants, itsLock, itsHost,
    itsCreated, itsMoved, itsCommitted, itsLost, itsOutdated, itsWrites,
    itsFaults>>
everything == <<part, vars, lanesVars, resourceVars, settingsVars, sharedVars,
    consentVars, transportVars>>

\* Two modules and a grant share a lane that lets one job wait; two
\* processes change two profiles and their secrets (the extended Settings)
\* and one changes an endpoint and asks consent.
TwoHosts == {One, Other}
TwoProfiles == {P1, P2}
OneEndpoint == {Near}

\* One process installs and removes two resources where one has room (the
\* extended Resources); two work on one resource in the same root.
OneHost == {One}

Shared == INSTANCE Resources WITH
    Editors <- {One, Other}, Resources <- {P1}, Quota <- 1, TransferQueue <- 1,
    MaxJobs <- 2, MaxCrashes <- 1, MaxDiskFaults <- 1, staged <- itsStaged,
    target <- itsTarget, waiting <- itsWaiting, lane <- itsLane,
    lastJob <- itsLastJob, crashes <- itsCrashes, diskFaults <- itsDiskFaults

Consent == INSTANCE Settings WITH
    Hosts <- {One}, Profiles <- {P1}, Endpoints <- {Near, Far},
    MaxWrites <- 6, MaxGrants <- 2, MaxFaults <- 2,
    document <- itsDocument, secrets <- itsSecrets, grants <- itsGrants,
    lock <- itsLock, host <- itsHost, created <- itsCreated,
    moved <- itsMoved, committed <- itsCommitted, lost <- itsLost,
    outdated <- itsOutdated, writes <- itsWrites, faults <- itsFaults

\* A service on this machine reached by plain http, every origin a
\* redirect could name, over TLS or not, and what a lookup may answer: one
\* address, two, one that does not belong, and none.
EachOrigin == {"home", "other", "vault", "away"}
OverTls == {"vault", "away"}
Classes == [home |-> "loopback", other |-> "loopback", vault |-> "loopback", away |-> "remote"]
Classed == [own |-> "loopback", other |-> "remote", bad |-> "none"]
Lookups == {<<"own">>, <<"own", "own">>, <<"own", "other">>, <<"bad">>, <<"other">>, <<>>}

ASSUME Assumptions ==
    /\ PointAssumption
    /\ LanesAssumption
    /\ ResourcesAssumption /\ Shared!ResourcesAssumption
    /\ SettingsAssumption /\ Consent!SettingsAssumption
    /\ TransportAssumption

\* A component that does not move rests where it begins.
CapabilitiesInit ==
    /\ part \in {"points", "lane", "alone", "shared", "profiles", "consent", "exchange"}
    /\ Init /\ LanesInit
    /\ ResourcesInit /\ Shared!ResourcesInit
    /\ SettingsInit /\ Consent!SettingsInit
    /\ TransportInit /\ (post => part = "exchange")

PointSteps ==
    /\ part = "points"
    /\ Next
    /\ UNCHANGED <<part, lanesVars, resourceVars, settingsVars, sharedVars,
                   consentVars, transportVars>>

LaneSteps ==
    /\ part = "lane"
    /\ LanesNext
    /\ UNCHANGED <<part, vars, resourceVars, settingsVars, sharedVars,
                   consentVars, transportVars>>

AloneSteps ==
    /\ part = "alone"
    /\ ResourcesNext
    /\ UNCHANGED <<part, vars, lanesVars, settingsVars, sharedVars, consentVars,
                   transportVars>>

SharedSteps ==
    /\ part = "shared"
    /\ Shared!ResourcesNext
    /\ UNCHANGED <<part, vars, lanesVars, resourceVars, settingsVars,
                   consentVars, transportVars>>

ProfileSteps ==
    /\ part = "profiles"
    /\ SettingsNext
    /\ UNCHANGED <<part, vars, lanesVars, resourceVars, sharedVars, consentVars,
                   transportVars>>

ConsentSteps ==
    /\ part = "consent"
    /\ Consent!SettingsNext
    /\ UNCHANGED <<part, vars, lanesVars, resourceVars, settingsVars, sharedVars,
                   transportVars>>

ExchangeSteps ==
    /\ part = "exchange"
    /\ TransportNext
    /\ UNCHANGED <<part, vars, lanesVars, resourceVars, settingsVars, sharedVars,
                   consentVars>>

CapabilitiesNext ==
    \/ PointSteps \/ LaneSteps \/ AloneSteps \/ SharedSteps \/ ProfileSteps
    \/ ConsentSteps \/ ExchangeSteps

CapabilitiesSpec == CapabilitiesInit /\ [][CapabilitiesNext]_everything

\* The two modules, resources or profiles are alike.
Alike == Permutations({P1, P2})

-----------------------------------------------------------------------------
\* Properties

\* What reads installed is whole, also where two processes work in one
\* root; and where one process changes endpoints and asks consent, a task
\* sends nowhere by consent to an earlier endpoint of its profile, unless
\* two changes of the endpoint went unheard.
InstancesKept == Shared!ResourcesWhole /\ Consent!SettingsKept
===============================================================================
