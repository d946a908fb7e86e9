---------------------------- MODULE MCSourceJobs ----------------------------
(***************************************************************************)
(* SourceJobs for TLC.                                                     *)
(***************************************************************************)
EXTENDS SourceJobs, TLC

\* Clients and gains are alike.
Symmetry == Permutations(Clients) \union Permutations(Gains)

\* The kindest circumstances: clients ask only while no job is under way,
\* never give a request up and go on with it long before a decode is done,
\* and every decode succeeds.
Patient(c) ==
    /\ stage[c] = "idle" /\ stage'[c] # "idle" => Live = {}
    /\ stage[c] # "idle" /\ stage'[c] = "idle" =>
         \/ stage[c] = "ask" /\ Serves(want[c])
         \/ stage[c] = "told" /\ jobs[at[c]].state \in {"failed", "none"}

Prompt ==
    worker.doing = "work" /\ worker'.doing # "work" =>
        /\ \A c \in Clients : stage[c] \in {"idle", "blocked"}
        /\ inbox' # <<>> /\ inbox'[Len(inbox')].kind = "prepared"

PatientSpec == Init /\ [][Next /\ Prompt /\ \A c \in Clients : Patient(c)]_vars /\ Fairness
=============================================================================
