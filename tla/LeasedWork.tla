----------------------------- MODULE LeasedWork -----------------------------
(***************************************************************************)
(* What the job queue of sortsys promises its users, without the table     *)
(* that implements it: an item of work is submitted once, is held by at    *)
(* most one runner at a time, can be returned any number of times, and     *)
(* ends at most once -- completed by the runner that holds it, or dropped. *)
(* JobQueue.tla implements this specification.                             *)
(***************************************************************************)

CONSTANTS
    Jobs,       \* the items of work
    Runners,    \* the runner identities that may hold one
    NoRunner    \* "held by nobody"

VARIABLES
    phase,      \* [Jobs -> Phases]
    holder      \* [Jobs -> Runners \cup {NoRunner}]

workVars == <<phase, holder>>

Phases == {"unborn", "open", "held", "completed", "dropped", "purged"}

Init ==
    /\ phase  = [j \in Jobs |-> "unborn"]
    /\ holder = [j \in Jobs |-> NoRunner]

Submit(j) ==
    /\ phase[j] = "unborn"
    /\ phase' = [phase EXCEPT ![j] = "open"]
    /\ UNCHANGED holder

\* A runner takes open items; nothing that is held can be taken.
Take(S, r) ==
    /\ \A j \in S : phase[j] = "open"
    /\ phase'  = [j \in Jobs |-> IF j \in S THEN "held" ELSE phase[j]]
    /\ holder' = [j \in Jobs |-> IF j \in S THEN r ELSE holder[j]]

\* Held items become open again: reported failure, lost runner, lapsed lease.
Return(S) ==
    /\ \A j \in S : phase[j] = "held"
    /\ phase'  = [j \in Jobs |-> IF j \in S THEN "open" ELSE phase[j]]
    /\ holder' = [j \in Jobs |-> IF j \in S THEN NoRunner ELSE holder[j]]

Complete(j) ==
    /\ phase[j] = "held"
    /\ phase'  = [phase EXCEPT ![j] = "completed"]
    /\ holder' = [holder EXCEPT ![j] = NoRunner]

\* Items are given up, held or not: retries exhausted, or the work withdrawn.
Drop(S) ==
    /\ \A j \in S : phase[j] \in {"open", "held"}
    /\ phase'  = [j \in Jobs |-> IF j \in S THEN "dropped" ELSE phase[j]]
    /\ holder' = [j \in Jobs |-> IF j \in S THEN NoRunner ELSE holder[j]]

Purge(j) ==
    /\ phase[j] \in {"completed", "dropped"}
    /\ phase' = [phase EXCEPT ![j] = "purged"]
    /\ UNCHANGED holder

Next ==
    \/ \E j \in Jobs : Submit(j) \/ Complete(j) \/ Purge(j)
    \/ \E S \in SUBSET Jobs :
          \/ \E r \in Runners : Take(S, r)
          \/ Return(S)
          \/ Drop(S)

Spec == Init /\ [][Next]_workVars
=============================================================================
