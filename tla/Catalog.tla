------------------------------- MODULE Catalog -------------------------------
(***************************************************************************)
(* Plans with their subscriptions, and stored cards, with the jobs of      *)
(* services/subscription_lifecycle.go.  A scenario exercises one surface,  *)
(* since cards and plans share no row.                                     *)
(***************************************************************************)
EXTENDS CardExpiry

CONSTANT Surfaces \* what a scenario may exercise: subset of AllSurfaces

AllSurfaces == {"plans", "trials", "cards"}

ASSUME SurfaceAssumption == Surfaces \subseteq AllSurfaces

VARIABLE surface

vars == <<surface, planVars, faults, subVars, cardVars>>

Init ==
    /\ surface \in Surfaces
    /\ PlanInit /\ SubInit /\ CardInit

\* Edits overlap with the creation of subscriptions.
Plans ==
    /\ surface = "plans"
    /\ \/ (\E e \in Editors : PlanStep(e)) /\ UNCHANGED subVars
       \/ (\E w \in Callers : Subscribing(w)) /\ UNCHANGED <<planVars, faults>>
    /\ UNCHANGED <<surface, cardVars>>

\* What the plans of the scenario of trials cost: nothing in it looks at a price.
OnePrice == CHOOSE a \in Amounts : TRUE

\* The plan is created and stays as it is.
Subscriptions ==
    /\ surface = "trials"
    /\ \/ /\ \E e \in Editors : CreatePlan(e)
          /\ plan'.amount = OnePrice
          /\ UNCHANGED subVars
       \/ SubStep /\ UNCHANGED <<planVars, faults>>
       \/ SubFault /\ UNCHANGED planVars
    /\ UNCHANGED <<surface, cardVars>>

subOthers == <<sub, invoices, wk, stale, events>>

CardScenario ==
    /\ surface = "cards"
    /\ \/ Tick /\ UNCHANGED <<faults, cardVars>>
       \/ CardStep /\ UNCHANGED <<faults, now, calls, subOthers>>
       \/ CardCall /\ calls' = calls + 1 /\ UNCHANGED <<faults, now, subOthers>>
       \/ CardFault /\ UNCHANGED <<now, calls, subOthers>>
    /\ UNCHANGED <<surface, planVars>>

Next == Plans \/ Subscriptions \/ CardScenario

Spec == Init /\ [][Next]_vars

\* The cron library runs the jobs at their times; a run ends.
JobRuns(w) ==
    /\ surface = "trials"
    /\ Job(w)
    /\ UNCHANGED <<planVars, faults, surface, cardVars>>

CardJobRuns(w) ==
    /\ surface = "cards"
    /\ CardJob(w)
    /\ UNCHANGED <<faults, now, calls, subOthers, surface, planVars>>

FairSpec ==
    /\ Spec
    /\ \A w \in TrialJobs : WF_vars(JobRuns(w)) /\ WF_vars(CardJobRuns(w))

\* Rows, copies and histories keep their types.
TypeOK ==
    /\ surface \in Surfaces
    /\ PlanTypeOK /\ faults \in Nat /\ SubTypeOK /\ CardTypeOK

\* However edits overlap, the newest version is what the plan says, and every
\* subscription has the terms of the version it was made from.
VersionsKept == VersionsFollowPlan /\ TermsKept

\* Once the trial of an active subscription has ended the job starts its
\* billing, whatever copies are stored over it, unless it is not active again.
TrialBilled ==
    \A s \in Subs :
        (sub[s].status = "active" /\ sub[s].trialEnd # NoTime /\ sub[s].trialEnd <= now)
            ~> (sub[s].started # NoTime \/ sub[s].status # "active")
=============================================================================
