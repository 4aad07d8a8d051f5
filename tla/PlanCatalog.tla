---------------------------- MODULE PlanCatalog ----------------------------
(***************************************************************************)
(* A plan and its versions: CreatePlan, UpdatePlan and                     *)
(* GetPlanLatestVersion (services/plan.go).  UpdatePlan reads the plan     *)
(* before its transaction; inside it, the row lock that the update of the  *)
(* plan takes orders concurrent edits.                                     *)
(***************************************************************************)
EXTENDS Integers, Sequences, FiniteSets

CONSTANTS
    Editors,    \* requests that create or edit the plan
    Amounts,    \* prices a request may ask for
    Trials,     \* trial periods a request may ask for, in ticks; 0 is no trial
    MaxVersions,\* bound: versions of the plan
    MaxFaults   \* bound: failed calls and crashes

ASSUME PlanAssumption ==
    /\ Amounts \subseteq Nat \ {0}
    /\ Trials \subseteq Nat
    /\ MaxVersions \in Nat /\ MaxFaults \in Nat

VARIABLES
    plan,      \* the row of plans; amount 0: not created
    versions,  \* the rows of plan_versions in the order of their creation
    editor,    \* where each request is, with its copy of the plan
    answered,  \* history: the plan as the last call answered it
    dropped,   \* history: the transaction of an edit failed
    faults     \* how many faults happened (bounded by MaxFaults)

planVars == <<plan, versions, editor, answered, dropped>>

PlanStatus == {"active", "inactive"}
Plan == [amount : Amounts \cup {0}, trial : Trials \cup {0}, status : PlanStatus]
NoPlan == [amount |-> 0, trial |-> 0, status |-> "active"]

Fault == faults < MaxFaults /\ faults' = faults + 1

IdleEditor == [pc |-> "idle", copy |-> NoPlan, body |-> NoPlan, seen |-> 0]

Version(i, p) == [index |-> i, amount |-> p.amount, trial |-> p.trial, status |-> p.status]

Latest == versions[Len(versions)]

CreatePlan(e) ==
    /\ editor[e].pc = "idle" /\ plan = NoPlan /\ MaxVersions > 0
    /\ \E p \in [amount : Amounts, trial : Trials, status : {"active"}] :
         /\ plan' = p
         /\ versions' = <<Version(1, p)>>
         /\ answered' = p
    /\ UNCHANGED <<editor, dropped, faults>>

\* The plan is read, and changed in memory; what the request leaves out keeps
\* its value; a request changes one field.
UpdateRead(e) ==
    /\ editor[e].pc = "idle" /\ plan # NoPlan
    /\ \E b \in [amount : Amounts, trial : Trials, status : PlanStatus] :
         /\ Cardinality({f \in {"amount", "trial", "status"} : b[f] # plan[f]}) = 1
         /\ editor' = [editor EXCEPT ![e] = [pc |-> "commit", copy |-> plan, body |-> b,
                                             seen |-> Len(versions)]]
    /\ UNCHANGED <<plan, versions, answered, dropped, faults>>

\* trx.Updates(plan) writes the fields that are not zero: a trial of 0 days
\* does not reach the row.
Updates(row, p) == [p EXCEPT !.trial = IF @ = 0 THEN row.trial ELSE @]

\* Mutant of NextIndex: the index follows what was read before the transaction.
NextIndexRead(e) == editor[e].seen + 1

NextIndex(e) == Latest.index + 1

UpdateCommit(e) ==
    LET p == editor[e].body IN
    /\ editor[e].pc = "commit" /\ Len(versions) < MaxVersions
    /\ plan' = Updates(plan, p)
    /\ versions' = Append(versions, Version(NextIndex(e), p))
    /\ answered' = p
    /\ editor' = [editor EXCEPT ![e] = IdleEditor]
    /\ UNCHANGED <<dropped, faults>>

\* The error of the transaction is dropped: the changed plan is answered.
UpdateFails(e) ==
    /\ Fault
    /\ editor[e].pc = "commit"
    /\ answered' = editor[e].body
    /\ dropped' = TRUE
    /\ editor' = [editor EXCEPT ![e] = IdleEditor]
    /\ UNCHANGED <<plan, versions>>
-----------------------------------------------------------------------------
PlanInit ==
    /\ plan = NoPlan /\ versions = <<>> /\ answered = NoPlan
    /\ editor = [e \in Editors |-> IdleEditor]
    /\ dropped = FALSE /\ faults = 0

PlanStep(e) == CreatePlan(e) \/ UpdateRead(e) \/ UpdateCommit(e) \/ UpdateFails(e)

PlanTypeOK ==
    /\ plan \in Plan /\ answered \in Plan
    /\ \A i \in DOMAIN versions :
         versions[i] \in [index : Nat, amount : Amounts, trial : Trials, status : PlanStatus]
    /\ editor \in [Editors -> [pc : {"idle", "commit"}, copy : Plan, body : Plan, seen : Nat]]
    /\ dropped \in BOOLEAN /\ faults \in Nat

\* Versions are numbered without gaps however edits overlap; the newest one has
\* the price and status of the plan, and its trial unless the trial was removed
\* at some time; without a failed transaction it is what the merchant was told.
VersionsFollowPlan ==
    /\ \A i \in DOMAIN versions : versions[i].index = i
    /\ versions # <<>> =>
         /\ Latest.amount = plan.amount /\ Latest.status = plan.status
         /\ Latest.trial \in {0, plan.trial}
         /\ ~dropped => Version(Latest.index, answered) = Latest
=============================================================================
