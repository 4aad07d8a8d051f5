-------------------------------- MODULE Edges --------------------------------
(***************************************************************************)
(* The edges of the service: what merchants read (the report, the lists),  *)
(* how many requests are let in and how the provider is called.  A         *)
(* scenario exercises one surface, since they share no state.              *)
(***************************************************************************)
EXTENDS Analytics, Listing, RateLimiter, ProviderClient

CONSTANT Surfaces \* what a scenario may exercise: subset of AllSurfaces

AllSurfaces == {"dashboard", "listing", "limits", "provider"}

ASSUME SurfaceAssumption == Surfaces \subseteq AllSurfaces

VARIABLE surface

vars == <<surface, dashboardVars, listingVars, limiterVars, clientVars>>

Init ==
    /\ surface \in Surfaces
    /\ DashboardInit /\ LimiterInit /\ ClientInit
    /\ ListingInit /\ (surface # "listing" => created = 0)

\* GetAnalytics reads while the tables change.
Reporting ==
    /\ surface = "dashboard" /\ DashboardStep
    /\ UNCHANGED <<surface, listingVars, limiterVars, clientVars>>

\* A client walks through a list.
Walking ==
    /\ surface = "listing" /\ ListingStep
    /\ UNCHANGED <<surface, dashboardVars, limiterVars, clientVars>>

\* Requests meet the limiter.
Limiting ==
    /\ surface = "limits" /\ LimiterStep
    /\ UNCHANGED <<surface, dashboardVars, listingVars, clientVars>>

\* Calls go to the provider.
Calling ==
    /\ surface = "provider" /\ ClientStep
    /\ UNCHANGED <<surface, dashboardVars, listingVars, limiterVars>>

Next == Reporting \/ Walking \/ Limiting \/ Calling

Spec == Init /\ [][Next]_vars

\* Rows, walks, buckets and tokens keep their types.
TypeOK ==
    /\ surface \in Surfaces
    /\ DashboardTypeOK /\ ListingTypeOK /\ LimiterTypeOK /\ ClientTypeOK
=============================================================================
