------------------------------ MODULE Accounts ------------------------------
(***************************************************************************)
(* The accounts of a merchant and its customers: mails, portal sign-in,    *)
(* customers, and the tenant row.  A scenario exercises one of them, the   *)
(* surface, so that interleavings of calls that touch different rows are   *)
(* not multiplied: in "mail" no code is tried, in "portal" mails wait.     *)
(***************************************************************************)
EXTENDS PortalAccess, CustomerService, MerchantAccount

CONSTANT Surfaces \* what a scenario may exercise: subset of AllSurfaces

AllSurfaces == {"mail", "portal", "customers", "merchant"}

ASSUME SurfaceAssumption == Surfaces \subseteq AllSurfaces

VARIABLE surface

vars == <<surface, mailVars, portalVars, customerVars, tenantVars>>

Init ==
    /\ surface \in Surfaces
    /\ MailInit /\ PortalInit /\ CustomerInit /\ MerchantInit
    /\ surface # "merchant" => Registered = {}

others == <<surface, customerVars, tenantVars>>

Mails ==
    /\ surface = "mail"
    /\ \/ \E w \in Senders : InitiateSession(w)
       \/ /\ \/ \E w \in Senders : AskMail(w) \/ Sender(w)
             \/ \E c \in Consumers : Mailer(c)
          /\ UNCHANGED portalVars
    /\ UNCHANGED others

Portal ==
    /\ surface = "portal"
    /\ \/ Tick
       \/ \E w \in Senders : InitiateSession(w) \/ SignIn(w)
    /\ UNCHANGED others

Customers ==
    /\ surface = "customers"
    /\ CustomerNext
    /\ UNCHANGED <<surface, mailVars, portalVars, tenantVars>>

Merchant ==
    /\ surface = "merchant"
    /\ MerchantNext
    /\ UNCHANGED <<surface, mailVars, portalVars, customerVars>>

Next == Mails \/ Portal \/ Customers \/ Merchant

Spec == Init /\ [][Next]_vars

\* Consumers take messages and handlers go on; nothing makes a sender finish, a
\* customer try a code or a process that lost its connection start again.
Handles(c) ==
    /\ surface = "mail"
    /\ LoadMail(c) \/ MailStep(c)
    /\ UNCHANGED <<portalVars, others>>

FairSpec == Spec /\ \A c \in Consumers : WF_vars(Handles(c))

\* Rows, copies and histories keep their types.
TypeOK ==
    /\ surface \in Surfaces
    /\ PortalTypeOK /\ CustomerTypeOK /\ MerchantTypeOK

\* A message in the queue ends with the mail delivered, whatever fails on the
\* way, unless no consumer is left.
MailDelivered ==
    \A k \in Jobs : (surface = "mail" /\ ready[k] > 0)
                      ~> (sent[k] > 0 \/ consuming = {})
=============================================================================
