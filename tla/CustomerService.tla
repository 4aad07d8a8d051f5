-------------------------- MODULE CustomerService --------------------------
(***************************************************************************)
(* The customers of one merchant: CreateCustomer, UpdateCustomer and       *)
(* GetOrCreateCustomer (services/customer.go) and the portal's             *)
(* UpdateProfile.  No index makes an email unique: each call looks for a   *)
(* customer with the email and later writes a whole row.  Emails are       *)
(* compared with ILIKE, so one email may match another as a pattern.       *)
(***************************************************************************)
EXTENDS Naturals, FiniteSets

CONSTANTS
    Emails,       \* emails, up to upper and lower case
    Matches(_, _),\* Matches(e, f): the stored email f is ILIKE the pattern e
    Clerks,       \* requests that read and write customers
    MaxCustomers, \* bound: customers ever created
    MaxNames      \* bound: writes of a name

ASSUME CustomerAssumption ==
    /\ MaxCustomers \in Nat /\ MaxNames \in Nat /\ Emails # {}
    /\ \A e, f \in Emails : Matches(e, f) \in BOOLEAN
    /\ \A e \in Emails : Matches(e, e)

VARIABLES
    customer, \* the rows of customers, named by the order of their creation
    clerk,    \* where each request is, with its copy
    version,  \* history: how often the table was written
    outdated, \* history: writes decided on facts read before another write
    names     \* how many names were written (bounded by MaxNames)

customerVars == <<customer, clerk, version, outdated, names>>

CustomerIds == 1 .. MaxCustomers

Customer == [exists : BOOLEAN, email : Emails, name : Nat]
NoCustomer == [exists |-> FALSE, email |-> CHOOSE e \in Emails : TRUE, name |-> 0]

IdleClerk == [pc |-> "idle", id |-> 0, copy |-> NoCustomer, seen |-> 0]

Present == {i \in CustomerIds : customer[i].exists}

\* The customers a lookup of email e may find.
Holders(e) == {i \in Present : Matches(e, customer[i].email)}

\* Request r has read what it decides on; it will write row of customer id, or
\* a new row when id is 0.
Decide(r, pc, id, row) ==
    clerk' = [clerk EXCEPT ![r] = [pc |-> pc, id |-> id, copy |-> row, seen |-> version]]

\* CreateCustomer, and GetOrCreateCustomer for an email nobody has.  When
\* somebody has it, the one refuses and the other returns that customer.
CreateCheck(r) ==
    /\ clerk[r].pc = "idle"
    /\ \E e \in Emails :
         /\ Holders(e) = {}
         /\ Decide(r, "create", 0, [exists |-> TRUE, email |-> e, name |-> 0])
    /\ UNCHANGED <<customer, version, outdated, names>>

\* UpdateCustomer reads the customer: it keeps the email or asks for another.
UpdateRead(r) ==
    /\ clerk[r].pc = "idle" /\ names < MaxNames
    /\ \E i \in Present, e \in Emails :
         Decide(r, IF e = customer[i].email THEN "store" ELSE "check", i,
                [customer[i] EXCEPT !.email = e, !.name = names + 1])
    /\ names' = names + 1
    /\ UNCHANGED <<customer, version, outdated>>

\* Mutant of UpdateCheck: it counts the customer's own row only.
UpdateCheckOwn(r) ==
    /\ clerk[r].pc = "check"
    /\ clerk' = [clerk EXCEPT ![r].pc = "store"]
    /\ UNCHANGED <<customer, version, outdated, names>>

\* UpdateCustomer looks for another customer with the new email.
UpdateCheck(r) ==
    /\ clerk[r].pc = "check"
    /\ clerk' = [clerk EXCEPT ![r] =
                   IF Holders(clerk[r].copy.email) \subseteq {clerk[r].id}
                   THEN [clerk[r] EXCEPT !.pc = "store"] ELSE IdleClerk]
    /\ UNCHANGED <<customer, version, outdated, names>>

\* UpdateProfile reads the customer of the session.
ProfileRead(r) ==
    /\ clerk[r].pc = "idle" /\ names < MaxNames
    /\ \E i \in Present : Decide(r, "store", i, [customer[i] EXCEPT !.name = names + 1])
    /\ names' = names + 1
    /\ UNCHANGED <<customer, version, outdated>>

\* Request r writes row i and is done.
Put(r, i) ==
    /\ customer' = [customer EXCEPT ![i] = clerk[r].copy]
    /\ version' = version + 1
    /\ outdated' = IF clerk[r].seen = version THEN outdated ELSE outdated + 1
    /\ clerk' = [clerk EXCEPT ![r] = IdleClerk]

CreateCustomer(r) ==
    /\ clerk[r].pc = "create"
    /\ \E i \in CustomerIds \ Present :
         /\ \A j \in CustomerIds : j < i => j \in Present
         /\ Put(r, i)
    /\ UNCHANGED names

StoreCustomer(r) ==
    /\ clerk[r].pc = "store"
    /\ Put(r, clerk[r].id)
    /\ UNCHANGED names

\* A database call fails, or there is no customer left to create.
ClerkFails(r) ==
    /\ clerk[r].pc # "idle"
    /\ clerk' = [clerk EXCEPT ![r] = IdleClerk]
    /\ UNCHANGED <<customer, version, outdated, names>>
-----------------------------------------------------------------------------
CustomerInit ==
    /\ customer = [i \in CustomerIds |-> NoCustomer]
    /\ clerk = [r \in Clerks |-> IdleClerk]
    /\ version = 0 /\ outdated = 0 /\ names = 0

CustomerStep(r) ==
    \/ CreateCheck(r) \/ CreateCustomer(r)
    \/ UpdateRead(r) \/ UpdateCheck(r) \/ ProfileRead(r) \/ StoreCustomer(r)
    \/ ClerkFails(r)

CustomerNext == \E r \in Clerks : CustomerStep(r)

CustomerTypeOK ==
    /\ customer \in [CustomerIds -> Customer]
    /\ clerk \in [Clerks -> [pc : {"idle", "create", "check", "store"},
                             id : CustomerIds \cup {0}, copy : Customer, seen : Nat]]
    /\ version \in Nat /\ outdated \in Nat /\ names \in Nat

\* Unless a call wrote what it had decided before another call's write, no two
\* customers of a merchant have one email: the checks of the four operations
\* are enough by themselves, only their distance from the writes is not.
EmailsUnique ==
    outdated = 0 =>
        \A i, j \in Present : customer[i].email = customer[j].email => i = j
=============================================================================
