--------------------------- MODULE AccountsProofs ---------------------------
(***************************************************************************)
(* Customers, merchants, portal sessions and mails keep their promises for *)
(* any number of requests, rows and processes.  Each part has an invariant *)
(* of its own; the end of the module puts them together for Accounts.      *)
(***************************************************************************)
EXTENDS Accounts, FiniteSetTheorems, TLAPS

(* Customers.                                                              *)

Unique == \A i, j \in Present : customer[i].email = customer[j].email => i = j

\* What a request has checked is still true if nobody has written since.
ClerkInv(r) ==
    /\ clerk[r].seen <= version
    /\ clerk[r].pc # "idle" => clerk[r].copy.exists
    /\ clerk[r].pc = "create" /\ clerk[r].seen = version => Holders(clerk[r].copy.email) = {}
    /\ clerk[r].pc \in {"check", "store"} => clerk[r].id \in Present
    /\ clerk[r].pc = "store" /\ clerk[r].seen = version =>
         \/ clerk[r].copy.email = customer[clerk[r].id].email
         \/ Holders(clerk[r].copy.email) \subseteq {clerk[r].id}

CustomerInv ==
    /\ CustomerTypeOK
    /\ \A r \in Clerks : ClerkInv(r)
    /\ outdated = 0 => Unique
-----------------------------------------------------------------------------
LEMMA CustomerInitInv == CustomerInit => CustomerInv
  <1> SUFFICES ASSUME CustomerInit PROVE CustomerInv
    OBVIOUS
  <1>1. Present = {}
    BY DEF CustomerInit, Present, NoCustomer
  <1>2. CustomerTypeOK
    BY CustomerAssumption DEF CustomerInit, CustomerTypeOK, NoCustomer, IdleClerk, Customer
  <1>3. \A r \in Clerks : ClerkInv(r)
    BY DEF CustomerInit, ClerkInv, IdleClerk
  <1> QED
    BY <1>1, <1>2, <1>3 DEF CustomerInv, Unique
-----------------------------------------------------------------------------
\* A step of request r that writes no row: only its own record matters.
LEMMA NoWrite ==
  ASSUME CustomerInv, NEW r \in Clerks, NEW c, clerk' = [clerk EXCEPT ![r] = c],
         UNCHANGED <<customer, version, outdated>>, names' \in Nat,
         c \in [pc : {"idle", "create", "check", "store"},
                id : CustomerIds \cup {0}, copy : Customer, seen : Nat],
         ClerkInv(r)'
  PROVE  CustomerInv'
  <1>1. CustomerTypeOK'
    BY DEF CustomerInv, CustomerTypeOK
  <1>2. ASSUME NEW q \in Clerks \ {r} PROVE ClerkInv(q)'
    <2>1. clerk'[q] = clerk[q]
      BY DEF CustomerInv, CustomerTypeOK
    <2> QED
      BY <2>1 DEF CustomerInv, ClerkInv, Holders, Present
  <1>3. Unique' <=> Unique
    BY DEF Unique, Present
  <1> QED
    BY <1>1, <1>2, <1>3 DEF CustomerInv

LEMMA CreateCheckStep ==
  ASSUME CustomerInv, NEW r \in Clerks, CreateCheck(r)
  PROVE  CustomerInv'
  <1>1. PICK e \in Emails : /\ Holders(e) = {}
                            /\ Decide(r, "create", 0, [exists |-> TRUE, email |-> e, name |-> 0])
    BY DEF CreateCheck
  <1> DEFINE c == [pc |-> "create", id |-> 0,
                   copy |-> [exists |-> TRUE, email |-> e, name |-> 0], seen |-> version]
  <1>2. clerk' = [clerk EXCEPT ![r] = c] /\ UNCHANGED <<customer, version, outdated, names>>
    BY <1>1 DEF CreateCheck, Decide
  <1>3. c \in [pc : {"idle", "create", "check", "store"},
               id : CustomerIds \cup {0}, copy : Customer, seen : Nat]
    BY DEF Customer, CustomerInv, CustomerTypeOK
  <1>4. clerk'[r] = c
    BY <1>2 DEF CustomerInv, CustomerTypeOK
  <1>5. ClerkInv(r)'
    BY <1>1, <1>2, <1>4 DEF ClerkInv, Holders, Present, CustomerInv, CustomerTypeOK
  <1> QED
    BY <1>2, <1>3, <1>5, NoWrite DEF CustomerInv, CustomerTypeOK

LEMMA UpdateReadStep ==
  ASSUME CustomerInv, NEW r \in Clerks, UpdateRead(r)
  PROVE  CustomerInv'
  <1>1. PICK i \in Present, e \in Emails :
           Decide(r, IF e = customer[i].email THEN "store" ELSE "check", i,
                  [customer[i] EXCEPT !.email = e, !.name = names + 1])
    BY DEF UpdateRead
  <1> DEFINE row == [customer[i] EXCEPT !.email = e, !.name = names + 1]
             c == [pc |-> IF e = customer[i].email THEN "store" ELSE "check", id |-> i,
                   copy |-> row, seen |-> version]
  <1>2. clerk' = [clerk EXCEPT ![r] = c] /\ UNCHANGED <<customer, version, outdated>>
        /\ names' = names + 1
    BY <1>1 DEF UpdateRead, Decide
  <1>3. i \in CustomerIds /\ customer[i].exists /\ customer[i] \in Customer
    BY DEF Present, CustomerInv, CustomerTypeOK
  <1>4. row \in Customer /\ row.exists /\ row.email = e
    <2> DEFINE mid == [customer[i] EXCEPT !.email = e]
    <2>1. mid \in Customer /\ mid.exists /\ mid.email = e
      BY <1>3 DEF Customer
    <2>2. row = [mid EXCEPT !.name = names + 1]
      OBVIOUS
    <2> HIDE DEF mid, row
    <2> QED
      BY <2>1, <2>2 DEF Customer, CustomerInv, CustomerTypeOK
  <1>5. c \in [pc : {"idle", "create", "check", "store"},
               id : CustomerIds \cup {0}, copy : Customer, seen : Nat]
    BY <1>3, <1>4 DEF CustomerInv, CustomerTypeOK
  <1>6. clerk'[r] = c
    BY <1>2 DEF CustomerInv, CustomerTypeOK
  <1> HIDE DEF row
  <1>7. ClerkInv(r)'
    BY <1>2, <1>3, <1>4, <1>6 DEF ClerkInv, Present, CustomerInv, CustomerTypeOK
  <1>8. names' \in Nat
    BY <1>2 DEF CustomerInv, CustomerTypeOK
  <1> HIDE DEF c
  <1> QED
    BY <1>2, <1>5, <1>7, <1>8, NoWrite

LEMMA ProfileReadStep ==
  ASSUME CustomerInv, NEW r \in Clerks, ProfileRead(r)
  PROVE  CustomerInv'
  <1>1. PICK i \in Present : Decide(r, "store", i, [customer[i] EXCEPT !.name = names + 1])
    BY DEF ProfileRead
  <1> DEFINE row == [customer[i] EXCEPT !.name = names + 1]
             c == [pc |-> "store", id |-> i, copy |-> row, seen |-> version]
  <1>2. clerk' = [clerk EXCEPT ![r] = c] /\ UNCHANGED <<customer, version, outdated>>
        /\ names' = names + 1
    BY <1>1 DEF ProfileRead, Decide
  <1>3. i \in CustomerIds /\ customer[i].exists /\ customer[i] \in Customer
    BY DEF Present, CustomerInv, CustomerTypeOK
  <1>4. row \in Customer /\ row.exists /\ row.email = customer[i].email
    BY <1>3 DEF Customer, CustomerInv, CustomerTypeOK
  <1>5. c \in [pc : {"idle", "create", "check", "store"},
               id : CustomerIds \cup {0}, copy : Customer, seen : Nat]
    BY <1>3, <1>4 DEF CustomerInv, CustomerTypeOK
  <1>6. clerk'[r] = c
    BY <1>2 DEF CustomerInv, CustomerTypeOK
  <1> HIDE DEF row
  <1>7. ClerkInv(r)'
    BY <1>2, <1>3, <1>4, <1>6 DEF ClerkInv, Present, CustomerInv, CustomerTypeOK
  <1>8. names' \in Nat
    BY <1>2 DEF CustomerInv, CustomerTypeOK
  <1> HIDE DEF c
  <1> QED
    BY <1>2, <1>5, <1>7, <1>8, NoWrite

\* The look-up for another customer with the new email.
LEMMA UpdateCheckStep ==
  ASSUME CustomerInv, NEW r \in Clerks, UpdateCheck(r)
  PROVE  CustomerInv'
  <1> DEFINE k == clerk[r]
             c == IF Holders(k.copy.email) \subseteq {k.id}
                  THEN [k EXCEPT !.pc = "store"] ELSE IdleClerk
  <1>1. clerk' = [clerk EXCEPT ![r] = c] /\ UNCHANGED <<customer, version, outdated, names>>
        /\ k.pc = "check"
    BY DEF UpdateCheck
  <1>2. k \in [pc : {"idle", "create", "check", "store"},
               id : CustomerIds \cup {0}, copy : Customer, seen : Nat]
    BY DEF CustomerInv, CustomerTypeOK
  <1>3. IdleClerk \in [pc : {"idle", "create", "check", "store"},
                       id : CustomerIds \cup {0}, copy : Customer, seen : Nat]
    BY CustomerAssumption DEF IdleClerk, NoCustomer, Customer
  <1>4. c \in [pc : {"idle", "create", "check", "store"},
               id : CustomerIds \cup {0}, copy : Customer, seen : Nat]
    BY <1>2, <1>3
  <1>5. clerk'[r] = c
    BY <1>1 DEF CustomerInv, CustomerTypeOK
  <1>6. ClerkInv(r)
    BY DEF CustomerInv
  <1>7. CASE Holders(k.copy.email) \subseteq {k.id}
    <2>1. /\ c.pc = "store" /\ c.id = k.id /\ c.copy = k.copy /\ c.seen = k.seen
      BY <1>2, <1>7
    <2>2. ClerkInv(r)'
      BY <1>1, <1>5, <1>6, <1>7, <2>1 DEF ClerkInv, Holders, Present
    <2> QED
      BY <1>1, <1>4, <2>2, NoWrite DEF CustomerInv, CustomerTypeOK
  <1>8. CASE ~ (Holders(k.copy.email) \subseteq {k.id})
    <2>1. c = IdleClerk
      BY <1>8
    <2>2. ClerkInv(r)'
      BY <1>1, <1>5, <2>1 DEF ClerkInv, IdleClerk, CustomerInv, CustomerTypeOK
    <2> QED
      BY <1>1, <1>4, <2>2, NoWrite DEF CustomerInv, CustomerTypeOK
  <1> QED
    BY <1>7, <1>8

LEMMA ClerkFailsStep ==
  ASSUME CustomerInv, NEW r \in Clerks, ClerkFails(r)
  PROVE  CustomerInv'
  <1>1. IdleClerk \in [pc : {"idle", "create", "check", "store"},
                       id : CustomerIds \cup {0}, copy : Customer, seen : Nat]
    BY CustomerAssumption DEF IdleClerk, NoCustomer, Customer
  <1>2. clerk'[r] = IdleClerk
    BY DEF ClerkFails, CustomerInv, CustomerTypeOK
  <1>3. ClerkInv(r)'
    BY <1>2 DEF ClerkFails, ClerkInv, IdleClerk, CustomerInv, CustomerTypeOK
  <1> QED
    BY <1>1, <1>3, NoWrite DEF ClerkFails, CustomerInv, CustomerTypeOK
-----------------------------------------------------------------------------
\* A write of a row that exists, after which every other request is behind.
LEMMA PutTypes ==
  ASSUME CustomerInv, NEW r \in Clerks, NEW i \in CustomerIds, Put(r, i), UNCHANGED names,
         clerk[r].copy.exists
  PROVE  /\ CustomerTypeOK'
         /\ \A q \in Clerks : ClerkInv(q)'
         /\ outdated' = 0 => outdated = 0 /\ clerk[r].seen = version
         /\ Present' = Present \cup {i}
         /\ customer'[i] = clerk[r].copy
         /\ \A j \in CustomerIds \ {i} : customer'[j] = customer[j]
  <1> USE DEF Put
  <1>1. clerk[r].copy \in Customer /\ version \in Nat /\ outdated \in Nat
    BY DEF CustomerInv, CustomerTypeOK
  <1>2. customer'[i] = clerk[r].copy /\ \A j \in CustomerIds \ {i} : customer'[j] = customer[j]
    BY DEF CustomerInv, CustomerTypeOK
  <1>3. IdleClerk \in [pc : {"idle", "create", "check", "store"},
                       id : CustomerIds \cup {0}, copy : Customer, seen : Nat]
    BY CustomerAssumption DEF IdleClerk, NoCustomer, Customer
  <1>4. CustomerTypeOK'
    BY <1>1, <1>3 DEF CustomerInv, CustomerTypeOK
  <1>5. Present' = Present \cup {i}
    BY <1>2 DEF Present
  <1>6. ASSUME NEW q \in Clerks PROVE ClerkInv(q)'
    <2>1. CASE q = r
      BY <1>1, <2>1 DEF ClerkInv, IdleClerk, CustomerInv, CustomerTypeOK
    <2>2. CASE q # r
      <3>1. clerk'[q] = clerk[q] /\ clerk[q].seen \in Nat /\ ClerkInv(q)
        BY <2>2 DEF CustomerInv, CustomerTypeOK
      <3>2. clerk'[q].seen < version' /\ version' \in Nat
        BY <1>1, <3>1 DEF ClerkInv
      <3> QED
        BY <1>5, <3>1, <3>2 DEF ClerkInv
    <2> QED
      BY <2>1, <2>2
  <1>7. outdated' = 0 => outdated = 0 /\ clerk[r].seen = version
    BY <1>1
  <1> QED
    BY <1>2, <1>4, <1>5, <1>6, <1>7

LEMMA CreateStep ==
  ASSUME CustomerInv, NEW r \in Clerks, CreateCustomer(r)
  PROVE  CustomerInv'
  <1>1. PICK i \in CustomerIds \ Present : Put(r, i)
    BY DEF CreateCustomer
  <1>2. clerk[r].pc = "create" /\ UNCHANGED names /\ ClerkInv(r)
    BY DEF CreateCustomer, CustomerInv
  <1>3. clerk[r].copy.exists /\ clerk[r].copy \in Customer
    BY <1>2 DEF ClerkInv, CustomerInv, CustomerTypeOK
  <1>4. ASSUME outdated' = 0 PROVE Unique'
    <2>1. Unique /\ Holders(clerk[r].copy.email) = {}
      BY <1>1, <1>2, <1>3, <1>4, PutTypes DEF ClerkInv, CustomerInv
    <2>2. \A j \in Present : customer[j].email # clerk[r].copy.email
      BY <1>3, <2>1, CustomerAssumption DEF Holders, Customer
    <2>3. \A j \in Present : j # i /\ j \in CustomerIds /\ customer'[j] = customer[j]
      BY <1>1, <1>2, <1>3, PutTypes DEF Present
    <2> QED
      BY <1>1, <1>2, <1>3, <2>1, <2>2, <2>3, PutTypes DEF Unique
  <1> QED
    BY <1>1, <1>2, <1>3, <1>4, PutTypes DEF CustomerInv

LEMMA StoreStep ==
  ASSUME CustomerInv, NEW r \in Clerks, StoreCustomer(r)
  PROVE  CustomerInv'
  <1> DEFINE i == clerk[r].id
  <1>1. clerk[r].pc = "store" /\ Put(r, i) /\ UNCHANGED names /\ ClerkInv(r)
    BY DEF StoreCustomer, CustomerInv
  <1>2. clerk[r].copy.exists /\ clerk[r].copy \in Customer /\ i \in Present /\ i \in CustomerIds
    BY <1>1 DEF ClerkInv, CustomerInv, CustomerTypeOK, Present
  <1>3. ASSUME outdated' = 0 PROVE Unique'
    <2>1. /\ Unique
          /\ \/ clerk[r].copy.email = customer[i].email
             \/ Holders(clerk[r].copy.email) \subseteq {i}
      BY <1>1, <1>2, <1>3, PutTypes DEF ClerkInv, CustomerInv
    <2>2. \A j \in Present \ {i} : customer[j].email # clerk[r].copy.email
      BY <1>2, <2>1, CustomerAssumption DEF Holders, Customer, Unique
    <2>3. Present' = Present /\ customer'[i] = clerk[r].copy
          /\ \A j \in Present \ {i} : customer'[j] = customer[j]
      BY <1>1, <1>2, PutTypes DEF Present
    <2> HIDE DEF i
    <2> QED
      BY <2>1, <2>2, <2>3 DEF Unique
  <1> QED
    BY <1>1, <1>2, <1>3, PutTypes DEF CustomerInv

LEMMA CustomerStepInv == CustomerInv /\ [CustomerNext]_customerVars => CustomerInv'
  <1> SUFFICES ASSUME CustomerInv, [CustomerNext]_customerVars PROVE CustomerInv'
    OBVIOUS
  <1>1. CASE UNCHANGED customerVars
    BY <1>1 DEF customerVars, CustomerInv, CustomerTypeOK, ClerkInv, Unique, Present, Holders
  <1> QED
    BY <1>1, CreateCheckStep, CreateStep, UpdateReadStep, UpdateCheckStep, ProfileReadStep,
       StoreStep, ClerkFailsStep DEF CustomerNext, CustomerStep

-----------------------------------------------------------------------------
(* Merchants: what a call has read is what was last told, field by field,  *)
(* unless the field was told since or a late copy disturbed it.            *)

Agreed(t) ==
    /\ \A f \in Fields \ disturbed[t] : tenant[t][f] = told[t][f]
    /\ "key" \notin disturbed[t] /\ told[t]["key"] # OldValue => t \in hashed

\* What call c has read of a row that nobody told anything new since.
CallerInv(c) ==
    caller[c].op \in Edits =>
      LET t == caller[c].t IN
      /\ t \in Registered
      /\ caller[c].copy["password"] # 0
      /\ \A f \in Fields \ (caller[c].late \cup disturbed[t]) : caller[c].copy[f] = told[t][f]
      /\ "key" \notin caller[c].late \cup disturbed[t] /\ told[t]["key"] # OldValue
           => caller[c].hashed

\* Numbers of calls are new, and a secret that was not stored is nowhere.
CallNumbers ==
    /\ \A c \in Callers : caller[c].op # "idle" => caller[c].n \in (1 .. calls) \ void
    /\ \A c, d \in Callers : c # d /\ caller[c].op # "idle" /\ caller[d].op # "idle"
                               => caller[c].n # caller[d].n

SecretsNew ==
    /\ void \subseteq 1 .. calls
    /\ \A t \in TenantIds : tenant[t]["secret"] \in (0 .. calls) \ void
    /\ \A d \in Callers : caller[d].copy["secret"] \in (0 .. calls) \ void
    /\ \A c \in Callers : caller[c].op # "idle" =>
         /\ \A t \in TenantIds : tenant[t]["secret"] # caller[c].n
         /\ \A d \in Callers : caller[d].copy["secret"] # caller[c].n

SignUps ==
    /\ Registered # {} => Cardinality(Registered) + Cardinality(SigningUp) <= rivals
    /\ rivals \in Nat \ {0}

MerchantInv ==
    /\ MerchantTypeOK
    /\ calls <= MaxCalls
    /\ \A c \in Callers : CallerInv(c)
    /\ \A t \in Registered : Agreed(t)
    /\ CallNumbers /\ SecretsNew /\ SignUps

Caller == [op : Edits \cup {"idle", "register"}, t : TenantIds \cup {0}, n : 0 .. MaxCalls,
           copy : [Fields -> Values], hashed : BOOLEAN, late : SUBSET Fields]

LEMMA ValueFacts ==
  /\ OldValue \in Nat /\ OldValue # 0 /\ OldValue = MaxCalls + 1
  /\ 0 \in Values /\ OldValue \in Values /\ MaxCalls \in Nat
  /\ NoValues \in [Fields -> Values] /\ \A f \in Fields : NoValues[f] = 0
  /\ IdleCaller \in Caller /\ IdleCaller.op = "idle" /\ IdleCaller.t = 0
  /\ IdleCaller.copy = NoValues
  BY MerchantAssumption DEF OldValue, Values, NoValues, IdleCaller, Caller

LEMMA TenantsFinite ==
  /\ IsFiniteSet(Registered) /\ Cardinality(Registered) \in Nat
  /\ IsFiniteSet(SigningUp) /\ Cardinality(SigningUp) \in Nat
  <1>1. IsFiniteSet(TenantIds)
    BY MerchantAssumption, FS_Interval DEF TenantIds
  <1>2. Registered \subseteq TenantIds /\ SigningUp \subseteq Callers
    BY DEF Registered, SigningUp
  <1> QED
    BY <1>1, <1>2, MerchantAssumption, FS_Subset, FS_CardinalityType

LEMMA CallerSet == MerchantTypeOK => caller \in [Callers -> Caller]
  BY DEF MerchantTypeOK, Caller

LEMMA MerchantInitInv == MerchantInit => MerchantInv
  <1> SUFFICES ASSUME MerchantInit PROVE MerchantInv
    OBVIOUS
  <1>1. OldTenant \in [Fields -> Values] /\ OldTenant["password"] = OldValue
        /\ OldTenant["key"] = OldValue /\ OldTenant["secret"] = 0
    BY ValueFacts DEF OldTenant, Fields
  <1>2. tenant \in [TenantIds -> [Fields -> Values]]
    BY <1>1, ValueFacts DEF MerchantInit
  <1>3. Registered \subseteq {1} /\ \A t \in Registered : tenant[t] = OldTenant
    BY <1>1, ValueFacts DEF MerchantInit, Registered, Fields
  <1>4. \A t \in TenantIds : tenant[t]["secret"] = 0
    BY <1>1, ValueFacts DEF MerchantInit, Fields
  <1>5. \A c \in Callers : caller[c] = IdleCaller
    BY DEF MerchantInit
  <1>6. SignUps
    <2>1. Registered = {} \/ Registered = {1}
      BY <1>3
    <2>2. SigningUp = {}
      BY <1>5, ValueFacts DEF SigningUp
    <2>3. Cardinality({}) = 0 /\ Cardinality({1}) = 1
      BY FS_EmptySet, FS_Singleton
    <2> QED
      BY <2>1, <2>2, <2>3 DEF SignUps, MerchantInit
  <1>7. \A c \in Callers : CallerInv(c)
    BY <1>5, ValueFacts DEF CallerInv, Edits
  <1>8. CallNumbers
    BY <1>5, ValueFacts DEF CallNumbers
  <1>9. SecretsNew
    BY <1>4, <1>5, ValueFacts DEF SecretsNew, MerchantInit, Fields
  <1>10. \A t \in Registered : Agreed(t)
    BY <1>1, <1>3 DEF MerchantInit, Agreed
  <1>11. MerchantTypeOK
    BY <1>2, ValueFacts, CallerSet DEF MerchantInit, MerchantTypeOK, Caller
  <1> QED
    BY <1>6, <1>7, <1>8, <1>9, <1>10, <1>11, ValueFacts DEF MerchantInv, MerchantInit

\* The parts of MerchantInv the steps start from.
LEMMA MerchantTypes ==
  ASSUME MerchantInv
  PROVE  /\ caller \in [Callers -> Caller] /\ calls \in Nat /\ calls <= MaxCalls
         /\ tenant \in [TenantIds -> [Fields -> Values]]
         /\ told \in [TenantIds -> [Fields -> Values]]
         /\ disturbed \in [TenantIds -> SUBSET Fields]
         /\ hashed \subseteq Registered /\ void \subseteq Values
         /\ Registered \subseteq TenantIds
         /\ rivals \in Nat
  BY CallerSet DEF MerchantInv, MerchantTypeOK, Registered

\* A call starts: it is idle and becomes k, with the next number, a copy that
\* is new or a row's, and nothing told since.
LEMMA CallStarts ==
  ASSUME MerchantInv, NEW c \in Callers, NEW k \in Caller,
         caller' = [caller EXCEPT ![c] = k], calls' = calls + 1, calls < MaxCalls,
         k.op # "idle", k.n = calls + 1,
         k.copy = NoValues \/ \E t \in TenantIds : k.copy = tenant[t],
         UNCHANGED <<tenant, hashed, told, void, disturbed, rivals>>,
         CallerInv(c)',
         SignUps'
  PROVE  MerchantInv'
  <1>1. /\ calls' \in Nat /\ calls' <= MaxCalls /\ calls + 1 \notin 0 .. calls
        /\ Registered' = Registered
    BY MerchantTypes, ValueFacts DEF Registered
  <1>2. MerchantTypeOK'
    BY <1>1, MerchantTypes DEF MerchantInv, MerchantTypeOK, Caller
  <1>3. ASSUME NEW d \in Callers \ {c} PROVE caller'[d] = caller[d] /\ CallerInv(d)'
    <2>1. caller'[d] = caller[d] /\ CallerInv(d)
      BY MerchantTypes DEF MerchantInv
    <2> QED
      BY <1>1, <2>1 DEF CallerInv
  <1>4. caller'[c] = k
    BY MerchantTypes
  <1>5. CallNumbers'
    <2>1. \A d \in Callers \ {c} : caller[d].op # "idle" => caller[d].n \in (1 .. calls) \ void
      BY DEF MerchantInv, CallNumbers
    <2>2. void \subseteq 1 .. calls
      BY DEF MerchantInv, SecretsNew
    <2>3. k.n \in (1 .. calls') \ void
      BY <1>1, <2>2, MerchantTypes
    <2> QED
      BY <1>1, <1>3, <1>4, <2>1, <2>3, MerchantTypes DEF MerchantInv, CallNumbers
  <1>6. SecretsNew'
    <2>1. void \subseteq 1 .. calls /\ void' = void /\ tenant' = tenant
      BY DEF MerchantInv, SecretsNew
    <2>2. \A t \in TenantIds : tenant[t]["secret"] \in (0 .. calls) \ void
      BY DEF MerchantInv, SecretsNew
    <2>3. k.copy["secret"] \in (0 .. calls) \ void
      BY <2>1, <2>2, ValueFacts, MerchantTypes DEF Fields
    <2>4. \A d \in Callers : caller'[d].copy["secret"] \in (0 .. calls) \ void
      BY <1>3, <1>4, <2>3 DEF MerchantInv, SecretsNew
    <2>5. \A d \in Callers \ {c} : caller[d].op # "idle" =>
            /\ \A t \in TenantIds : tenant[t]["secret"] # caller[d].n
            /\ \A e \in Callers : caller[e].copy["secret"] # caller[d].n
            /\ caller[d].n # 0
      BY DEF MerchantInv, SecretsNew, CallNumbers
    <2>6. \A d \in Callers \ {c} : caller[d].op # "idle" => k.copy["secret"] # caller[d].n
      BY <2>5, ValueFacts DEF Fields
    <2>7. \A d \in Callers : caller'[d].op # "idle" =>
            /\ \A t \in TenantIds : tenant[t]["secret"] # caller'[d].n
            /\ \A e \in Callers : caller'[e].copy["secret"] # caller'[d].n
      BY <1>1, <1>3, <1>4, <2>2, <2>4, <2>5, <2>6
    <2>8. void \subseteq 1 .. calls' /\ 0 .. calls \subseteq 0 .. calls'
      BY <1>1, <2>1, MerchantTypes
    <2> QED
      BY <2>1, <2>2, <2>4, <2>7, <2>8 DEF SecretsNew
  <1>7. \A t \in Registered : Agreed(t)'
    BY DEF MerchantInv, Agreed
  <1> QED
    BY <1>1, <1>2, <1>3, <1>5, <1>6, <1>7 DEF MerchantInv

LEMMA RegisterCheckStep ==
  ASSUME MerchantInv, NEW c \in Callers, RegisterCheck(c)
  PROVE  MerchantInv'
  <1> DEFINE k == NewRegistration
  <1>1. calls \in Nat /\ calls < MaxCalls /\ calls' = calls + 1
    BY MerchantTypes DEF RegisterCheck
  <1>2. k \in Caller /\ k.op = "register" /\ k.n = calls + 1 /\ k.copy = NoValues
    BY <1>1, ValueFacts DEF Caller, NewRegistration
  <1>3. /\ caller' = [caller EXCEPT ![c] = k]
        /\ UNCHANGED <<tenant, hashed, told, void, disturbed, rivals>>
    BY DEF RegisterCheck, answers
  <1> HIDE DEF k
  <1>4. caller'[c] = k
    BY <1>3, MerchantTypes
  <1>5. CallerInv(c)'
    BY <1>2, <1>4 DEF CallerInv, Edits
  <1>6. SignUps'
    BY <1>3 DEF RegisterCheck, MerchantInv, SignUps, Registered
  <1> QED
    BY <1>1, <1>2, <1>3, <1>5, <1>6, CallStarts

LEMMA ReadTenantStep ==
  ASSUME MerchantInv, NEW c \in Callers, ReadTenant(c)
  PROVE  MerchantInv'
  <1>1. PICK t \in Registered, op \in Edits :
          caller' = [caller EXCEPT ![c] =
              [op |-> op, t |-> t, n |-> calls + 1, copy |-> tenant[t],
               hashed |-> t \in hashed, late |-> {}]]
    BY DEF ReadTenant
  <1> DEFINE k == [op |-> op, t |-> t, n |-> calls + 1, copy |-> tenant[t],
                   hashed |-> t \in hashed, late |-> {}]
  <1>2. calls \in Nat /\ calls < MaxCalls /\ calls' = calls + 1 /\ caller[c].op = "idle"
    BY MerchantTypes DEF ReadTenant
  <1>3. t \in TenantIds /\ tenant[t]["password"] # 0 /\ tenant[t] \in [Fields -> Values]
    BY MerchantTypes DEF Registered
  <1>4. /\ k \in Caller /\ k.op = op /\ k.n = calls + 1 /\ k.t = t /\ k.copy = tenant[t]
        /\ k.hashed = (t \in hashed) /\ k.late = {}
    BY <1>2, <1>3, ValueFacts DEF Caller
  <1>5. caller' = [caller EXCEPT ![c] = k]
    BY <1>1
  <1> HIDE DEF k
  <1>6. caller'[c] = k
    BY <1>5, MerchantTypes
  <1>7. /\ UNCHANGED <<tenant, hashed, told, void, disturbed, rivals>>
        /\ Registered' = Registered
    BY DEF ReadTenant, answers, Registered
  <1>8. CallerInv(c)'
    <2>1. OldValue' = OldValue
      BY DEF OldValue
    <2>2. Agreed(t)
      BY DEF MerchantInv
    <2> QED
      BY <1>3, <1>4, <1>6, <1>7, <2>1, <2>2 DEF CallerInv, Agreed
  <1>9. SignUps'
    <2>1. SigningUp' = SigningUp
      BY <1>2, <1>4, <1>5, MerchantTypes DEF SigningUp, Edits
    <2> QED
      BY <1>7, <2>1 DEF MerchantInv, SignUps
  <1>10. k.op # "idle"
    BY <1>4 DEF Edits
  <1> QED
    BY <1>2, <1>3, <1>4, <1>5, <1>7, <1>8, <1>9, <1>10, CallStarts

LEMMA CallFailsStep ==
  ASSUME MerchantInv, NEW c \in Callers, CallFails(c)
  PROVE  MerchantInv'
  <1>1. /\ UNCHANGED <<tenant, hashed, told, void, disturbed, rivals, calls>>
        /\ caller' = [caller EXCEPT ![c] = IdleCaller]
        /\ caller'[c] = IdleCaller
        /\ \A d \in Callers \ {c} : caller'[d] = caller[d]
        /\ Registered' = Registered
    BY MerchantTypes DEF CallFails, answers, Registered
  <1>2. MerchantTypeOK'
    BY <1>1, ValueFacts, MerchantTypes DEF MerchantInv, MerchantTypeOK, Caller
  <1>3. \A d \in Callers : CallerInv(d)'
    BY <1>1, ValueFacts DEF MerchantInv, CallerInv, Edits
  <1>4. CallNumbers'
    BY <1>1, ValueFacts DEF MerchantInv, CallNumbers
  <1>5. SecretsNew'
    <2>1. 0 \in (0 .. calls) \ void
      BY MerchantTypes DEF MerchantInv, SecretsNew
    <2>2. NoValues["secret"] = 0 /\ \A d \in Callers : caller[d].op # "idle" => caller[d].n # 0
      BY ValueFacts DEF MerchantInv, CallNumbers, Fields
    <2> QED
      BY <1>1, <2>1, <2>2, ValueFacts DEF MerchantInv, SecretsNew
  <1>6. SignUps'
    <2>1. SigningUp' \subseteq SigningUp
      BY <1>1, ValueFacts DEF SigningUp
    <2>2. Cardinality(SigningUp') <= Cardinality(SigningUp) /\ Cardinality(SigningUp') \in Nat
      BY <2>1, TenantsFinite, FS_Subset, FS_CardinalityType
    <2> QED
      BY <1>1, <2>2, TenantsFinite DEF MerchantInv, SignUps
  <1>7. \A t \in Registered : Agreed(t)'
    BY <1>1 DEF MerchantInv, Agreed
  <1> QED
    BY <1>1, <1>2, <1>3, <1>4, <1>5, <1>6, <1>7 DEF MerchantInv

\* What an operation leaves in a row, field by field.
LEMMA EditedFields ==
  ASSUME NEW op \in Edits, NEW n \in Values \ {0}, NEW r \in [Fields -> Values]
  PROVE  /\ Edited(op, n, r) \in [Fields -> Values]
         /\ Edited(op, n, r)["key"] = IF op = "rotateKey" THEN n ELSE r["key"]
         /\ Edited(op, n, r)["password"] = IF op = "changePassword" THEN n ELSE r["password"]
         /\ Edited(op, n, r)["token"] = IF op = "login" THEN n
                                        ELSE IF op = "signOut" THEN 0 ELSE r["token"]
         /\ Edited(op, n, r)["profile"] = IF op \in {"setWebhookUrl", "updateSettings"} THEN n
                                          ELSE r["profile"]
         /\ Edited(op, n, r)["secret"] = IF op = "rotateSecret" \/ (op = "setWebhookUrl" /\ r["secret"] = 0)
                                         THEN n ELSE r["secret"]
  <1>1. CASE op = "login"
    BY <1>1 DEF Edited, Fields, Values
  <1>2. CASE op = "signOut"
    BY <1>2, ValueFacts DEF Edited, Fields
  <1>3. CASE op = "rotateKey"
    BY <1>3 DEF Edited, Fields
  <1>4. CASE op = "rotateSecret"
    BY <1>4 DEF Edited, Fields
  <1>5. CASE op = "changePassword"
    BY <1>5 DEF Edited, Fields
  <1>6. CASE op = "setWebhookUrl"
    BY <1>6 DEF Edited, Fields
  <1>7. CASE op = "updateSettings"
    BY <1>7 DEF Edited, Fields
  <1>8. CASE op = "backfill"
    BY <1>8 DEF Edited, Fields
  <1> QED
    BY <1>1, <1>2, <1>3, <1>4, <1>5, <1>6, <1>7, <1>8 DEF Edits

\* The fields a call tells are those it stores with its own value, or none for
\* a sign-out; the others keep what the call has read.
LEMMA ToldFields ==
  ASSUME NEW k \in Caller, k.op \in Edits, k.n \in Values \ {0}
  PROVE  /\ Tells(k) \subseteq Fields
         /\ \A f \in Tells(k) : Edited(k.op, k.n, k.copy)[f] = IF k.op = "signOut" THEN 0 ELSE k.n
         /\ \A f \in Fields \ Tells(k) : Edited(k.op, k.n, k.copy)[f] = k.copy[f]
         /\ "key" \in Tells(k) <=> k.op = "rotateKey"
         /\ "token" \in Tells(k) <=> k.op \in {"login", "signOut"}
         /\ k.op = "setWebhookUrl" /\ k.copy["secret"] # 0 => "secret" \notin Tells(k)
  <1>0. k.copy \in [Fields -> Values]
    BY DEF Caller
  <1>1. CASE k.op = "login"
    BY <1>0, <1>1, EditedFields DEF Tells, Fields
  <1>2. CASE k.op = "signOut"
    BY <1>0, <1>2, EditedFields DEF Tells, Fields
  <1>3. CASE k.op = "rotateKey"
    BY <1>0, <1>3, EditedFields DEF Tells, Fields
  <1>4. CASE k.op = "rotateSecret"
    BY <1>0, <1>4, EditedFields DEF Tells, Fields
  <1>5. CASE k.op = "changePassword"
    BY <1>0, <1>5, EditedFields DEF Tells, Fields
  <1>6. CASE k.op = "setWebhookUrl" /\ k.copy["secret"] = 0
    BY <1>0, <1>6, EditedFields DEF Tells, Fields
  <1>7. CASE k.op = "setWebhookUrl" /\ k.copy["secret"] # 0
    BY <1>0, <1>7, EditedFields DEF Tells, Fields
  <1>8. CASE k.op = "updateSettings"
    BY <1>0, <1>8, EditedFields DEF Tells, Fields
  <1>9. CASE k.op = "backfill"
    BY <1>0, <1>9, EditedFields DEF Tells, Fields
  <1> QED
    BY <1>1, <1>2, <1>3, <1>4, <1>5, <1>6, <1>7, <1>8, <1>9 DEF Edits

LEMMA RegisterStep ==
  ASSUME MerchantInv, NEW c \in Callers, Register(c)
  PROVE  MerchantInv'
  <1> DEFINE row == [NoValues EXCEPT !["key"] = caller[c].n, !["password"] = caller[c].n]
  <1>1. PICK t \in TenantIds \ Registered :
          /\ tenant' = [tenant EXCEPT ![t] = row]
          /\ told' = [told EXCEPT ![t] = row]
          /\ hashed' = hashed \cup {t}
    BY DEF Register
  <1>2. /\ UNCHANGED <<void, disturbed, calls>>
        /\ caller[c].op = "register"
        /\ caller' = [caller EXCEPT ![c] = IdleCaller]
        /\ rivals' = IF Registered = {} THEN Cardinality(SigningUp) ELSE rivals
        /\ caller'[c] = IdleCaller
        /\ \A d \in Callers \ {c} : caller'[d] = caller[d]
    BY MerchantTypes DEF Register
  <1>4. caller[c].n \in Values \ {0}
    BY <1>2, MerchantTypes, ValueFacts DEF MerchantInv, CallNumbers, Values
  <1>5. row \in [Fields -> Values] /\ row["password"] # 0 /\ row["secret"] = 0
    BY <1>4, ValueFacts DEF Fields
  <1> HIDE DEF row
  <1>6. Registered' = Registered \cup {t}
    BY <1>1, <1>5, MerchantTypes DEF Registered
  <1>7. caller' \in [Callers -> Caller]
    BY <1>2, MerchantTypes, ValueFacts
  <1>12. rivals' \in Nat
    BY <1>2, MerchantTypes, TenantsFinite
  <1>8. MerchantTypeOK'
    <2>1. tenant' \in [TenantIds -> [Fields -> Values]] /\ told' \in [TenantIds -> [Fields -> Values]]
      BY <1>1, <1>5, MerchantTypes
    <2>2. hashed' \subseteq Registered'
      BY <1>1, <1>6, MerchantTypes
    <2> QED
      BY <1>2, <1>7, <1>12, <2>1, <2>2, MerchantTypes DEF MerchantInv, MerchantTypeOK, Caller
  <1>9. ASSUME NEW d \in Callers PROVE CallerInv(d)'
    <2>1. CASE d = c
      BY <1>2, <2>1, ValueFacts DEF CallerInv, Edits
    <2>2. CASE d # c
      <3>1. caller'[d] = caller[d] /\ CallerInv(d)
        BY <1>2, <2>2 DEF MerchantInv
      <3>2. caller[d].op \in Edits =>
              caller[d].t \in TenantIds /\ told'[caller[d].t] = told[caller[d].t]
        BY <1>1, <3>1, MerchantTypes DEF CallerInv
      <3> QED
        BY <1>2, <1>6, <3>1, <3>2 DEF CallerInv
    <2> QED
      BY <2>1, <2>2
  <1>10. ASSUME NEW u \in Registered' PROVE Agreed(u)'
    <2>1. CASE u = t
      BY <1>1, <2>1, MerchantTypes DEF Agreed
    <2>2. CASE u # t
      <3>1. u \in Registered /\ tenant'[u] = tenant[u] /\ told'[u] = told[u] /\ u \in TenantIds
        BY <1>1, <1>6, <2>2, MerchantTypes
      <3> QED
        BY <1>1, <1>2, <3>1 DEF MerchantInv, Agreed
    <2> QED
      BY <2>1, <2>2
  <1>11. SignUps'
    <2>1. Cardinality(Registered') = Cardinality(Registered) + 1
      BY <1>1, <1>6, TenantsFinite, FS_AddElement
    <2>2. c \in SigningUp /\ SigningUp' = SigningUp \ {c}
      BY <1>2, ValueFacts DEF SigningUp
    <2>3. Cardinality(SigningUp') = Cardinality(SigningUp) - 1 /\ Cardinality(SigningUp) > 0
      <3>1. Cardinality(SigningUp') = Cardinality(SigningUp) - 1
        BY <2>2, TenantsFinite, FS_RemoveElement
      <3>2. Cardinality(SigningUp') \in Nat
        BY <2>2, TenantsFinite, FS_RemoveElement, FS_CardinalityType
      <3> QED
        BY <3>1, <3>2, TenantsFinite
    <2>4. CASE Registered = {}
      BY <1>2, <2>1, <2>3, <2>4, TenantsFinite, FS_EmptySet DEF SignUps
    <2>5. CASE Registered # {}
      BY <1>2, <2>1, <2>3, <2>5, TenantsFinite DEF SignUps, MerchantInv
    <2> QED
      BY <2>4, <2>5
  <1>13. CallNumbers'
    BY <1>2, ValueFacts DEF MerchantInv, CallNumbers
  <1>14. SecretsNew'
    <2>1. 0 \in (0 .. calls) \ void
      BY MerchantTypes DEF MerchantInv, SecretsNew
    <2>2. NoValues["secret"] = 0 /\ \A d \in Callers : caller[d].op # "idle" => caller[d].n # 0
      BY ValueFacts DEF MerchantInv, CallNumbers, Fields
    <2>3. \A u \in TenantIds : tenant'[u]["secret"] = IF u = t THEN 0 ELSE tenant[u]["secret"]
      BY <1>1, <1>5, MerchantTypes
    <2>4. \A u \in TenantIds : tenant'[u]["secret"] \in (0 .. calls) \ void
      BY <2>1, <2>3 DEF MerchantInv, SecretsNew
    <2>5. \A d \in Callers : caller'[d].copy["secret"] \in (0 .. calls) \ void
      BY <1>2, <2>1, <2>2, ValueFacts DEF MerchantInv, SecretsNew
    <2>6. \A d \in Callers : caller'[d].op # "idle" => caller'[d].n = caller[d].n /\ caller[d].op # "idle"
      BY <1>2, ValueFacts
    <2>7. \A d, e \in Callers : caller'[d].op # "idle" => caller'[e].copy["secret"] # caller'[d].n
      BY <1>2, <2>2, <2>6, ValueFacts DEF MerchantInv, SecretsNew
    <2>8. \A d \in Callers, u \in TenantIds : caller'[d].op # "idle" => tenant'[u]["secret"] # caller'[d].n
      BY <2>2, <2>3, <2>6 DEF MerchantInv, SecretsNew
    <2> QED
      BY <1>2, <2>4, <2>5, <2>7, <2>8 DEF MerchantInv, SecretsNew
  <1> QED
    BY <1>2, <1>8, <1>9, <1>10, <1>11, <1>13, <1>14 DEF MerchantInv

LEMMA StoreTenantStep ==
  ASSUME MerchantInv, NEW c \in Callers, StoreTenant(c)
  PROVE  MerchantInv'
  <1> DEFINE k == caller[c]
             t == k.t
             row == Edited(k.op, k.n, k.copy)
             value == IF k.op = "signOut" THEN 0 ELSE k.n
             news == Tells(k)
             new == [f \in Fields |-> IF f \in news THEN value ELSE told[t][f]]
             spoilt == (disturbed[t] \cup k.late) \ news
  <1>1. /\ k.op \in Edits
        /\ tenant' = [tenant EXCEPT ![t] = row]
        /\ hashed' = IF k.hashed \/ k.op \in {"rotateKey", "backfill"}
                     THEN hashed \cup {t} ELSE hashed \ {t}
        /\ told' = [told EXCEPT ![t] = new]
        /\ void' = IF k.op = "setWebhookUrl" /\ k.copy["secret"] # 0 THEN void \cup {k.n} ELSE void
        /\ disturbed' = [disturbed EXCEPT ![t] = spoilt]
        /\ caller' = [d \in Callers |->
                        IF d = c THEN IdleCaller
                        ELSE IF caller[d].t = t
                        THEN [caller[d] EXCEPT !.late = @ \cup news] ELSE caller[d]]
        /\ UNCHANGED <<rivals, calls>>
    BY DEF StoreTenant
  <1>2. /\ k \in Caller /\ t \in Registered /\ t \in TenantIds
        /\ k.copy["password"] # 0 /\ k.copy \in [Fields -> Values] /\ k.late \subseteq Fields
        /\ k.n \in (1 .. calls) \ void /\ CallerInv(c)
    BY <1>1, MerchantTypes DEF MerchantInv, CallerInv, CallNumbers, Caller, Edits
  <1>3. k.n \in Values \ {0} /\ k.n # OldValue
    BY <1>2, MerchantTypes, ValueFacts DEF Values
  <1>4. /\ news \subseteq Fields
        /\ \A f \in news : row[f] = value
        /\ \A f \in Fields \ news : row[f] = k.copy[f]
        /\ "key" \in news <=> k.op = "rotateKey"
        /\ "token" \in news <=> k.op \in {"login", "signOut"}
        /\ k.op = "setWebhookUrl" /\ k.copy["secret"] # 0 => "secret" \notin news
    BY <1>1, <1>2, <1>3, ToldFields
  <1>5. row \in [Fields -> Values] /\ row["password"] # 0
    BY <1>1, <1>2, <1>3, EditedFields
  <1>6. /\ new \in [Fields -> Values] /\ spoilt \subseteq Fields
        /\ \A f \in news : new[f] = value
        /\ \A f \in Fields \ news : new[f] = told[t][f]
    BY <1>2, <1>3, <1>4, MerchantTypes, ValueFacts
  <1>7. \A d \in Callers \ {c} :
          /\ caller'[d] \in Caller
          /\ caller'[d].op = caller[d].op /\ caller'[d].t = caller[d].t /\ caller'[d].n = caller[d].n
          /\ caller'[d].copy = caller[d].copy /\ caller'[d].hashed = caller[d].hashed
          /\ caller[d].t # t => caller'[d].late = caller[d].late
          /\ caller[d].t = t => caller'[d].late = caller[d].late \cup news
    <2> SUFFICES ASSUME NEW d \in Callers \ {c}
                 PROVE  /\ caller'[d] \in Caller
                        /\ caller'[d].op = caller[d].op /\ caller'[d].t = caller[d].t
                        /\ caller'[d].n = caller[d].n
                        /\ caller'[d].copy = caller[d].copy /\ caller'[d].hashed = caller[d].hashed
                        /\ caller[d].t # t => caller'[d].late = caller[d].late
                        /\ caller[d].t = t => caller'[d].late = caller[d].late \cup news
      OBVIOUS
    <2>1. caller[d] \in Caller
      BY MerchantTypes
    <2>2. caller'[d] = IF caller[d].t = t
                       THEN [caller[d] EXCEPT !.late = caller[d].late \cup news] ELSE caller[d]
      BY <1>1
    <2> HIDE DEF news
    <2> QED
      BY <1>4, <2>1, <2>2 DEF Caller
  <1>8. caller'[c] = IdleCaller /\ caller' \in [Callers -> Caller]
    BY <1>1, <1>7, ValueFacts
  <1>9. /\ tenant'[t] = row /\ told'[t] = new /\ disturbed'[t] = spoilt
        /\ \A u \in TenantIds \ {t} : /\ tenant'[u] = tenant[u] /\ told'[u] = told[u]
                                      /\ disturbed'[u] = disturbed[u]
                                      /\ u \in hashed' <=> u \in hashed
    BY <1>1, <1>2, MerchantTypes
  <1> HIDE DEF row, new, spoilt, news, value
  <1>10. Registered' = Registered
    BY <1>2, <1>5, <1>9, <1>1, MerchantTypes DEF Registered
  <1>11. MerchantTypeOK'
    <2>1. tenant' \in [TenantIds -> [Fields -> Values]] /\ told' \in [TenantIds -> [Fields -> Values]]
          /\ disturbed' \in [TenantIds -> SUBSET Fields]
      BY <1>1, <1>5, <1>6, MerchantTypes
    <2>2. hashed' \subseteq Registered /\ void' \subseteq Values
      BY <1>1, <1>2, <1>3, MerchantTypes
    <2> QED
      BY <1>1, <1>8, <1>10, <2>1, <2>2, MerchantTypes DEF MerchantTypeOK, Caller
  <1>12. ASSUME NEW d \in Callers PROVE CallerInv(d)'
    <2>1. CASE d = c
      BY <1>8, <2>1, ValueFacts DEF CallerInv, Edits
    <2>2. CASE d # c
      <3>1. CallerInv(d)
        BY DEF MerchantInv
      <3>2. CASE caller[d].t # t
        BY <1>7, <1>9, <1>10, <2>2, <3>1, <3>2, MerchantTypes DEF CallerInv
      <3>3. CASE caller[d].t = t /\ caller[d].op \in Edits
        <4>1. caller'[d].t = t /\ caller'[d].late = caller[d].late \cup news
          BY <1>7, <2>2, <3>3
        <4>2. \A f \in Fields \ (caller'[d].late \cup spoilt) :
                f \notin news /\ f \notin caller[d].late \cup disturbed[t]
          BY <4>1 DEF spoilt
        <4>3. \A f \in Fields \ (caller'[d].late \cup spoilt) : caller[d].copy[f] = new[f]
          BY <1>6, <3>1, <3>3, <4>2 DEF CallerInv
        <4>4. "key" \notin caller'[d].late \cup spoilt /\ new["key"] # OldValue => caller[d].hashed
          BY <1>6, <3>1, <3>3, <4>2 DEF CallerInv, Fields
        <4> QED
          BY <1>7, <1>9, <1>10, <2>2, <3>1, <3>3, <4>1, <4>3, <4>4 DEF CallerInv
      <3>4. CASE caller[d].op \notin Edits
        BY <1>7, <2>2, <3>4 DEF CallerInv
      <3> QED
        BY <3>2, <3>3, <3>4
    <2> QED
      BY <2>1, <2>2
  <1>13. ASSUME NEW u \in Registered PROVE Agreed(u)'
    <2>1. u \in TenantIds /\ Agreed(u)
      BY MerchantTypes DEF MerchantInv
    <2>2. CASE u # t
      BY <1>9, <2>1, <2>2 DEF Agreed
    <2>3. CASE u = t
      <3>1. ASSUME NEW f \in Fields \ spoilt PROVE row[f] = new[f]
        <4>1. CASE f \in news
          BY <1>4, <1>6, <4>1
        <4>2. CASE f \notin news
          <5>1. f \notin k.late \cup disturbed[t]
            BY <3>1, <4>2 DEF spoilt
          <5>2. k.copy[f] = told[t][f]
            BY <1>1, <1>2, <3>1, <5>1 DEF CallerInv
          <5> QED
            BY <1>4, <1>6, <3>1, <4>2, <5>2
        <4> QED
          BY <4>1, <4>2
      <3>2. ASSUME "key" \notin spoilt, new["key"] # OldValue PROVE t \in hashed'
        <4>1. CASE k.op = "rotateKey"
          BY <1>1, <4>1
        <4>2. CASE k.op # "rotateKey"
          <5>1. "key" \notin news
            BY <1>4, <4>2
          <5>2. "key" \notin k.late \cup disturbed[t] /\ told[t]["key"] # OldValue
            BY <1>6, <3>2, <5>1 DEF spoilt, Fields
          <5>3. k.hashed
            BY <1>1, <1>2, <5>2 DEF CallerInv
          <5> QED
            BY <1>1, <5>3
        <4> QED
          BY <4>1, <4>2
      <3>3. OldValue' = OldValue
        BY DEF OldValue
      <3> QED
        BY <1>9, <2>3, <3>1, <3>2, <3>3 DEF Agreed
    <2> QED
      BY <2>2, <2>3
  <1>14. CallNumbers'
    <2>1. \A d \in Callers : caller'[d].op # "idle" =>
            d # c /\ caller[d].op # "idle" /\ caller'[d].n = caller[d].n
      BY <1>7, <1>8, ValueFacts
    <2>2. \A d \in Callers : caller'[d].op # "idle" => caller[d].n # k.n
      BY <1>1, <2>1 DEF MerchantInv, CallNumbers, Edits
    <2>3. \A d \in Callers : caller'[d].op # "idle" => caller'[d].n \in (1 .. calls) \ void'
      BY <1>1, <2>1, <2>2 DEF MerchantInv, CallNumbers
    <2> QED
      BY <1>1, <2>1, <2>3 DEF MerchantInv, CallNumbers
  <1>15. SecretsNew'
    <2>1. void' \subseteq 1 .. calls
      BY <1>1, <1>2 DEF MerchantInv, SecretsNew
    <2>2. k.op # "idle"
      BY <1>1 DEF Edits
    <2>3. \A u \in TenantIds : tenant[u]["secret"] # k.n
      BY <2>2 DEF MerchantInv, SecretsNew
    <2>4. \A d \in Callers : caller[d].copy["secret"] # k.n
      BY <2>2 DEF MerchantInv, SecretsNew
    <2>5. row["secret"] = k.copy["secret"]
          \/ (row["secret"] = k.n /\ ~(k.op = "setWebhookUrl" /\ k.copy["secret"] # 0))
      BY <1>1, <1>2, <1>3, EditedFields DEF row
    <2>6. row["secret"] \in (0 .. calls) \ void'
      BY <1>1, <1>2, <2>4, <2>5 DEF MerchantInv, SecretsNew
    <2>7. \A u \in TenantIds : tenant'[u]["secret"] \in (0 .. calls) \ void'
      BY <1>1, <1>9, <2>3, <2>6 DEF MerchantInv, SecretsNew
    <2>8. 0 \in (0 .. calls) \ void'
      BY <2>1, MerchantTypes
    <2>9. \A d \in Callers : caller'[d].copy["secret"] \in (0 .. calls) \ void'
      <3>1. NoValues["secret"] = 0
        BY ValueFacts DEF Fields
      <3> QED
        BY <1>1, <1>7, <1>8, <2>4, <2>8, <3>1, ValueFacts DEF MerchantInv, SecretsNew
    <2>10. ASSUME NEW d \in Callers, caller'[d].op # "idle"
           PROVE  /\ \A u \in TenantIds : tenant'[u]["secret"] # caller'[d].n
                  /\ \A e \in Callers : caller'[e].copy["secret"] # caller'[d].n
      <3>1. d # c /\ caller[d].op # "idle" /\ caller'[d].n = caller[d].n
        BY <1>7, <1>8, <2>10, ValueFacts
      <3>2. caller[d].n # k.n /\ caller[d].n # 0
        BY <2>2, <3>1 DEF MerchantInv, CallNumbers
      <3>3. /\ \A u \in TenantIds : tenant[u]["secret"] # caller[d].n
            /\ \A e \in Callers : caller[e].copy["secret"] # caller[d].n
        BY <3>1 DEF MerchantInv, SecretsNew
      <3>4. row["secret"] # caller[d].n
        BY <2>5, <3>2, <3>3
      <3>5. \A u \in TenantIds : tenant'[u]["secret"] # caller'[d].n
        BY <1>9, <3>1, <3>3, <3>4
      <3>6. NoValues["secret"] = 0
        BY ValueFacts DEF Fields
      <3>7. \A e \in Callers : caller'[e].copy["secret"] # caller'[d].n
        BY <1>7, <1>8, <3>1, <3>2, <3>3, <3>6, ValueFacts
      <3> QED
        BY <3>5, <3>7
    <2> QED
      BY <1>1, <2>1, <2>7, <2>9, <2>10 DEF SecretsNew
  <1>16. SignUps'
    <2>1. SigningUp' = SigningUp
      BY <1>1, <1>7, <1>8, ValueFacts DEF SigningUp, Edits
    <2> QED
      BY <1>1, <1>10, <2>1 DEF MerchantInv, SignUps
  <1> QED
    BY <1>1, <1>10, <1>11, <1>12, <1>13, <1>14, <1>15, <1>16 DEF MerchantInv
-----------------------------------------------------------------------------
(* Sessions: a verification that stores what it read unchanged by others   *)
(* counts its try or ends the session's code.                              *)

Bit(b) == IF b THEN 1 ELSE 0

Granted == UNION {granted[s] : s \in Sessions}
Signing == {w \in Senders : trying[w].pc = "right"}

Try == [pc : {"idle", "wrong", "right"}, s : Sessions \cup {0}, copy : Session, seen : Nat]

\* The types of the sign-in, without those of the mails.
SessionTypes ==
    /\ now \in Nat
    /\ session \in [Sessions -> Session]
    /\ trying \in [Senders -> Try]
    /\ writes \in [Sessions -> Nat]
    /\ stale \in [Sessions -> Nat]
    /\ wrong \in [Sessions -> Nat]
    /\ granted \in [Sessions -> SUBSET Tokens]
    /\ verifies \in Nat

\* What request w has read may be tried, and is still so if the row was not
\* stored since.
TryInv(w) ==
    trying[w].pc # "idle" =>
        /\ trying[w].s \in Opened
        /\ trying[w].copy.exists /\ ~trying[w].copy.verified
        /\ trying[w].copy.failed < maxPortalCodeAttempts
        /\ trying[w].seen <= writes[trying[w].s]
        /\ trying[w].seen = writes[trying[w].s] => trying[w].copy = session[trying[w].s]

\* A store of an old copy forgets the wrong codes since, and a verification.
SessionInv(s) ==
    /\ ~session[s].exists => session[s] = NoSession
    /\ session[s].failed <= maxPortalCodeAttempts
    /\ wrong[s] <= maxPortalCodeAttempts * stale[s] + session[s].failed
    /\ Cardinality(granted[s]) <= stale[s] + Bit(session[s].verified)
    /\ stale[s] = 0 => \A t \in granted[s] : session[s].verified /\ session[s].token = t

PortalInv ==
    /\ SessionTypes
    /\ Cardinality(Granted) + Cardinality(Signing) <= verifies
    /\ verifies <= MaxVerifies
    /\ \A w \in Senders : TryInv(w)
    /\ \A s \in Sessions : SessionInv(s)

LEMMA SessionFacts ==
  /\ NoSession \in Session /\ ~NoSession.exists /\ NoSession.failed = 0 /\ ~NoSession.verified
  /\ NotTrying \in Try /\ NotTrying.pc = "idle"
  /\ maxPortalCodeAttempts = 5
  /\ Bit(TRUE) = 1 /\ Bit(FALSE) = 0
  BY DEF NoSession, Session, NotTrying, Try, maxPortalCodeAttempts, Bit, NoTime

\* Two sets that differ in one member at most.
LEMMA OneMember ==
  ASSUME NEW S, IsFiniteSet(S), NEW A \in SUBSET S, NEW B \in SUBSET S, NEW w \in S,
         \A v \in S \ {w} : v \in A <=> v \in B
  PROVE  /\ Cardinality(A) \in Nat /\ Cardinality(B) \in Nat
         /\ w \in A /\ w \in B => Cardinality(B) = Cardinality(A)
         /\ w \notin A /\ w \notin B => Cardinality(B) = Cardinality(A)
         /\ w \in A /\ w \notin B => Cardinality(B) = Cardinality(A) - 1
         /\ w \notin A /\ w \in B => Cardinality(B) = Cardinality(A) + 1
  <1>1. IsFiniteSet(A) /\ IsFiniteSet(B)
    BY FS_Subset
  <1>2. Cardinality(A) \in Nat /\ Cardinality(B) \in Nat
    BY <1>1, FS_CardinalityType
  <1>3. CASE w \in A /\ w \in B
    <2>1. A = B
      BY <1>3
    <2> QED
      BY <1>2, <1>3, <2>1
  <1>4. CASE w \notin A /\ w \notin B
    <2>1. A = B
      BY <1>4
    <2> QED
      BY <1>2, <1>4, <2>1
  <1>5. CASE w \in A /\ w \notin B
    <2>1. B = A \ {w}
      BY <1>5
    <2>2. Cardinality(A \ {w}) = Cardinality(A) - 1
      BY <1>1, <1>5, FS_RemoveElement
    <2> QED
      BY <1>2, <1>5, <2>1, <2>2
  <1>6. CASE w \notin A /\ w \in B
    <2>1. B = A \cup {w}
      BY <1>6
    <2>2. Cardinality(A \cup {w}) = Cardinality(A) + 1
      BY <1>1, <1>6, FS_AddElement
    <2> QED
      BY <1>2, <1>6, <2>1, <2>2
  <1> QED
    BY <1>3, <1>4, <1>5, <1>6

LEMMA GrantedFinite ==
  ASSUME SessionTypes
  PROVE  /\ IsFiniteSet(Granted) /\ Cardinality(Granted) \in Nat /\ Granted \subseteq Tokens
         /\ \A s \in Sessions : IsFiniteSet(granted[s]) /\ Cardinality(granted[s]) \in Nat
  <1>1. IsFiniteSet(Tokens)
    BY PortalAssumption, FS_Interval DEF Tokens
  <1>2. Granted \subseteq Tokens /\ \A s \in Sessions : granted[s] \subseteq Tokens
    BY DEF SessionTypes, Granted
  <1> QED
    BY <1>1, <1>2, FS_Subset, FS_CardinalityType

LEMMA PortalInitInv == PortalInit => PortalInv
  <1> SUFFICES ASSUME PortalInit PROVE PortalInv
    OBVIOUS
  <1>1. SessionTypes
    BY SessionFacts DEF PortalInit, SessionTypes, Try
  <1>2. Granted = {} /\ Signing = {} /\ \A s \in Sessions : granted[s] = {}
    BY SessionFacts DEF PortalInit, Granted, Signing
  <1>3. Cardinality({}) = 0
    BY FS_EmptySet
  <1>4. \A w \in Senders : TryInv(w)
    BY SessionFacts DEF PortalInit, TryInv
  <1>5. ASSUME NEW s \in Sessions PROVE SessionInv(s)
    <2>1. session[s] = NoSession /\ wrong[s] = 0 /\ stale[s] = 0 /\ granted[s] = {}
      BY DEF PortalInit
    <2>2. Cardinality(granted[s]) = 0 /\ Bit(session[s].verified) = 0
      BY <1>3, <2>1, SessionFacts DEF Bit
    <2> QED
      BY <2>1, <2>2, SessionFacts DEF SessionInv
  <1>6. Cardinality(Granted) + Cardinality(Signing) <= verifies /\ verifies <= MaxVerifies
    BY <1>2, <1>3, PortalAssumption DEF PortalInit
  <1> QED
    BY <1>1, <1>4, <1>5, <1>6 DEF PortalInv

\* Steps that leave the sessions and the requests as they are.
LEMMA ClockStep ==
  ASSUME PortalInv, now' \in Nat,
         UNCHANGED <<session, trying, writes, stale, wrong, granted, verifies>>
  PROVE  PortalInv'
  <1>1. SessionTypes'
    BY DEF PortalInv, SessionTypes
  <1>2. Granted' = Granted /\ Signing' = Signing
    BY DEF Granted, Signing
  <1>3. \A w \in Senders : TryInv(w)'
    BY DEF PortalInv, TryInv, Opened
  <1>4. \A s \in Sessions : SessionInv(s)'
    BY DEF PortalInv, SessionInv
  <1> QED
    BY <1>1, <1>2, <1>3, <1>4 DEF PortalInv

LEMMA InitiateSessionStep ==
  ASSUME PortalInv, NEW w \in Senders, InitiateSession(w)
  PROVE  PortalInv'
  <1> DEFINE until == now + CodeLife
             r == [NoSession EXCEPT !.exists = TRUE, !.codeUntil = until]
  <1>1. PICK s \in Sessions \ Opened : session' = [session EXCEPT ![s] = r]
    BY DEF InitiateSession
  <1>2. UNCHANGED <<now, trying, writes, stale, wrong, granted, verifies>>
    BY DEF InitiateSession, sessionHistory
  <1>3. until \in Nat
    BY PortalAssumption DEF PortalInv, SessionTypes
  <1> HIDE DEF until
  <1>4. r \in Session /\ r.exists /\ r.failed = 0 /\ ~r.verified
    BY <1>3 DEF NoSession, Session, NoTime
  <1> HIDE DEF r
  <1>5. session \in [Sessions -> Session] /\ SessionInv(s) /\ ~session[s].exists
    BY DEF PortalInv, SessionTypes, Opened, Session
  <1>6. session'[s] = r /\ \A o \in Sessions \ {s} : session'[o] = session[o]
    BY <1>1, <1>5
  <1>7. SessionTypes'
    BY <1>1, <1>2, <1>4, <1>5 DEF PortalInv, SessionTypes
  <1>8. Granted' = Granted /\ Signing' = Signing
    BY <1>2 DEF Granted, Signing
  <1>9. ASSUME NEW v \in Senders PROVE TryInv(v)'
    <2>1. TryInv(v) /\ (trying[v].pc # "idle" => trying[v].s # s /\ trying[v].s \in Sessions)
      BY DEF PortalInv, TryInv, Opened
    <2> QED
      BY <1>2, <1>6, <2>1 DEF TryInv, Opened
  <1>10. ASSUME NEW o \in Sessions PROVE SessionInv(o)'
    <2>1. CASE o = s
      <3>1. session[s] = NoSession
        BY <1>5 DEF SessionInv
      <3>2. r.failed = session[s].failed /\ r.verified = session[s].verified
        BY <1>4, <3>1, SessionFacts DEF Session
      <3> QED
        BY <1>2, <1>4, <1>5, <1>6, <2>1, <3>2 DEF SessionInv
    <2>2. CASE o # s
      <3>1. session'[o] = session[o] /\ SessionInv(o)
        BY <1>6, <2>2 DEF PortalInv
      <3> QED
        BY <1>2, <3>1 DEF SessionInv
    <2> QED
      BY <2>1, <2>2
  <1> QED
    BY <1>2, <1>7, <1>8, <1>9, <1>10 DEF PortalInv

\* What a request that has read a session knows of it.
LEMMA Trying ==
  ASSUME PortalInv, NEW w \in Senders, trying[w].pc # "idle"
  PROVE  /\ trying[w].s \in Sessions /\ trying[w].copy \in Session
         /\ trying[w].copy.exists /\ ~trying[w].copy.verified
         /\ trying[w].copy.failed \in Nat /\ trying[w].copy.failed <= 4
         /\ session[trying[w].s] \in Session /\ session[trying[w].s].failed \in Nat
         /\ wrong[trying[w].s] \in Nat /\ stale[trying[w].s] \in Nat
         /\ trying[w].seen = writes[trying[w].s] => trying[w].copy = session[trying[w].s]
         /\ SessionInv(trying[w].s)
  <1>1. TryInv(w) /\ trying[w] \in Try
    BY DEF PortalInv, SessionTypes
  <1>2. trying[w].s \in Sessions /\ trying[w].copy \in Session
    BY <1>1 DEF TryInv, Opened, Try
  <1> QED
    BY <1>1, <1>2, SessionFacts DEF TryInv, PortalInv, SessionTypes, Session

\* Request w stores row r over its session and ends.
LEMMA StoredSession ==
  ASSUME PortalInv, NEW w \in Senders, trying[w].pc # "idle",
         NEW s \in Sessions, s = trying[w].s,
         NEW r \in Session, r.exists, r.failed <= maxPortalCodeAttempts, StoreSession(w, r),
         UNCHANGED <<now, verifies>>,
         wrong' \in [Sessions -> Nat], granted' \in [Sessions -> SUBSET Tokens],
         \A o \in Sessions \ {s} : wrong'[o] = wrong[o] /\ granted'[o] = granted[o],
         Cardinality(Granted') + Cardinality(Signing') <= verifies,
         wrong'[s] <= maxPortalCodeAttempts * stale'[s] + r.failed,
         Cardinality(granted'[s]) <= stale'[s] + Bit(r.verified),
         stale'[s] = 0 => \A t \in granted'[s] : r.verified /\ r.token = t
  PROVE  PortalInv'
  <1> DEFINE more == writes[s] + 1
             gone == IF trying[w].seen = writes[s] THEN stale[s] ELSE stale[s] + 1
  <1>1. /\ session' = [session EXCEPT ![s] = r]
        /\ writes' = [writes EXCEPT ![s] = more]
        /\ stale' = [stale EXCEPT ![s] = gone]
        /\ trying' = [trying EXCEPT ![w] = NotTrying]
    BY DEF StoreSession
  <1>2. /\ session \in [Sessions -> Session] /\ trying \in [Senders -> Try]
        /\ writes \in [Sessions -> Nat] /\ stale \in [Sessions -> Nat]
        /\ now \in Nat /\ verifies \in Nat
    BY DEF PortalInv, SessionTypes
  <1>3. more \in Nat /\ gone \in Nat /\ more > writes[s] /\ writes[s] \in Nat
    BY <1>2
  <1> HIDE DEF more, gone
  <1>4. /\ session'[s] = r /\ writes'[s] = more
        /\ \A o \in Sessions \ {s} : /\ session'[o] = session[o] /\ writes'[o] = writes[o]
                                     /\ stale'[o] = stale[o]
    BY <1>1, <1>2
  <1>5. SessionTypes'
    BY <1>1, <1>2, <1>3, SessionFacts DEF SessionTypes
  <1>6. ASSUME NEW v \in Senders PROVE TryInv(v)'
    <2>1. CASE v = w
      BY <1>1, <1>2, <2>1, SessionFacts DEF TryInv
    <2>2. CASE v # w
      <3>1. trying'[v] = trying[v] /\ TryInv(v)
        BY <1>1, <1>2, <2>2 DEF PortalInv
      <3>2. \A o \in Opened : o \in Sessions /\ o \in Opened'
        BY <1>4 DEF Opened
      <3>3. CASE trying[v].pc # "idle" /\ trying[v].s = s
        <4>1. trying[v].seen < more /\ trying[v].seen \in Nat
          BY <1>2, <1>3, <3>1, <3>3 DEF TryInv, Try
        <4>2. trying[v].seen <= more /\ trying[v].seen # more
          BY <1>3, <4>1
        <4> QED
          BY <1>4, <3>1, <3>2, <3>3, <4>2 DEF TryInv
      <3>4. CASE trying[v].pc # "idle" /\ trying[v].s # s
        <4>1. trying[v].s \in Sessions \ {s}
          BY <3>1, <3>2, <3>4 DEF TryInv
        <4> QED
          BY <1>4, <3>1, <3>2, <4>1 DEF TryInv
      <3> QED
        BY <3>1, <3>3, <3>4 DEF TryInv
    <2> QED
      BY <2>1, <2>2
  <1>7. ASSUME NEW o \in Sessions PROVE SessionInv(o)'
    <2>1. CASE o = s
      BY <1>4, <2>1 DEF SessionInv
    <2>2. CASE o # s
      <3>1. /\ session'[o] = session[o] /\ stale'[o] = stale[o] /\ wrong'[o] = wrong[o]
            /\ granted'[o] = granted[o] /\ SessionInv(o)
        BY <1>4, <2>2 DEF PortalInv
      <3> QED
        BY <3>1 DEF SessionInv
    <2> QED
      BY <2>1, <2>2
  <1> QED
    BY <1>5, <1>6, <1>7 DEF PortalInv

\* How many codes are right and not answered yet, when request w moves.
LEMMA SigningMoves ==
  ASSUME PortalInv, NEW w \in Senders, NEW k \in Try, trying' = [trying EXCEPT ![w] = k]
  PROVE  /\ Cardinality(Signing) \in Nat /\ Cardinality(Signing') \in Nat
         /\ Cardinality(Signing') <= Cardinality(Signing) + 1
         /\ k.pc # "right" => Cardinality(Signing') <= Cardinality(Signing)
         /\ k.pc # "right" /\ trying[w].pc = "right" =>
              Cardinality(Signing') = Cardinality(Signing) - 1
  <1>1. trying \in [Senders -> Try] /\ IsFiniteSet(Senders)
    BY EmailAssumption DEF PortalInv, SessionTypes
  <1>2. Signing \in SUBSET Senders /\ Signing' \in SUBSET Senders
    BY DEF Signing
  <1>3. \A v \in Senders \ {w} : v \in Signing <=> v \in Signing'
    BY <1>1 DEF Signing
  <1>4. (w \in Signing' <=> k.pc = "right") /\ (w \in Signing <=> trying[w].pc = "right")
    BY <1>1 DEF Signing
  <1>5. Cardinality(Signing) \in Nat /\ Cardinality(Signing') \in Nat
    BY <1>1, <1>2, <1>3, OneMember
  <1>6. /\ w \in Signing /\ w \in Signing' => Cardinality(Signing') = Cardinality(Signing)
        /\ w \notin Signing /\ w \notin Signing' => Cardinality(Signing') = Cardinality(Signing)
        /\ w \in Signing /\ w \notin Signing' => Cardinality(Signing') = Cardinality(Signing) - 1
        /\ w \notin Signing /\ w \in Signing' => Cardinality(Signing') = Cardinality(Signing) + 1
    BY <1>1, <1>2, <1>3, OneMember
  <1> QED
    BY <1>4, <1>5, <1>6

LEMMA TryCodeStep ==
  ASSUME PortalInv, NEW w \in Senders, TryCode(w)
  PROVE  PortalInv'
  <1>1. PICK s \in Opened, pc \in {"right", "wrong"} :
          /\ Usable(session[s])
          /\ trying' = [trying EXCEPT ![w] = [pc |-> pc, s |-> s, copy |-> session[s],
                                              seen |-> writes[s]]]
    BY DEF TryCode
  <1> DEFINE k == [pc |-> pc, s |-> s, copy |-> session[s], seen |-> writes[s]]
  <1>2. /\ s \in Sessions /\ session[s] \in Session /\ session[s].exists /\ writes[s] \in Nat
        /\ session \in [Sessions -> Session] /\ trying \in [Senders -> Try]
    BY DEF Opened, PortalInv, SessionTypes
  <1>3. /\ k \in Try /\ k.pc = pc /\ k.pc # "idle" /\ k.s = s /\ k.copy = session[s]
        /\ k.seen = writes[s]
    BY <1>2 DEF Try
  <1>4. trying' = [trying EXCEPT ![w] = k]
    BY <1>1
  <1> HIDE DEF k
  <1>5. UNCHANGED <<now, session, writes, stale, wrong, granted>>
    BY DEF TryCode, sessionHistory
  <1> DEFINE n == Cardinality(Granted)
             x == Cardinality(Signing)
             y == Cardinality(Signing')
             v == verifies
             vNext == verifies'
  <1>6. /\ v \in Nat /\ vNext = v + 1 /\ v < MaxVerifies /\ n + x <= v
        /\ n \in Nat
    BY GrantedFinite DEF TryCode, PortalInv, SessionTypes
  <1>7. x \in Nat /\ y \in Nat /\ y <= x + 1
    BY <1>3, <1>4, SigningMoves
  <1>8. Granted' = Granted
    BY <1>5 DEF Granted
  <1>9. MaxVerifies \in Nat
    BY PortalAssumption
  <1> HIDE DEF n, x, y, v, vNext
  <1>10. n + y <= vNext /\ vNext <= MaxVerifies /\ vNext \in Nat
    BY <1>6, <1>7, <1>9
  <1>11. Cardinality(Granted') + Cardinality(Signing') <= verifies' /\ verifies' <= MaxVerifies
         /\ verifies' \in Nat
    BY <1>8, <1>10 DEF n, y, vNext
  <1>12. SessionTypes'
    BY <1>2, <1>3, <1>4, <1>5, <1>11 DEF PortalInv, SessionTypes
  <1>13. ASSUME NEW u \in Senders PROVE TryInv(u)'
    <2>1. CASE u = w
      BY <1>1, <1>2, <1>3, <1>4, <1>5, <2>1, SessionFacts DEF TryInv, Usable, Opened
    <2>2. CASE u # w
      <3>1. trying'[u] = trying[u] /\ TryInv(u)
        BY <1>2, <1>4, <2>2 DEF PortalInv
      <3> QED
        BY <1>5, <3>1 DEF TryInv, Opened
    <2> QED
      BY <2>1, <2>2
  <1>14. \A o \in Sessions : SessionInv(o)'
    BY <1>5 DEF PortalInv, SessionInv
  <1> QED
    BY <1>11, <1>12, <1>13, <1>14 DEF PortalInv

LEMMA VerifyFailsStep ==
  ASSUME PortalInv, NEW w \in Senders, VerifyFails(w)
  PROVE  PortalInv'
  <1>1. /\ trying' = [trying EXCEPT ![w] = NotTrying]
        /\ UNCHANGED <<now, session, writes, stale, wrong, granted, verifies>>
    BY DEF VerifyFails, sessionHistory
  <1>2. trying \in [Senders -> Try]
    BY DEF PortalInv, SessionTypes
  <1>3. /\ Cardinality(Signing) \in Nat /\ Cardinality(Signing') \in Nat
        /\ Cardinality(Signing') <= Cardinality(Signing)
    BY <1>1, SessionFacts, SigningMoves
  <1>4. Granted' = Granted
    BY <1>1 DEF Granted
  <1> DEFINE n == Cardinality(Granted)
             x == Cardinality(Signing)
             y == Cardinality(Signing')
             v == verifies
  <1>5. n \in Nat /\ x \in Nat /\ y \in Nat /\ y <= x /\ n + x <= v /\ v \in Nat
    BY <1>3, GrantedFinite DEF PortalInv, SessionTypes
  <1> HIDE DEF n, x, y, v
  <1>6. n + y <= v
    BY <1>5
  <1>7. Cardinality(Granted') + Cardinality(Signing') <= verifies'
    BY <1>1, <1>4, <1>6 DEF n, y, v
  <1>8. SessionTypes'
    BY <1>1, <1>2, SessionFacts DEF PortalInv, SessionTypes
  <1>9. ASSUME NEW u \in Senders PROVE TryInv(u)'
    <2>1. trying'[u] = IF u = w THEN NotTrying ELSE trying[u]
      BY <1>1, <1>2
    <2> QED
      BY <1>1, <2>1, SessionFacts DEF PortalInv, TryInv, Opened
  <1>10. \A o \in Sessions : SessionInv(o)'
    BY <1>1 DEF PortalInv, SessionInv
  <1> QED
    BY <1>1, <1>7, <1>8, <1>9, <1>10 DEF PortalInv

LEMMA WrongCodeStep ==
  ASSUME PortalInv, NEW w \in Senders, WrongCode(w)
  PROVE  PortalInv'
  <1> DEFINE s == trying[w].s
             r == CountedWrong(trying[w].copy)
             f == trying[w].copy.failed
  <1>1. /\ trying[w].pc = "wrong" /\ StoreSession(w, r)
        /\ wrong' = [wrong EXCEPT ![s] = wrong[s] + 1]
        /\ UNCHANGED <<now, granted, verifies>>
    BY DEF WrongCode
  <1>2. /\ s \in Sessions /\ trying[w].copy \in Session /\ trying[w].copy.exists
        /\ ~trying[w].copy.verified
        /\ f \in Nat /\ f <= 4 /\ SessionInv(s) /\ session[s].failed \in Nat
        /\ wrong[s] \in Nat /\ stale[s] \in Nat
        /\ trying[w].seen = writes[s] => trying[w].copy = session[s]
    BY <1>1, Trying
  <1> DEFINE until == IF f + 1 >= maxPortalCodeAttempts THEN now ELSE trying[w].copy.codeUntil
             f1 == f + 1
  <1>3. until \in Nat /\ f1 \in Nat /\ f1 <= 5
    BY <1>2 DEF PortalInv, SessionTypes, Session
  <1>4. r = [trying[w].copy EXCEPT !.failed = f1, !.codeUntil = until]
    BY DEF CountedWrong
  <1> HIDE DEF r, until
  <1>5. /\ r \in Session /\ r.exists /\ r.failed = f1 /\ ~r.verified
    BY <1>2, <1>3, <1>4 DEF Session
  <1>6. /\ trying \in [Senders -> Try] /\ stale \in [Sessions -> Nat]
        /\ wrong \in [Sessions -> Nat] /\ granted \in [Sessions -> SUBSET Tokens]
        /\ verifies \in Nat
    BY DEF PortalInv, SessionTypes
  <1>7. trying' = [trying EXCEPT ![w] = NotTrying]
    BY <1>1 DEF StoreSession
  <1>8. Granted' = Granted
    BY <1>1 DEF Granted
  <1>9. Cardinality(Granted') + Cardinality(Signing') <= verifies
    <2>1. /\ Cardinality(Signing) \in Nat /\ Cardinality(Signing') \in Nat
          /\ Cardinality(Signing') <= Cardinality(Signing)
      BY <1>7, SessionFacts, SigningMoves
    <2>2. Cardinality(Granted) + Cardinality(Signing) <= verifies /\ Cardinality(Granted) \in Nat
      BY GrantedFinite DEF PortalInv
    <2> DEFINE n == Cardinality(Granted)
               x == Cardinality(Signing)
               y == Cardinality(Signing')
    <2>3. n \in Nat /\ x \in Nat /\ y \in Nat /\ y <= x /\ n + x <= verifies
      BY <2>1, <2>2
    <2> HIDE DEF n, x, y
    <2>4. n + y <= verifies
      BY <1>6, <2>3
    <2> QED
      BY <1>8, <2>4 DEF n, y
  <1> DEFINE m == wrong[s] + 1
             g == IF trying[w].seen = writes[s] THEN stale[s] ELSE stale[s] + 1
  <1>10. m \in Nat /\ g \in Nat
    BY <1>2
  <1>11. m <= maxPortalCodeAttempts * g + f1
    BY <1>2, SessionFacts DEF SessionInv
  <1>12. Cardinality(granted[s]) <= g
    <2>1. Cardinality(granted[s]) \in Nat
      BY <1>2, GrantedFinite DEF PortalInv
    <2>2. CASE trying[w].seen = writes[s]
      BY <1>2, <2>1, <2>2 DEF SessionInv, Bit
    <2>3. CASE trying[w].seen # writes[s]
      BY <1>2, <2>1, <2>3 DEF SessionInv, Bit
    <2> QED
      BY <2>2, <2>3
  <1>13. g = 0 => granted[s] = {}
    BY <1>2 DEF SessionInv
  <1>14. stale' = [stale EXCEPT ![s] = g] /\ wrong' = [wrong EXCEPT ![s] = m]
    BY <1>1 DEF StoreSession
  <1> HIDE DEF m, g
  <1>15. stale'[s] = g /\ wrong'[s] = m /\ wrong' \in [Sessions -> Nat]
         /\ \A o \in Sessions \ {s} : wrong'[o] = wrong[o] /\ granted'[o] = granted[o]
    BY <1>1, <1>2, <1>6, <1>10, <1>14
  <1>16. /\ wrong'[s] <= maxPortalCodeAttempts * stale'[s] + r.failed
         /\ Cardinality(granted'[s]) <= stale'[s] + Bit(r.verified)
         /\ stale'[s] = 0 => \A t \in granted'[s] : r.verified /\ r.token = t
    <2>1. Cardinality(granted[s]) \in Nat
      BY <1>2, GrantedFinite DEF PortalInv
    <2>2. Bit(r.verified) = 0
      BY <1>5 DEF Bit
    <2> QED
      BY <1>1, <1>5, <1>10, <1>11, <1>12, <1>13, <1>15, <2>1, <2>2
  <1> HIDE DEF s, f1
  <1>17. granted' \in [Sessions -> SUBSET Tokens] /\ r.failed <= maxPortalCodeAttempts
         /\ trying[w].pc # "idle"
    BY <1>1, <1>3, <1>5, <1>6, SessionFacts
  <1> QED
    BY <1>1, <1>2, <1>5, <1>9, <1>15, <1>16, <1>17, StoredSession DEF s

LEMMA RightCodeStep ==
  ASSUME PortalInv, NEW w \in Senders, RightCode(w)
  PROVE  PortalInv'
  <1> DEFINE s == trying[w].s
             t == CHOOSE k \in Tokens : k = Cardinality(Granted) + 1
             until == now + TokenLife
             r == [trying[w].copy EXCEPT !.verified = TRUE, !.token = t, !.tokenUntil = until]
  <1>1. /\ trying[w].pc = "right" /\ StoreSession(w, r)
        /\ granted' = [granted EXCEPT ![s] = granted[s] \cup {t}]
        /\ UNCHANGED <<now, wrong, verifies>>
    BY DEF RightCode, Granted
  <1>2. /\ s \in Sessions /\ trying[w].copy \in Session /\ trying[w].copy.exists
        /\ ~trying[w].copy.verified
        /\ trying[w].copy.failed \in Nat /\ trying[w].copy.failed <= 4
        /\ SessionInv(s) /\ session[s].failed \in Nat
        /\ wrong[s] \in Nat /\ stale[s] \in Nat
        /\ trying[w].seen = writes[s] => trying[w].copy = session[s]
    BY <1>1, Trying
  <1>3. /\ trying \in [Senders -> Try] /\ stale \in [Sessions -> Nat]
        /\ wrong \in [Sessions -> Nat] /\ granted \in [Sessions -> SUBSET Tokens]
        /\ verifies \in Nat
    BY DEF PortalInv, SessionTypes
  <1>4. trying' = [trying EXCEPT ![w] = NotTrying]
    BY <1>1 DEF StoreSession
  <1> DEFINE n == Cardinality(Granted)
             x == Cardinality(Signing)
             y == Cardinality(Signing')
  <1>5. n \in Nat /\ x \in Nat /\ y \in Nat /\ y = x - 1 /\ n + x <= verifies
    BY <1>1, <1>4, SessionFacts, SigningMoves, GrantedFinite DEF PortalInv
  <1>6. verifies <= MaxVerifies /\ MaxVerifies \in Nat
    BY PortalAssumption DEF PortalInv
  <1>7. n + 1 \in Tokens /\ n + 1 + y <= verifies
    <2> HIDE DEF n, x, y
    <2> QED
      BY <1>3, <1>5, <1>6 DEF Tokens
  <1>8. t \in Tokens
    BY <1>7
  <1>9. until \in Nat
    BY PortalAssumption DEF PortalInv, SessionTypes
  <1> HIDE DEF t, until
  <1>10. /\ r \in Session /\ r.exists /\ r.failed = trying[w].copy.failed /\ r.verified
         /\ r.token = t
    BY <1>2, <1>8, <1>9 DEF Session
  <1> HIDE DEF r
  <1>11. granted' \in [Sessions -> SUBSET Tokens] /\ granted'[s] = granted[s] \cup {t}
         /\ \A o \in Sessions \ {s} : wrong'[o] = wrong[o] /\ granted'[o] = granted[o]
    BY <1>1, <1>2, <1>3, <1>8
  <1>12. Cardinality(Granted') + Cardinality(Signing') <= verifies
    <2>1. Granted' = Granted \cup {t}
      <3>1. \A z : z \in Granted' <=> z \in Granted \cup {t}
        BY <1>2, <1>11 DEF Granted
      <3> QED
        BY <3>1
    <2>2. IsFiniteSet(Granted)
      BY GrantedFinite DEF PortalInv
    <2>3. Cardinality(Granted') = IF t \in Granted THEN n ELSE n + 1
      BY <2>1, <2>2, FS_AddElement
    <2> DEFINE m == Cardinality(Granted')
    <2>4. m = n \/ m = n + 1
      BY <2>3
    <2> HIDE DEF m, n, x, y
    <2>5. m + y <= verifies
      BY <1>3, <1>5, <1>7, <2>4
    <2> QED
      BY <2>5 DEF m, y
  <1> HIDE DEF n, x, y
  <1> DEFINE g == IF trying[w].seen = writes[s] THEN stale[s] ELSE stale[s] + 1
             a == Cardinality(granted[s])
             b == Cardinality(granted'[s])
  <1>13. a \in Nat /\ b \in Nat /\ b <= a + 1
    <2>1. IsFiniteSet(granted[s]) /\ Cardinality(granted[s]) \in Nat
      BY <1>2, GrantedFinite DEF PortalInv
    <2>2. Cardinality(granted[s] \cup {t}) = IF t \in granted[s] THEN a ELSE a + 1
      BY <2>1, FS_AddElement
    <2> QED
      BY <1>11, <2>1, <2>2
  <1>14. /\ session[s].failed <= 5 /\ wrong[s] <= 5 * stale[s] + session[s].failed
         /\ a <= stale[s] + Bit(session[s].verified)
         /\ stale[s] = 0 => \A k \in granted[s] : session[s].verified /\ session[s].token = k
    BY <1>2, SessionFacts DEF SessionInv
  <1>15. g \in Nat /\ wrong[s] <= 5 * g + trying[w].copy.failed
    BY <1>2, <1>14
  <1>16. b <= g + 1
    <2> HIDE DEF a, b
    <2>1. CASE trying[w].seen = writes[s]
      BY <1>2, <1>13, <1>14, <2>1 DEF Bit
    <2>2. CASE trying[w].seen # writes[s]
      BY <1>2, <1>13, <1>14, <2>2 DEF Bit
    <2> QED
      BY <2>1, <2>2
  <1>17. g = 0 => granted[s] = {}
    BY <1>2, <1>14
  <1>18. stale' = [stale EXCEPT ![s] = g]
    BY <1>1 DEF StoreSession
  <1> HIDE DEF g
  <1>19. stale'[s] = g /\ wrong'[s] = wrong[s] /\ wrong' \in [Sessions -> Nat]
    BY <1>1, <1>2, <1>3, <1>18
  <1>20. Bit(r.verified) = 1
    BY <1>10 DEF Bit
  <1>21. /\ wrong'[s] <= maxPortalCodeAttempts * stale'[s] + r.failed
         /\ Cardinality(granted'[s]) <= stale'[s] + Bit(r.verified)
         /\ stale'[s] = 0 => \A k \in granted'[s] : r.verified /\ r.token = k
         /\ r.failed <= maxPortalCodeAttempts
    <2>1. wrong'[s] <= maxPortalCodeAttempts * stale'[s] + r.failed
      BY <1>10, <1>15, <1>19, SessionFacts
    <2>2. Cardinality(granted'[s]) <= stale'[s] + Bit(r.verified)
      BY <1>16, <1>19, <1>20
    <2>3. stale'[s] = 0 => \A k \in granted'[s] : r.verified /\ r.token = k
      BY <1>10, <1>11, <1>17, <1>19
    <2>4. r.failed <= maxPortalCodeAttempts
      BY <1>2, <1>10, SessionFacts
    <2> QED
      BY <2>1, <2>2, <2>3, <2>4
  <1> HIDE DEF s
  <1> QED
    BY <1>1, <1>2, <1>10, <1>11, <1>12, <1>19, <1>21, StoredSession DEF s

LEMMA SignInStep == ASSUME PortalInv, NEW w \in Senders, SignIn(w) PROVE PortalInv'
  BY TryCodeStep, WrongCodeStep, RightCodeStep, VerifyFailsStep DEF SignIn

LEMMA TickStep == ASSUME PortalInv, Tick PROVE PortalInv'
  <1>1. now' = now + 1 /\ now \in Nat
    BY DEF Tick, PortalInv, SessionTypes
  <1>2. now' \in Nat
    BY <1>1
  <1>3. UNCHANGED <<session, trying, writes, stale, wrong, granted, verifies>>
    BY DEF Tick, sessionHistory
  <1> QED
    BY <1>2, <1>3, ClockStep
-----------------------------------------------------------------------------
(* Mails: the types, and what follows from them for the rows in the hands  *)
(* of senders and handlers.                                                *)

SenderRecord == [pc : {"idle", "check", "create", "publish"}, key : Jobs \cup {NoJob}]
HandlerRecord == [pc : {"idle", "send", "save", "ack", "requeue"}, key : Jobs \cup {NoJob}, copy : Mail]

Exists(k) == mail[k].st # "none"

SenderInv(w) ==
    /\ sending[w].pc # "idle" => sending[w].key \in Jobs
    /\ sending[w].pc = "publish" => Exists(sending[w].key)

HandlerInv(c) ==
    /\ mh[c].pc # "idle" => mh[c].key \in Jobs /\ Exists(mh[c].key)
    /\ c \in unacked => mh[c].pc # "idle" /\ c \in consuming
    /\ mh[c].pc = "save" => mh[c].copy.st \in {"failed", "delivered"}
    /\ mh[c].pc # "idle" /\ mh[c].copy.st = "delivered" => sent[mh[c].key] > 0

RowInv(k) ==
    /\ ready[k] > 0 => Exists(k)
    /\ k \in asked => Exists(k)
    /\ mail[k].st = "delivered" => sent[k] > 0

MailInv ==
    /\ MailTypeOK
    /\ \A w \in Senders : SenderInv(w)
    /\ \A c \in Consumers : HandlerInv(c)
    /\ \A k \in Jobs : RowInv(k)

LEMMA MailFacts ==
  /\ NoMail \in Mail /\ NoMail.st = "none"
  /\ NotSending \in SenderRecord /\ NotSending.pc = "idle" /\ NotSending.key = NoJob
  /\ IdleMailer \in HandlerRecord /\ IdleMailer.pc = "idle" /\ IdleMailer.key = NoJob
  BY DEF NoMail, Mail, NotSending, SenderRecord, IdleMailer, HandlerRecord

LEMMA MailSets ==
  MailTypeOK <=> /\ ready \in [Jobs -> Nat] /\ unacked \subseteq Consumers
                 /\ consuming \subseteq Consumers /\ mail \in [Jobs -> Mail]
                 /\ sending \in [Senders -> SenderRecord] /\ mh \in [Consumers -> HandlerRecord]
                 /\ sent \in [Jobs -> Nat] /\ asked \subseteq Jobs /\ faults \in Nat
  BY DEF MailTypeOK, QueueTypeOK, SenderRecord, HandlerRecord

LEMMA MailInitInv == MailInit => MailInv
  <1> SUFFICES ASSUME MailInit PROVE MailInv
    OBVIOUS
  <1>1. MailTypeOK
    BY MailFacts, MailSets DEF MailInit, QueueInit
  <1>2. \A w \in Senders : SenderInv(w)
    BY MailFacts DEF MailInit, SenderInv
  <1>3. \A c \in Consumers : HandlerInv(c)
    BY MailFacts DEF MailInit, QueueInit, HandlerInv
  <1>4. \A k \in Jobs : RowInv(k)
    BY MailFacts DEF MailInit, QueueInit, RowInv
  <1> QED
    BY <1>1, <1>2, <1>3, <1>4 DEF MailInv

\* Sender w moves to j.
LEMMA SenderMoves ==
  ASSUME MailInv, NEW w \in Senders, NEW j \in SenderRecord, sending' = [sending EXCEPT ![w] = j],
         UNCHANGED <<unacked, consuming, mh, sent>>,
         ready' \in [Jobs -> Nat], mail' \in [Jobs -> Mail], asked' \subseteq Jobs, faults' \in Nat,
         \A k \in Jobs : Exists(k) => Exists(k)',
         \A k \in Jobs : mail'[k].st = "delivered" => mail[k].st = "delivered",
         \A k \in Jobs : ready'[k] > 0 \/ k \in asked' => Exists(k)',
         j.pc # "idle" => j.key \in Jobs,
         j.pc = "publish" => Exists(j.key)'
  PROVE  MailInv'
  <1>1. sending \in [Senders -> SenderRecord]
    BY MailSets DEF MailInv
  <1>2. sending' \in [Senders -> SenderRecord] /\ \A v \in Senders : sending'[v] = IF v = w THEN j ELSE sending[v]
    BY <1>1
  <1>3. MailTypeOK'
    <2>1. /\ unacked' \subseteq Consumers /\ consuming' \subseteq Consumers
          /\ mh' \in [Consumers -> HandlerRecord] /\ sent' \in [Jobs -> Nat]
      BY MailSets DEF MailInv
    <2> QED
      BY <1>2, <2>1 DEF MailTypeOK, QueueTypeOK, SenderRecord, HandlerRecord
  <1>4. ASSUME NEW v \in Senders PROVE SenderInv(v)'
    BY <1>2 DEF MailInv, SenderInv
  <1>5. ASSUME NEW c \in Consumers PROVE HandlerInv(c)'
    BY DEF MailInv, HandlerInv
  <1>6. ASSUME NEW k \in Jobs PROVE RowInv(k)'
    BY DEF MailInv, RowInv
  <1> QED
    BY <1>3, <1>4, <1>5, <1>6 DEF MailInv

\* Handler c moves to h.
LEMMA HandlerMoves ==
  ASSUME MailInv, NEW c \in Consumers, NEW h \in HandlerRecord, mh' = [mh EXCEPT ![c] = h],
         UNCHANGED <<sending, asked>>,
         ready' \in [Jobs -> Nat], unacked' \subseteq Consumers, consuming' \subseteq Consumers,
         mail' \in [Jobs -> Mail], sent' \in [Jobs -> Nat], faults' \in Nat,
         \A k \in Jobs : Exists(k) => Exists(k)',
         \A k \in Jobs : sent[k] > 0 => sent'[k] > 0,
         \A k \in Jobs : ready'[k] > 0 => Exists(k)',
         \A k \in Jobs : mail'[k].st = "delivered" => sent'[k] > 0,
         \A b \in Consumers \ {c} : (b \in unacked' => b \in unacked) /\ (b \in consuming => b \in consuming'),
         HandlerInv(c)'
  PROVE  MailInv'
  <1>1. mh \in [Consumers -> HandlerRecord] /\ sending \in [Senders -> SenderRecord] /\ asked \subseteq Jobs
    BY MailSets DEF MailInv
  <1>2. mh' \in [Consumers -> HandlerRecord] /\ \A b \in Consumers \ {c} : mh'[b] = mh[b]
    BY <1>1
  <1>3. MailTypeOK'
    BY <1>1, <1>2 DEF MailTypeOK, QueueTypeOK, SenderRecord, HandlerRecord
  <1>4. ASSUME NEW v \in Senders PROVE SenderInv(v)'
    BY DEF MailInv, SenderInv
  <1>5. ASSUME NEW b \in Consumers PROVE HandlerInv(b)'
    <2>1. CASE b = c
      BY <2>1
    <2>2. CASE b # c
      <3>1. mh'[b] = mh[b] /\ HandlerInv(b)
        BY <1>2, <2>2 DEF MailInv
      <3> QED
        BY <2>2, <3>1 DEF HandlerInv
    <2> QED
      BY <2>1, <2>2
  <1>6. ASSUME NEW k \in Jobs PROVE RowInv(k)'
    BY DEF MailInv, RowInv
  <1> QED
    BY <1>3, <1>4, <1>5, <1>6 DEF MailInv

\* Sender w goes to pc and keeps its key, or is done.
LEMMA SenderGoes ==
  ASSUME MailInv, NEW w \in Senders, NEW pc \in {"check", "create", "publish"},
         sending' = [sending EXCEPT ![w].pc = pc]
  PROVE  \E j \in SenderRecord : /\ j.pc = pc /\ j.key = sending[w].key
                            /\ sending' = [sending EXCEPT ![w] = j]
  <1>1. sending[w] \in SenderRecord
    BY MailSets DEF MailInv
  <1> DEFINE j == [pc |-> pc, key |-> sending[w].key]
  <1>2. j \in SenderRecord /\ j = [sending[w] EXCEPT !.pc = pc]
    BY <1>1 DEF SenderRecord
  <1>3. sending' = [sending EXCEPT ![w] = j]
    BY <1>2
  <1> QED
    BY <1>2, <1>3

LEMMA ToCheckStep ==
  ASSUME MailInv, NEW w \in Senders, NEW k \in Jobs, ToCheck(w, k),
         UNCHANGED <<queueVars, mailRows, mh, faults>>
  PROVE  MailInv'
  <1> DEFINE j == [pc |-> "check", key |-> k]
  <1>1. j \in SenderRecord /\ j.pc = "check" /\ j.key = k /\ sending' = [sending EXCEPT ![w] = j]
    BY DEF ToCheck, SenderRecord
  <1>2. UNCHANGED <<ready, unacked, consuming, mail, sent, asked, mh, faults>>
    BY DEF queueVars, mailRows
  <1>3. ready \in [Jobs -> Nat] /\ mail \in [Jobs -> Mail] /\ asked \subseteq Jobs /\ faults \in Nat
    BY MailSets DEF MailInv
  <1>4. \A l \in Jobs : Exists(l) => Exists(l)'
    BY <1>2 DEF Exists
  <1>5. \A l \in Jobs : ready'[l] > 0 \/ l \in asked' => Exists(l)'
    BY <1>2, <1>4 DEF MailInv, RowInv
  <1> HIDE DEF j
  <1> QED
    BY <1>1, <1>2, <1>3, <1>4, <1>5, SenderMoves

\* The steps of EnqueueEmail that write no row and publish nothing.
LEMMA AskingStep ==
  ASSUME MailInv, NEW w \in Senders, NEW j \in SenderRecord, sending' = [sending EXCEPT ![w] = j],
         UNCHANGED <<ready, unacked, consuming, mail, sent, mh>>,
         asked' \subseteq Jobs, faults' \in Nat,
         \A k \in Jobs : k \in asked' => k \in asked \/ Exists(k),
         j.pc # "idle" => j.key \in Jobs,
         j.pc = "publish" => Exists(j.key)
  PROVE  MailInv'
  <1>1. ready \in [Jobs -> Nat] /\ mail \in [Jobs -> Mail]
    BY MailSets DEF MailInv
  <1>2. \A k \in Jobs : Exists(k)' <=> Exists(k)
    BY DEF Exists
  <1>3. \A k \in Jobs : ready'[k] > 0 \/ k \in asked' => Exists(k)'
    BY <1>2 DEF MailInv, RowInv
  <1>4. j.pc = "publish" => Exists(j.key)'
    BY DEF Exists
  <1> QED
    BY <1>1, <1>2, <1>3, <1>4, SenderMoves

LEMMA EnqueueSteps ==
  ASSUME MailInv, NEW w \in Senders, EnqueueStep(w)
  PROVE  MailInv'
  <1> DEFINE k == sending[w].key
  <1>0. /\ SenderInv(w) /\ faults \in Nat /\ asked \subseteq Jobs /\ sending[w] \in SenderRecord
        /\ sending \in [Senders -> SenderRecord]
        /\ ready \in [Jobs -> Nat] /\ mail \in [Jobs -> Mail]
        /\ \A l \in Jobs : RowInv(l)
    BY MailSets DEF MailInv
  <1>1. CASE AlreadyEnqueued(w)
    <2>1. /\ sending' = [sending EXCEPT ![w] = NotSending] /\ asked' = asked \cup {k}
          /\ UNCHANGED <<ready, unacked, consuming, mail, sent, mh, faults>>
          /\ Exists(k) /\ sending[w].pc = "check"
      BY <1>1 DEF AlreadyEnqueued, Return, Told, queueVars, Exists
    <2>2. k \in Jobs
      BY <1>0, <2>1 DEF SenderInv
    <2> QED
      BY <1>0, <2>1, <2>2, MailFacts, AskingStep
  <1>2. CASE NotEnqueued(w)
    <2>1. /\ sending[w].pc = "check" /\ sending' = [sending EXCEPT ![w].pc = "create"]
          /\ UNCHANGED <<ready, unacked, consuming, mail, sent, asked, mh, faults>>
      BY <1>2 DEF NotEnqueued, Continue, queueVars, mailRows
    <2>2. PICK j \in SenderRecord : j.pc = "create" /\ j.key = k /\ sending' = [sending EXCEPT ![w] = j]
      BY <2>1, SenderGoes
    <2>3. k \in Jobs
      BY <1>0, <2>1 DEF SenderInv
    <2> QED
      BY <1>0, <2>1, <2>2, <2>3, AskingStep
  <1>3. CASE CreateMail(w)
    <2> DEFINE m == [st |-> "pending", attempts |-> 0]
    <2>1. /\ sending[w].pc = "create" /\ sending' = [sending EXCEPT ![w].pc = "publish"]
          /\ UNCHANGED <<ready, unacked, consuming, sent, asked, mh, faults>>
          /\ mail' = [mail EXCEPT ![k] = m]
      BY <1>3 DEF CreateMail, Continue, queueVars
    <2>2. PICK j \in SenderRecord : j.pc = "publish" /\ j.key = k /\ sending' = [sending EXCEPT ![w] = j]
      BY <2>1, SenderGoes
    <2>3. k \in Jobs
      BY <1>0, <2>1 DEF SenderInv
    <2>4. m \in Mail /\ m.st = "pending"
      BY DEF Mail
    <2> HIDE DEF m
    <2>5. mail' \in [Jobs -> Mail] /\ \A l \in Jobs : mail'[l] = IF l = k THEN m ELSE mail[l]
      BY <1>0, <2>1, <2>3, <2>4
    <2>6. /\ \A l \in Jobs : Exists(l) => Exists(l)'
          /\ mail'[k].st # "none"
          /\ \A l \in Jobs : mail'[l].st = "delivered" => mail[l].st = "delivered"
      BY <2>3, <2>4, <2>5 DEF Exists
    <2>7. \A l \in Jobs : ready'[l] > 0 \/ l \in asked' => Exists(l)'
      BY <1>0, <2>1, <2>6 DEF RowInv
    <2>8. j.pc = "publish" => Exists(j.key)'
      BY <2>2, <2>6 DEF Exists
    <2> HIDE DEF k
    <2> QED
      BY <1>0, <2>1, <2>2, <2>3, <2>5, <2>6, <2>7, <2>8, SenderMoves
  <1>4. CASE CreateRefused(w)
    <2>1. /\ sending' = [sending EXCEPT ![w] = NotSending]
          /\ UNCHANGED <<ready, unacked, consuming, mail, sent, asked, mh, faults>>
      BY <1>4 DEF CreateRefused, Return, queueVars, mailRows
    <2> QED
      BY <1>0, <2>1, MailFacts, AskingStep
  <1>5. CASE PublishMail(w)
    <2>1. /\ sending' = [sending EXCEPT ![w] = NotSending] /\ asked' = asked \cup {k}
          /\ UNCHANGED <<unacked, consuming, mail, sent, mh, faults>>
          /\ ready' = [ready EXCEPT ![k] = ready[k] + 1]
          /\ sending[w].pc = "publish"
      BY <1>5 DEF PublishMail, Return, Told, Publish
    <2>2. k \in Jobs /\ Exists(k)
      BY <1>0, <2>1 DEF SenderInv
    <2>3. ready' \in [Jobs -> Nat] /\ \A l \in Jobs : l # k => ready'[l] = ready[l]
      BY <1>0, <2>1, <2>2
    <2>4. \A l \in Jobs : Exists(l)' <=> Exists(l)
      BY <2>1 DEF Exists
    <2>5. \A l \in Jobs : ready'[l] > 0 \/ l \in asked' => Exists(l)'
      BY <1>0, <2>1, <2>2, <2>3, <2>4 DEF RowInv
    <2> QED
      BY <1>0, <2>1, <2>2, <2>3, <2>4, <2>5, MailFacts, SenderMoves
  <1> QED
    BY <1>1, <1>2, <1>3, <1>4, <1>5 DEF EnqueueStep

LEMMA SenderFailsStep ==
  ASSUME MailInv, NEW w \in Senders, SenderFails(w)
  PROVE  MailInv'
  <1>1. /\ sending' = [sending EXCEPT ![w] = NotSending] /\ faults' = faults + 1
        /\ UNCHANGED <<ready, unacked, consuming, mail, sent, asked, mh>>
    BY DEF SenderFails, Fault, Return, queueVars, mailRows
  <1>2. faults \in Nat /\ asked \subseteq Jobs
    BY MailSets DEF MailInv
  <1>3. faults' \in Nat
    BY <1>1, <1>2
  <1> QED
    BY <1>1, <1>2, <1>3, MailFacts, AskingStep
-----------------------------------------------------------------------------
\* A handler that goes on with its message: the queue and the rows of senders
\* stay, the row or the mail server's count may change.
LEMMA HandlerGoes ==
  ASSUME MailInv, NEW c \in Consumers, NEW h \in HandlerRecord, mh' = [mh EXCEPT ![c] = h],
         UNCHANGED <<sending, asked, ready, unacked, consuming>>,
         mail' \in [Jobs -> Mail], sent' \in [Jobs -> Nat], faults' \in Nat,
         \A k \in Jobs : Exists(k) => Exists(k)',
         \A k \in Jobs : sent[k] > 0 => sent'[k] > 0,
         \A k \in Jobs : mail'[k].st = "delivered" => sent'[k] > 0,
         mh[c].pc # "idle", h.pc # "idle", h.key = mh[c].key,
         h.pc = "save" => h.copy.st \in {"failed", "delivered"},
         h.copy.st = "delivered" => sent'[h.key] > 0
  PROVE  MailInv'
  <1>1. /\ ready \in [Jobs -> Nat] /\ unacked \subseteq Consumers /\ consuming \subseteq Consumers
        /\ mh \in [Consumers -> HandlerRecord] /\ HandlerInv(c) /\ \A k \in Jobs : RowInv(k)
    BY MailSets DEF MailInv
  <1>2. mh'[c] = h
    BY <1>1
  <1>3. HandlerInv(c)'
    <2>1. h.key \in Jobs /\ Exists(h.key)'
      BY <1>1 DEF HandlerInv
    <2>2. c \in unacked' => c \in consuming'
      BY <1>1 DEF HandlerInv
    <2> QED
      BY <1>2, <2>1, <2>2 DEF HandlerInv, Exists
  <1>4. \A k \in Jobs : ready'[k] > 0 => Exists(k)'
    BY <1>1 DEF RowInv
  <1> QED
    BY <1>1, <1>3, <1>4, HandlerMoves

LEMMA HandlerTypes ==
  ASSUME MailInv, NEW c \in Consumers
  PROVE  /\ mh \in [Consumers -> HandlerRecord] /\ mh[c] \in HandlerRecord /\ mh[c].copy \in Mail
         /\ mail \in [Jobs -> Mail] /\ sent \in [Jobs -> Nat] /\ faults \in Nat
         /\ ready \in [Jobs -> Nat] /\ unacked \subseteq Consumers /\ consuming \subseteq Consumers
         /\ HandlerInv(c) /\ \A k \in Jobs : RowInv(k)
         /\ mh[c].pc # "idle" => mh[c].key \in Jobs
  <1>1. /\ mh \in [Consumers -> HandlerRecord] /\ mh[c] \in HandlerRecord
        /\ mail \in [Jobs -> Mail] /\ sent \in [Jobs -> Nat] /\ faults \in Nat
        /\ ready \in [Jobs -> Nat] /\ unacked \subseteq Consumers /\ consuming \subseteq Consumers
        /\ HandlerInv(c) /\ \A k \in Jobs : RowInv(k)
    BY MailSets DEF MailInv
  <1> QED
    BY <1>1 DEF HandlerRecord, HandlerInv

\* Record h with another pc.
LEMMA AnotherPc ==
  ASSUME NEW h \in HandlerRecord, NEW pc \in {"idle", "send", "save", "ack", "requeue"}
  PROVE  /\ [h EXCEPT !.pc = pc] \in HandlerRecord /\ [h EXCEPT !.pc = pc].pc = pc
         /\ [h EXCEPT !.pc = pc].key = h.key /\ [h EXCEPT !.pc = pc].copy = h.copy
  BY DEF HandlerRecord

\* Record h about to store a copy in state st.
LEMMA AboutToSave ==
  ASSUME NEW h \in HandlerRecord, NEW st \in {"none", "pending", "failed", "delivered"}
  PROVE  LET r == [h EXCEPT !.pc = "save", !.copy.st = st]
         IN  r \in HandlerRecord /\ r.pc = "save" /\ r.key = h.key /\ r.copy.st = st
  <1> DEFINE m == [h.copy EXCEPT !.st = st]
             r == [h EXCEPT !.pc = "save", !.copy.st = st]
  <1>1. m \in Mail /\ m.st = st
    BY DEF HandlerRecord, Mail
  <1>2. r = [h EXCEPT !.pc = "save", !.copy = m]
    BY DEF HandlerRecord
  <1> HIDE DEF m
  <1> QED
    BY <1>1, <1>2 DEF HandlerRecord

LEMMA LoadMailStep ==
  ASSUME MailInv, NEW c \in Consumers, LoadMail(c)
  PROVE  MailInv'
  <1>1. PICK k \in Jobs :
          /\ Take(c, k)
          /\ mh' = [mh EXCEPT ![c] =
                      [pc |-> IF mail[k].st = "delivered" THEN "ack" ELSE "send", key |-> k,
                       copy |-> [mail[k] EXCEPT !.attempts = mail[k].attempts + 1]]]
    BY DEF LoadMail
  <1>2. UNCHANGED <<mail, sent, asked, sending, faults>>
    BY DEF LoadMail, mailRows
  <1>3. /\ c \in consuming /\ ready[k] > 0 /\ ready' = [ready EXCEPT ![k] = ready[k] - 1]
        /\ unacked' = unacked \cup {c} /\ consuming' = consuming
    BY <1>1 DEF Take
  <1> DEFINE n == mail[k].attempts + 1
             r == [mail[k] EXCEPT !.attempts = n]
             h == [pc |-> IF mail[k].st = "delivered" THEN "ack" ELSE "send", key |-> k,
                   copy |-> r]
             q == ready[k] - 1
  <1>4. mail[k] \in Mail /\ n \in Nat /\ q \in Nat
    BY <1>3, HandlerTypes DEF Mail
  <1> HIDE DEF n
  <1>5. r \in Mail /\ r.st = mail[k].st
    BY <1>4 DEF Mail
  <1> HIDE DEF r
  <1>6. h \in HandlerRecord /\ h.key = k /\ h.copy.st = mail[k].st /\ h.pc \in {"ack", "send"}
    BY <1>5 DEF HandlerRecord
  <1>7. mh' = [mh EXCEPT ![c] = h]
    BY <1>1 DEF n, r
  <1> HIDE DEF h
  <1>8. mh'[c] = h
    BY <1>7, HandlerTypes
  <1>9. ready' \in [Jobs -> Nat] /\ \A l \in Jobs : ready'[l] > 0 => ready[l] > 0
    <2>1. ready' = [ready EXCEPT ![k] = q]
      BY <1>3
    <2> HIDE DEF q
    <2>2. ready' \in [Jobs -> Nat] /\ \A l \in Jobs : l # k => ready'[l] = ready[l]
      BY <1>4, <2>1, HandlerTypes
    <2> QED
      BY <1>3, <2>2
  <1>10. \A l \in Jobs : Exists(l)' <=> Exists(l)
    BY <1>2 DEF Exists
  <1>11. Exists(k)' /\ (h.copy.st = "delivered" => sent'[k] > 0)
    BY <1>2, <1>3, <1>6, <1>10, HandlerTypes DEF RowInv
  <1>12. HandlerInv(c)'
    BY <1>3, <1>6, <1>8, <1>11 DEF HandlerInv, Exists
  <1>13. /\ \A l \in Jobs : ready'[l] > 0 => Exists(l)'
         /\ \A l \in Jobs : mail'[l].st = "delivered" => sent'[l] > 0
    BY <1>2, <1>9, <1>10, HandlerTypes DEF RowInv
  <1> QED
    BY <1>2, <1>3, <1>6, <1>7, <1>9, <1>10, <1>12, <1>13, HandlerTypes, HandlerMoves

LEMMA MailAcceptedStep ==
  ASSUME MailInv, NEW c \in Consumers, MailAccepted(c)
  PROVE  MailInv'
  <1> DEFINE h == [mh[c] EXCEPT !.pc = "save", !.copy.st = "delivered"]
             k == mh[c].key
             n == sent[k] + 1
  <1>1. /\ mh[c].pc = "send" /\ sent' = [sent EXCEPT ![k] = n]
        /\ mh' = [mh EXCEPT ![c] = h]
        /\ UNCHANGED <<ready, unacked, consuming, mail, asked, sending, faults>>
    BY DEF MailAccepted, Mailing, queueVars
  <1>2. /\ h \in HandlerRecord /\ h.pc = "save" /\ h.key = k /\ h.copy.st = "delivered"
    BY HandlerTypes, AboutToSave
  <1>3. k \in Jobs /\ n \in Nat /\ n > 0
    BY <1>1, HandlerTypes
  <1> HIDE DEF h, n
  <1>4. /\ sent' \in [Jobs -> Nat] /\ sent'[k] > 0
        /\ \A l \in Jobs : sent[l] > 0 => sent'[l] > 0
    BY <1>1, <1>3, HandlerTypes
  <1>5. sent'[h.key] > 0
    BY <1>2, <1>4
  <1>6. \A l \in Jobs : Exists(l) => Exists(l)'
    BY <1>1 DEF Exists
  <1>7. \A l \in Jobs : mail'[l].st = "delivered" => sent'[l] > 0
    BY <1>1, <1>4, HandlerTypes DEF RowInv
  <1> QED
    BY <1>1, <1>2, <1>4, <1>5, <1>6, <1>7, HandlerTypes, HandlerGoes

LEMMA MailRefusedStep ==
  ASSUME MailInv, NEW c \in Consumers, MailRefused(c)
  PROVE  MailInv'
  <1> DEFINE h == [mh[c] EXCEPT !.pc = "save", !.copy.st = "failed"]
  <1>1. /\ mh[c].pc = "send" /\ mh' = [mh EXCEPT ![c] = h] /\ faults' = faults + 1
        /\ UNCHANGED <<ready, unacked, consuming, mail, sent, asked, sending>>
    BY DEF MailRefused, Fault, Mailing, queueVars, mailRows
  <1>2. h \in HandlerRecord /\ h.pc = "save" /\ h.key = mh[c].key /\ h.copy.st = "failed"
    BY HandlerTypes, AboutToSave
  <1>3. faults' \in Nat
    BY <1>1, HandlerTypes
  <1> HIDE DEF h
  <1>4. /\ \A l \in Jobs : Exists(l) => Exists(l)'
        /\ \A l \in Jobs : mail'[l].st = "delivered" => sent'[l] > 0
    BY <1>1, HandlerTypes DEF Exists, RowInv
  <1> QED
    BY <1>1, <1>2, <1>3, <1>4, HandlerTypes, HandlerGoes

LEMMA MailerFailsStep ==
  ASSUME MailInv, NEW c \in Consumers, MailerFails(c)
  PROVE  MailInv'
  <1> DEFINE h == [mh[c] EXCEPT !.pc = "requeue"]
  <1>1. /\ mh[c].pc \in {"send", "save"} /\ mh' = [mh EXCEPT ![c] = h] /\ faults' = faults + 1
        /\ UNCHANGED <<ready, unacked, consuming, mail, sent, asked, sending>>
    BY DEF MailerFails, Fault, queueVars, mailRows
  <1>2. h \in HandlerRecord /\ h.pc = "requeue" /\ h.key = mh[c].key /\ h.copy = mh[c].copy
    BY HandlerTypes, AnotherPc
  <1>3. faults' \in Nat
    BY <1>1, HandlerTypes
  <1> HIDE DEF h
  <1>4. /\ \A l \in Jobs : Exists(l) => Exists(l)'
        /\ \A l \in Jobs : mail'[l].st = "delivered" => sent'[l] > 0
    BY <1>1, HandlerTypes DEF Exists, RowInv
  <1>5. h.copy.st = "delivered" => sent'[h.key] > 0
    BY <1>1, <1>2, HandlerTypes DEF HandlerInv
  <1> QED
    BY <1>1, <1>2, <1>3, <1>4, <1>5, HandlerTypes, HandlerGoes

LEMMA SaveMailStep ==
  ASSUME MailInv, NEW c \in Consumers, SaveMail(c)
  PROVE  MailInv'
  <1> DEFINE pc == IF mh[c].copy.st = "failed" THEN "requeue" ELSE "ack"
             h == [mh[c] EXCEPT !.pc = pc]
             k == mh[c].key
             r == mh[c].copy
  <1>1. /\ mh[c].pc = "save" /\ mh' = [mh EXCEPT ![c] = h] /\ mail' = [mail EXCEPT ![k] = r]
        /\ UNCHANGED <<ready, unacked, consuming, sent, asked, sending, faults>>
    BY DEF SaveMail, Mailing, queueVars
  <1>2. pc \in {"idle", "send", "save", "ack", "requeue"}
    OBVIOUS
  <1> HIDE DEF pc
  <1>3. h \in HandlerRecord /\ h.pc = pc /\ h.key = k /\ h.copy = r
    BY <1>2, HandlerTypes, AnotherPc
  <1>4. k \in Jobs /\ r \in Mail /\ r.st # "none" /\ (r.st = "delivered" => sent[k] > 0)
    BY <1>1, HandlerTypes DEF HandlerInv
  <1> HIDE DEF h, r, k
  <1>5. mail' \in [Jobs -> Mail] /\ \A l \in Jobs : mail'[l] = IF l = k THEN r ELSE mail[l]
    BY <1>1, <1>4, HandlerTypes
  <1>6. /\ \A l \in Jobs : Exists(l) => Exists(l)'
        /\ \A l \in Jobs : mail'[l].st = "delivered" => sent'[l] > 0
    BY <1>1, <1>4, <1>5, HandlerTypes DEF Exists, RowInv
  <1>7. h.copy.st = "delivered" => sent'[h.key] > 0
    BY <1>1, <1>3, <1>4
  <1>8. h.key = mh[c].key /\ h.pc \in {"requeue", "ack"}
    BY <1>3 DEF k, pc
  <1> QED
    BY <1>1, <1>2, <1>3, <1>5, <1>6, <1>7, <1>8, HandlerTypes, HandlerGoes

\* What the queue holds when the message of consumer c goes back to it.
LEMMA RequeuedReady ==
  ASSUME MailInv, NEW c \in Consumers, ready' = Requeued(c, mh[c].key)
  PROVE  /\ ready' \in [Jobs -> Nat]
         /\ \A l \in Jobs : ready'[l] > 0 => Exists(l)
  <1>1. CASE c \in unacked
    <2> DEFINE k == mh[c].key
               n == ready[k] + 1
    <2>1. k \in Jobs /\ Exists(k) /\ n \in Nat
      BY <1>1, HandlerTypes DEF HandlerInv
    <2>2. ready' = [ready EXCEPT ![k] = n]
      BY <1>1 DEF Requeued
    <2> HIDE DEF k, n
    <2>3. ready' \in [Jobs -> Nat] /\ \A l \in Jobs : l # k => ready'[l] = ready[l]
      BY <2>1, <2>2, HandlerTypes
    <2> QED
      BY <2>1, <2>3, HandlerTypes DEF RowInv
  <1>2. CASE c \notin unacked
    BY <1>2, HandlerTypes DEF Requeued, RowInv
  <1> QED
    BY <1>1, <1>2

\* Consumer c is done with its message, is cut off or comes back.
LEMMA HandlerRests ==
  ASSUME MailInv, NEW c \in Consumers, NEW h \in HandlerRecord, mh' = [mh EXCEPT ![c] = h],
         UNCHANGED <<mail, sent, asked, sending>>, faults' \in Nat,
         ready' \in [Jobs -> Nat], \A k \in Jobs : ready'[k] > 0 => Exists(k),
         unacked' = unacked \ {c}, consuming' \subseteq Consumers,
         \A b \in Consumers \ {c} : b \in consuming => b \in consuming',
         h = mh[c] \/ h = IdleMailer
  PROVE  MailInv'
  <1>1. mh'[c] = h
    BY HandlerTypes
  <1>2. \A k \in Jobs : Exists(k)' <=> Exists(k)
    BY DEF Exists
  <1>3. HandlerInv(c)'
    BY <1>1, <1>2, HandlerTypes, MailFacts DEF HandlerInv, Exists
  <1>4. /\ mail' \in [Jobs -> Mail] /\ sent' \in [Jobs -> Nat] /\ unacked' \subseteq Consumers
        /\ \A k \in Jobs : mail'[k].st = "delivered" => sent'[k] > 0
    BY HandlerTypes DEF RowInv
  <1> QED
    BY <1>2, <1>3, <1>4, HandlerMoves

LEMMA FinishMailStep ==
  ASSUME MailInv, NEW c \in Consumers, FinishMail(c)
  PROVE  MailInv'
  <1>1. /\ mh' = [mh EXCEPT ![c] = IdleMailer]
        /\ UNCHANGED <<mail, sent, asked, sending, faults, consuming>>
        /\ unacked' = unacked \ {c}
        /\ ready' = ready \/ ready' = Requeued(c, mh[c].key)
    BY DEF FinishMail, mailRows, Ack, Nack
  <1>2. ready' \in [Jobs -> Nat] /\ \A k \in Jobs : ready'[k] > 0 => Exists(k)
    BY <1>1, HandlerTypes, RequeuedReady DEF RowInv
  <1> QED
    BY <1>1, <1>2, HandlerTypes, MailFacts, HandlerRests

LEMMA MailerDisconnectsStep ==
  ASSUME MailInv, NEW c \in Consumers, MailerDisconnects(c)
  PROVE  MailInv'
  <1>1. /\ UNCHANGED <<mail, sent, asked, sending, mh>> /\ faults' = faults + 1
        /\ unacked' = unacked \ {c} /\ consuming' = consuming \ {c}
        /\ ready' = Requeued(c, mh[c].key)
    BY DEF MailerDisconnects, Fault, Disconnect, mailRows
  <1>2. mh' = [mh EXCEPT ![c] = mh[c]] /\ faults' \in Nat
    BY <1>1, HandlerTypes
  <1>3. ready' \in [Jobs -> Nat] /\ \A k \in Jobs : ready'[k] > 0 => Exists(k)
    BY <1>1, RequeuedReady
  <1> QED
    BY <1>1, <1>2, <1>3, HandlerTypes, HandlerRests

LEMMA MailerRestartsStep ==
  ASSUME MailInv, NEW c \in Consumers, MailerRestarts(c)
  PROVE  MailInv'
  <1>1. /\ UNCHANGED <<mail, sent, asked, sending, faults, ready, unacked>>
        /\ c \notin consuming /\ consuming' = consuming \cup {c}
        /\ mh' = [mh EXCEPT ![c] = IdleMailer]
    BY DEF MailerRestarts, Reattach, mailRows
  <1>2. unacked' = unacked \ {c}
    BY <1>1, HandlerTypes DEF HandlerInv
  <1>3. ready' \in [Jobs -> Nat] /\ \A k \in Jobs : ready'[k] > 0 => Exists(k)
    BY <1>1, HandlerTypes DEF RowInv
  <1> QED
    BY <1>1, <1>2, <1>3, HandlerTypes, MailFacts, HandlerRests

LEMMA MailerStep == ASSUME MailInv, NEW c \in Consumers, Mailer(c) PROVE MailInv'
  BY LoadMailStep, MailAcceptedStep, SaveMailStep, FinishMailStep, MailRefusedStep,
     MailerFailsStep, MailerDisconnectsStep, MailerRestartsStep DEF Mailer, MailStep

LEMMA SenderStep == ASSUME MailInv, NEW w \in Senders, Sender(w) PROVE MailInv'
  BY EnqueueSteps, SenderFailsStep DEF Sender

LEMMA AskMailStep == ASSUME MailInv, NEW w \in Senders, AskMail(w) PROVE MailInv'
  BY ToCheckStep DEF AskMail

LEMMA SessionMailStep == ASSUME MailInv, NEW w \in Senders, InitiateSession(w) PROVE MailInv'
  <1>1. Sessions \subseteq Jobs
    BY PortalAssumption DEF Sessions
  <1>2. PICK s \in Sessions : ToCheck(w, s) /\ UNCHANGED <<queueVars, mailRows, mh, faults>>
    BY DEF InitiateSession
  <1> QED
    BY <1>1, <1>2, ToCheckStep

LEMMA MailsUntouched ==
  ASSUME MailInv, UNCHANGED <<ready, unacked, consuming, mail, sending, mh, sent, asked>>,
         faults' \in Nat
  PROVE  MailInv'
  <1>1. MailTypeOK'
    BY DEF MailInv, MailTypeOK, QueueTypeOK
  <1>2. \A w \in Senders : SenderInv(w)'
    BY DEF MailInv, SenderInv, Exists
  <1>3. \A c \in Consumers : HandlerInv(c)'
    BY DEF MailInv, HandlerInv, Exists
  <1>4. \A k \in Jobs : RowInv(k)'
    BY DEF MailInv, RowInv, Exists
  <1> QED
    BY <1>1, <1>2, <1>3, <1>4 DEF MailInv
-----------------------------------------------------------------------------
(* Mails: how often one may still be sent.                                 *)

\* Handler c has yet to send mail k, or to give it back to the queue.
Owes(c, k) ==
    /\ mh[c].key = k
    /\ \/ mh[c].pc = "send"
       \/ /\ c \in unacked
          /\ mh[c].pc = "requeue" \/ (mh[c].pc = "save" /\ mh[c].copy.st = "failed")

Publishes(w, k) == sending[w].pc = "publish" /\ sending[w].key = k

Working(k) == {c \in Consumers : Owes(c, k)}
Publishing(k) == {w \in Senders : Publishes(w, k)}

\* The times mail k was sent and the times it may still be: each is a message,
\* a handler or a sender, or the row is still to be created.
CountInv ==
    \A k \in Jobs :
        sent[k] + ready[k] + Cardinality(Working(k)) + Cardinality(Publishing(k))
          + Bit(~Exists(k)) <= 1 + faults

LEMMA BitFacts == \A b \in BOOLEAN : Bit(b) \in Nat /\ (b => Bit(b) = 1) /\ (~b => Bit(b) = 0)
  BY DEF Bit

LEMMA CountsInNat ==
  \A k : Cardinality(Working(k)) \in Nat /\ Cardinality(Publishing(k)) \in Nat
  <1> SUFFICES ASSUME NEW k
               PROVE  Cardinality(Working(k)) \in Nat /\ Cardinality(Publishing(k)) \in Nat
    OBVIOUS
  <1>1. Working(k) \subseteq Consumers /\ Publishing(k) \subseteq Senders
    BY DEF Working, Publishing
  <1>2. IsFiniteSet(Working(k)) /\ IsFiniteSet(Publishing(k))
    BY <1>1, EmailAssumption, FS_Subset
  <1> QED
    BY <1>2, FS_CardinalityType

LEMMA CountInit == ASSUME MailInit PROVE CountInv
  <1> SUFFICES ASSUME NEW k \in Jobs
               PROVE  sent[k] + ready[k] + Cardinality(Working(k)) + Cardinality(Publishing(k))
                        + Bit(~Exists(k)) <= 1 + faults
    BY DEF CountInv
  <1>1. Working(k) = {} /\ Publishing(k) = {}
    BY MailFacts DEF MailInit, Working, Owes, Publishing, Publishes
  <1>2. sent[k] = 0 /\ ready[k] = 0 /\ faults = 0 /\ ~Exists(k)
    BY MailFacts DEF MailInit, QueueInit, Exists
  <1>3. Cardinality({}) = 0 /\ Bit(~Exists(k)) = 1
    BY <1>2, FS_EmptySet DEF Bit
  <1> QED
    BY <1>1, <1>2, <1>3

\* A step of handler c keeps the count if it does so for c.
LEMMA HandlerCounted ==
  ASSUME MailInv, MailInv', CountInv, NEW c \in Consumers,
         \A b \in Consumers \ {c} : \A k \in Jobs : Owes(b, k)' <=> Owes(b, k),
         UNCHANGED sending, \A k \in Jobs : Exists(k)' <=> Exists(k),
         \A k \in Jobs : sent'[k] + ready'[k] + Bit(Owes(c, k)') + faults
                           <= sent[k] + ready[k] + Bit(Owes(c, k)) + faults'
  PROVE  CountInv'
  <1> SUFFICES ASSUME NEW k \in Jobs
               PROVE  sent'[k] + ready'[k] + Cardinality(Working(k)') + Cardinality(Publishing(k)')
                        + Bit(~Exists(k)') <= 1 + faults'
    BY DEF CountInv
  <1> DEFINE p == Cardinality(Publishing(k))
             w == Cardinality(Working(k))
             x == Cardinality(Working(k)')
             e == Bit(~Exists(k))
             b == Bit(Owes(c, k))
             d == Bit(Owes(c, k)')
             s == sent[k]
             r == ready[k]
             s1 == sent'[k]
             r1 == ready'[k]
             f == faults
             f1 == faults'
  <1>1. Publishing(k)' = Publishing(k)
    BY DEF Publishing, Publishes
  <1>2. Bit(~Exists(k)') = e
    BY DEF Bit
  <1>3. x = (w - b) + d /\ b \in Nat /\ d \in Nat
    <2>1. /\ Working(k) \in SUBSET Consumers /\ Working(k)' \in SUBSET Consumers
          /\ IsFiniteSet(Consumers)
          /\ \A v \in Consumers \ {c} : v \in Working(k) <=> v \in Working(k)'
          /\ c \in Working(k) <=> Owes(c, k)
          /\ c \in Working(k)' <=> Owes(c, k)'
      BY EmailAssumption DEF Working
    <2>2. /\ Cardinality(Working(k)) \in Nat /\ Cardinality(Working(k)') \in Nat
          /\ c \in Working(k) /\ c \in Working(k)' => Cardinality(Working(k)') = Cardinality(Working(k))
          /\ c \notin Working(k) /\ c \notin Working(k)' => Cardinality(Working(k)') = Cardinality(Working(k))
          /\ c \in Working(k) /\ c \notin Working(k)' => Cardinality(Working(k)') = Cardinality(Working(k)) - 1
          /\ c \notin Working(k) /\ c \in Working(k)' => Cardinality(Working(k)') = Cardinality(Working(k)) + 1
      BY <2>1, OneMember
    <2>3. /\ Owes(c, k) => b = 1
          /\ ~Owes(c, k) => b = 0
          /\ Owes(c, k)' => d = 1
          /\ ~Owes(c, k)' => d = 0
      BY DEF Bit
    <2>4. w \in Nat /\ x \in Nat
      BY <2>2
    <2> HIDE DEF w, x, b, d
    <2>5. CASE Owes(c, k) /\ Owes(c, k)'
      BY <2>1, <2>2, <2>3, <2>4, <2>5 DEF w, x
    <2>6. CASE Owes(c, k) /\ ~Owes(c, k)'
      BY <2>1, <2>2, <2>3, <2>4, <2>6 DEF w, x
    <2>7. CASE ~Owes(c, k) /\ Owes(c, k)'
      BY <2>1, <2>2, <2>3, <2>4, <2>7 DEF w, x
    <2>8. CASE ~Owes(c, k) /\ ~Owes(c, k)'
      BY <2>1, <2>2, <2>3, <2>4, <2>8 DEF w, x
    <2> QED
      BY <2>5, <2>6, <2>7, <2>8
  <1>4. s \in Nat /\ r \in Nat /\ s1 \in Nat /\ r1 \in Nat /\ f \in Nat /\ f1 \in Nat
    BY MailSets DEF MailInv, MailTypeOK, QueueTypeOK
  <1>5. p \in Nat /\ w \in Nat /\ e \in Nat
    BY CountsInNat DEF Bit
  <1>6. s + r + w + p + e <= 1 + f
    BY DEF CountInv
  <1>7. s1 + r1 + d + f <= s + r + b + f1
    OBVIOUS
  <1> HIDE DEF p, w, x, e, b, d, s, r, s1, r1, f, f1
  <1>8. s1 + r1 + x + p + e <= 1 + f1
    BY <1>3, <1>4, <1>5, <1>6, <1>7
  <1> QED
    BY <1>1, <1>2, <1>8 DEF p, x, e, s1, r1, f1

\* A step of sender w keeps the count if it does so for w.
LEMMA SenderCounted ==
  ASSUME MailInv, MailInv', CountInv, NEW w \in Senders, UNCHANGED <<mh, unacked, sent>>,
         \A v \in Senders \ {w} : sending'[v] = sending[v],
         \A k \in Jobs : ready'[k] + Bit(Publishes(w, k)') + Bit(~Exists(k)') + faults
                           <= ready[k] + Bit(Publishes(w, k)) + Bit(~Exists(k)) + faults'
  PROVE  CountInv'
  <1> SUFFICES ASSUME NEW k \in Jobs
               PROVE  sent'[k] + ready'[k] + Cardinality(Working(k)') + Cardinality(Publishing(k)')
                        + Bit(~Exists(k)') <= 1 + faults'
    BY DEF CountInv
  <1> DEFINE p == Cardinality(Publishing(k))
             x == Cardinality(Publishing(k)')
             o == Cardinality(Working(k))
             e == Bit(~Exists(k))
             e1 == Bit(~Exists(k)')
             b == Bit(Publishes(w, k))
             d == Bit(Publishes(w, k)')
             s == sent[k]
             r == ready[k]
             r1 == ready'[k]
             f == faults
             f1 == faults'
  <1>1. Working(k)' = Working(k)
    BY DEF Working, Owes
  <1>3. x = (p - b) + d /\ b \in Nat /\ d \in Nat
    <2>1. /\ Publishing(k) \in SUBSET Senders /\ Publishing(k)' \in SUBSET Senders
          /\ IsFiniteSet(Senders)
          /\ \A v \in Senders \ {w} : v \in Publishing(k) <=> v \in Publishing(k)'
          /\ w \in Publishing(k) <=> Publishes(w, k)
          /\ w \in Publishing(k)' <=> Publishes(w, k)'
      BY EmailAssumption DEF Publishing, Publishes
    <2>2. /\ Cardinality(Publishing(k)) \in Nat /\ Cardinality(Publishing(k)') \in Nat
          /\ w \in Publishing(k) /\ w \in Publishing(k)' => Cardinality(Publishing(k)') = Cardinality(Publishing(k))
          /\ w \notin Publishing(k) /\ w \notin Publishing(k)' => Cardinality(Publishing(k)') = Cardinality(Publishing(k))
          /\ w \in Publishing(k) /\ w \notin Publishing(k)' => Cardinality(Publishing(k)') = Cardinality(Publishing(k)) - 1
          /\ w \notin Publishing(k) /\ w \in Publishing(k)' => Cardinality(Publishing(k)') = Cardinality(Publishing(k)) + 1
      BY <2>1, OneMember
    <2>3. /\ Publishes(w, k) => b = 1
          /\ ~Publishes(w, k) => b = 0
          /\ Publishes(w, k)' => d = 1
          /\ ~Publishes(w, k)' => d = 0
      BY DEF Bit
    <2>4. p \in Nat /\ x \in Nat
      BY <2>2
    <2> HIDE DEF p, x, b, d
    <2>5. CASE Publishes(w, k) /\ Publishes(w, k)'
      BY <2>1, <2>2, <2>3, <2>4, <2>5 DEF p, x
    <2>6. CASE Publishes(w, k) /\ ~Publishes(w, k)'
      BY <2>1, <2>2, <2>3, <2>4, <2>6 DEF p, x
    <2>7. CASE ~Publishes(w, k) /\ Publishes(w, k)'
      BY <2>1, <2>2, <2>3, <2>4, <2>7 DEF p, x
    <2>8. CASE ~Publishes(w, k) /\ ~Publishes(w, k)'
      BY <2>1, <2>2, <2>3, <2>4, <2>8 DEF p, x
    <2> QED
      BY <2>5, <2>6, <2>7, <2>8
  <1>4. s \in Nat /\ r \in Nat /\ r1 \in Nat /\ f \in Nat /\ f1 \in Nat
    BY MailSets DEF MailInv, MailTypeOK, QueueTypeOK
  <1>5. p \in Nat /\ o \in Nat /\ e \in Nat /\ e1 \in Nat
    BY CountsInNat DEF Bit
  <1>6. s + r + o + p + e <= 1 + f
    BY DEF CountInv
  <1>7. r1 + d + e1 + f <= r + b + e + f1
    OBVIOUS
  <1> HIDE DEF p, x, o, e, e1, b, d, s, r, r1, f, f1
  <1>8. s + r1 + o + x + e1 <= 1 + f1
    BY <1>3, <1>4, <1>5, <1>6, <1>7
  <1> QED
    BY <1>1, <1>8 DEF p, x, o, s, e1, r1, f1

\* A sender that was not publishing, and is not now, with its row untouched.
LEMMA SenderAside ==
  ASSUME MailInv, MailInv', CountInv, NEW w \in Senders,
         UNCHANGED <<mh, unacked, sent, ready, mail>>,
         \A v \in Senders \ {w} : sending'[v] = sending[v],
         sending'[w].pc # "publish", faults <= faults'
  PROVE  CountInv'
  <1> SUFFICES ASSUME NEW k \in Jobs
               PROVE  ready'[k] + Bit(Publishes(w, k)') + Bit(~Exists(k)') + faults
                           <= ready[k] + Bit(Publishes(w, k)) + Bit(~Exists(k)) + faults'
    BY SenderCounted
  <1> DEFINE r == ready[k]
             r1 == ready'[k]
             e == Bit(~Exists(k))
             e1 == Bit(~Exists(k)')
             b == Bit(Publishes(w, k))
             d == Bit(Publishes(w, k)')
             f == faults
             f1 == faults'
  <1>1. r \in Nat /\ r1 = r /\ f \in Nat /\ f1 \in Nat /\ f <= f1
    BY MailSets DEF MailInv, MailTypeOK
  <1>2. d = 0 /\ e = e1 /\ e \in Nat /\ b \in Nat
    BY DEF Bit, Publishes, Exists
  <1> HIDE DEF r, r1, e, e1, b, d, f, f1
  <1>3. r1 + d + e1 + f <= r + b + e + f1
    BY <1>1, <1>2
  <1> QED
    BY <1>3 DEF r, r1, e, e1, b, d, f, f1

LEMMA SenderOthers ==
  ASSUME MailInv, NEW w \in Senders, NEW j, sending' = [sending EXCEPT ![w] = j]
  PROVE  sending'[w] = j /\ \A v \in Senders \ {w} : sending'[v] = sending[v]
  BY MailSets DEF MailInv

LEMMA SenderPc ==
  ASSUME MailInv, NEW w \in Senders, NEW pc, sending' = [sending EXCEPT ![w].pc = pc]
  PROVE  /\ sending'[w].pc = pc /\ sending'[w].key = sending[w].key
         /\ \A v \in Senders \ {w} : sending'[v] = sending[v]
  <1>1. sending \in [Senders -> SenderRecord]
    BY MailSets DEF MailInv
  <1> QED
    BY <1>1 DEF SenderRecord

LEMMA ToCheckCount ==
  ASSUME MailInv, MailInv', CountInv, NEW w \in Senders, NEW k \in Jobs, ToCheck(w, k),
         UNCHANGED <<queueVars, mailRows, mh, faults>>
  PROVE  CountInv'
  <1> DEFINE j == [pc |-> "check", key |-> k]
  <1>0. j.pc # "publish"
    OBVIOUS
  <1>1. /\ sending' = [sending EXCEPT ![w] = j]
        /\ UNCHANGED <<mh, unacked, sent, ready, mail, faults>>
    BY DEF ToCheck, queueVars, mailRows
  <1> HIDE DEF j
  <1>2. sending'[w].pc # "publish" /\ \A v \in Senders \ {w} : sending'[v] = sending[v]
    BY <1>0, <1>1, SenderOthers
  <1>3. faults <= faults'
    BY <1>1, MailSets DEF MailInv
  <1> QED
    BY <1>1, <1>2, <1>3, SenderAside

LEMMA SenderCount ==
  ASSUME MailInv, MailInv', CountInv, NEW w \in Senders, Sender(w)
  PROVE  CountInv'
  <1> DEFINE k == sending[w].key
  <1>0. /\ SenderInv(w) /\ faults \in Nat /\ ready \in [Jobs -> Nat] /\ mail \in [Jobs -> Mail]
        /\ sending \in [Senders -> SenderRecord]
    BY MailSets DEF MailInv
  <1>1. CASE AlreadyEnqueued(w) \/ CreateRefused(w) \/ SenderFails(w)
    <2>1. /\ sending' = [sending EXCEPT ![w] = NotSending]
          /\ UNCHANGED <<mh, unacked, sent, ready, mail>>
          /\ faults' = faults \/ faults' = faults + 1
      BY <1>1 DEF AlreadyEnqueued, CreateRefused, SenderFails, Fault, Return, queueVars, mailRows
    <2>2. sending'[w].pc # "publish" /\ \A v \in Senders \ {w} : sending'[v] = sending[v]
      BY <2>1, SenderOthers, MailFacts
    <2>3. faults <= faults'
      BY <1>0, <2>1
    <2> QED
      BY <2>1, <2>2, <2>3, SenderAside
  <1>2. CASE NotEnqueued(w)
    <2>1. /\ sending' = [sending EXCEPT ![w].pc = "create"]
          /\ UNCHANGED <<mh, unacked, sent, ready, mail, faults>>
      BY <1>2 DEF NotEnqueued, Continue, queueVars, mailRows
    <2>2. sending'[w].pc = "create" /\ \A v \in Senders \ {w} : sending'[v] = sending[v]
      BY <2>1, SenderPc
    <2>3. faults <= faults'
      BY <1>0, <2>1
    <2> QED
      BY <2>1, <2>2, <2>3, SenderAside
  <1>3. CASE CreateMail(w)
    <2>1. /\ sending[w].pc = "create" /\ sending' = [sending EXCEPT ![w].pc = "publish"]
          /\ UNCHANGED <<mh, unacked, sent, ready, faults>> /\ ~Exists(k)
          /\ mail' = [mail EXCEPT ![k] = [st |-> "pending", attempts |-> 0]]
      BY <1>3 DEF CreateMail, Continue, queueVars, Exists
    <2>2. /\ sending'[w].pc = "publish" /\ sending'[w].key = k
          /\ \A v \in Senders \ {w} : sending'[v] = sending[v]
      BY <2>1, SenderPc
    <2>3. k \in Jobs
      BY <1>0, <2>1 DEF SenderInv
    <2> SUFFICES ASSUME NEW l \in Jobs
                 PROVE  ready'[l] + Bit(Publishes(w, l)') + Bit(~Exists(l)') + faults
                           <= ready[l] + Bit(Publishes(w, l)) + Bit(~Exists(l)) + faults'
      BY <2>1, <2>2, SenderCounted
    <2>4. Bit(Publishes(w, l)') = Bit(l = k) /\ Bit(Publishes(w, l)) = 0
      BY <2>1, <2>2 DEF Publishes, Bit
    <2>5. Bit(~Exists(l)) = Bit(~Exists(l)') + Bit(l = k)
      <3> DEFINE m == [st |-> "pending", attempts |-> 0]
      <3>1. m.st # "none"
        OBVIOUS
      <3>2. mail' = [mail EXCEPT ![k] = m]
        BY <2>1
      <3> HIDE DEF m
      <3>3. mail'[l] = IF l = k THEN m ELSE mail[l]
        BY <1>0, <2>3, <3>2
      <3>4. CASE l = k
        <4>1. Exists(l)' /\ ~Exists(l)
          BY <2>1, <3>1, <3>3, <3>4 DEF Exists
        <4> QED
          BY <3>4, <4>1 DEF Bit
      <3>5. CASE l # k
        <4>1. Exists(l)' <=> Exists(l)
          BY <3>3, <3>5 DEF Exists
        <4> QED
          BY <3>5, <4>1 DEF Bit
      <3> QED
        BY <3>4, <3>5
    <2>6. /\ ready'[l] = ready[l] /\ ready[l] \in Nat /\ faults' = faults /\ faults \in Nat
          /\ Bit(l = k) \in Nat /\ Bit(~Exists(l)') \in Nat
      BY <1>0, <2>1 DEF Bit
    <2> DEFINE r == ready[l]
               u == Bit(l = k)
               v == Bit(~Exists(l)')
    <2>7. r + u + v + faults <= r + 0 + (v + u) + faults
      <3> HIDE DEF r, u, v
      <3>1. r \in Nat /\ u \in Nat /\ v \in Nat /\ faults \in Nat
        BY <2>6 DEF r, u, v
      <3> QED
        BY <3>1
    <2> HIDE DEF k
    <2> QED
      BY <2>4, <2>5, <2>6, <2>7
  <1>4. CASE PublishMail(w)
    <2>1. /\ sending' = [sending EXCEPT ![w] = NotSending]
          /\ UNCHANGED <<mh, unacked, sent, mail, faults>>
          /\ ready' = [ready EXCEPT ![k] = ready[k] + 1]
          /\ sending[w].pc = "publish"
      BY <1>4 DEF PublishMail, Return, Publish
    <2>2. sending'[w].pc # "publish" /\ \A v \in Senders \ {w} : sending'[v] = sending[v]
      BY <2>1, SenderOthers, MailFacts
    <2>3. k \in Jobs
      BY <1>0, <2>1 DEF SenderInv
    <2> SUFFICES ASSUME NEW l \in Jobs
                 PROVE  ready'[l] + Bit(Publishes(w, l)') + Bit(~Exists(l)') + faults
                           <= ready[l] + Bit(Publishes(w, l)) + Bit(~Exists(l)) + faults'
      BY <2>1, <2>2, SenderCounted
    <2>4. Bit(Publishes(w, l)') = 0 /\ Bit(Publishes(w, l)) = Bit(l = k)
      BY <2>1, <2>2 DEF Publishes, Bit
    <2>5. ready'[l] = ready[l] + Bit(l = k)
      <3> DEFINE n == ready[k] + 1
      <3>1. ready' = [ready EXCEPT ![k] = n]
        BY <2>1
      <3> HIDE DEF n
      <3>2. ready'[l] = IF l = k THEN n ELSE ready[l]
        BY <1>0, <2>3, <3>1
      <3>3. CASE l = k
        BY <1>0, <3>2, <3>3 DEF Bit, n
      <3>4. CASE l # k
        BY <1>0, <3>2, <3>4 DEF Bit
      <3> QED
        BY <3>3, <3>4
    <2>6. /\ ready[l] \in Nat /\ faults' = faults /\ faults \in Nat
          /\ Bit(l = k) \in Nat /\ Bit(~Exists(l)') = Bit(~Exists(l)) /\ Bit(~Exists(l)) \in Nat
      BY <1>0, <2>1 DEF Bit, Exists
    <2> DEFINE r == ready[l]
               u == Bit(l = k)
               v == Bit(~Exists(l))
    <2>7. (r + u) + 0 + v + faults <= r + u + v + faults
      <3> HIDE DEF r, u, v
      <3>1. r \in Nat /\ u \in Nat /\ v \in Nat /\ faults \in Nat
        BY <2>6 DEF r, u, v
      <3> QED
        BY <3>1
    <2> HIDE DEF k
    <2> QED
      BY <2>4, <2>5, <2>6, <2>7
  <1> QED
    BY <1>1, <1>2, <1>3, <1>4 DEF Sender, EnqueueStep

LEMMA OthersOwe ==
  ASSUME MailInv, NEW c \in Consumers, NEW h, mh' = [mh EXCEPT ![c] = h],
         \A b \in Consumers \ {c} : b \in unacked' <=> b \in unacked
  PROVE  /\ mh'[c] = h
         /\ \A b \in Consumers \ {c} : \A k \in Jobs : Owes(b, k)' <=> Owes(b, k)
  <1>1. mh \in [Consumers -> HandlerRecord]
    BY HandlerTypes
  <1>2. \A b \in Consumers \ {c} : mh'[b] = mh[b]
    BY <1>1
  <1>3. mh'[c] = h
    BY <1>1
  <1> QED
    BY <1>2, <1>3 DEF Owes

\* A step of handler c that neither sends nor gives back its mail: it owes no
\* more than before, or a fault happened.
LEMMA HandlerAside ==
  ASSUME MailInv, MailInv', CountInv, NEW c \in Consumers, NEW h, mh' = [mh EXCEPT ![c] = h],
         \A b \in Consumers \ {c} : b \in unacked' <=> b \in unacked,
         UNCHANGED <<sending, sent, ready>>, \A k \in Jobs : Exists(k)' <=> Exists(k),
         \/ faults' = faults /\ \A k \in Jobs : Owes(c, k)' => Owes(c, k)
         \/ faults' = faults + 1
  PROVE  CountInv'
  <1> SUFFICES ASSUME NEW k \in Jobs
               PROVE  sent'[k] + ready'[k] + Bit(Owes(c, k)') + faults
                           <= sent[k] + ready[k] + Bit(Owes(c, k)) + faults'
    BY OthersOwe, HandlerCounted
  <1> DEFINE s == sent[k]
             r == ready[k]
             s1 == sent'[k]
             r1 == ready'[k]
             b == Bit(Owes(c, k))
             d == Bit(Owes(c, k)')
             f == faults
             f1 == faults'
  <1>1. s \in Nat /\ r \in Nat /\ s1 = s /\ r1 = r /\ f \in Nat /\ f1 \in Nat
    BY HandlerTypes, MailSets DEF MailInv
  <1>2. (f1 = f /\ d <= b) \/ f1 = f + 1
    BY DEF Bit
  <1>3. b \in Nat /\ d \in Nat /\ d <= 1
    BY DEF Bit
  <1> HIDE DEF s, r, s1, r1, b, d, f, f1
  <1>4. s1 + r1 + d + f <= s + r + b + f1
    BY <1>1, <1>2, <1>3
  <1> QED
    BY <1>4 DEF s, r, s1, r1, b, d, f, f1

LEMMA LoadMailCount ==
  ASSUME MailInv, MailInv', CountInv, NEW c \in Consumers, LoadMail(c)
  PROVE  CountInv'
  <1>0. PICK k \in Jobs : Take(c, k) /\ \E h : mh' = [mh EXCEPT ![c] = h] /\ h.key = k
    BY DEF LoadMail
  <1>1. PICK h : Take(c, k) /\ mh' = [mh EXCEPT ![c] = h] /\ h.key = k
    BY <1>0
  <1>2. /\ mh[c].pc = "idle" /\ UNCHANGED <<mail, sent, asked, sending, faults>>
        /\ ready[k] > 0 /\ ready' = [ready EXCEPT ![k] = ready[k] - 1]
        /\ unacked' = unacked \cup {c}
    BY <1>1 DEF LoadMail, Mailing, mailRows, Take
  <1>3. mh'[c] = h /\ \A b \in Consumers \ {c} : \A l \in Jobs : Owes(b, l)' <=> Owes(b, l)
    BY <1>1, <1>2, OthersOwe
  <1>4. \A l \in Jobs : Exists(l)' <=> Exists(l)
    BY <1>2 DEF Exists
  <1> SUFFICES ASSUME NEW l \in Jobs
               PROVE  sent'[l] + ready'[l] + Bit(Owes(c, l)') + faults
                           <= sent[l] + ready[l] + Bit(Owes(c, l)) + faults'
    BY <1>2, <1>3, <1>4, HandlerCounted
  <1> DEFINE s == sent[l]
             r == ready[l]
             r1 == ready'[l]
             d == Bit(Owes(c, l)')
             u == Bit(l = k)
  <1>5. Bit(Owes(c, l)) = 0 /\ d <= u /\ d \in Nat /\ u \in Nat
    BY <1>1, <1>2, <1>3 DEF Owes, Bit
  <1>6. r1 + u = r
    <2> DEFINE n == ready[k] - 1
    <2>1. ready' = [ready EXCEPT ![k] = n]
      BY <1>2
    <2> HIDE DEF n
    <2>2. r1 = IF l = k THEN n ELSE r
      BY <2>1, HandlerTypes
    <2>3. CASE l = k
      BY <1>2, <2>2, <2>3, HandlerTypes DEF Bit, n
    <2>4. CASE l # k
      BY <2>2, <2>4, HandlerTypes DEF Bit
    <2> QED
      BY <2>3, <2>4
  <1>7. s \in Nat /\ r \in Nat /\ r1 \in Nat /\ faults \in Nat /\ sent'[l] = s /\ faults' = faults
    BY <1>2, HandlerTypes, MailSets DEF MailInv, MailTypeOK, QueueTypeOK
  <1> HIDE DEF s, r, r1, d, u
  <1>8. s + r1 + d + faults <= s + r + 0 + faults
    BY <1>5, <1>6, <1>7
  <1> QED
    BY <1>5, <1>7, <1>8 DEF s, r, r1, d

LEMMA MailAcceptedCount ==
  ASSUME MailInv, MailInv', CountInv, NEW c \in Consumers, MailAccepted(c)
  PROVE  CountInv'
  <1> DEFINE h == [mh[c] EXCEPT !.pc = "save", !.copy.st = "delivered"]
             k == mh[c].key
  <1>1. /\ mh[c].pc = "send" /\ sent' = [sent EXCEPT ![k] = sent[k] + 1]
        /\ mh' = [mh EXCEPT ![c] = h]
        /\ UNCHANGED <<ready, unacked, consuming, mail, asked, sending, faults>>
    BY DEF MailAccepted, Mailing, queueVars
  <1>2. h.pc = "save" /\ h.copy.st = "delivered"
    BY HandlerTypes, AboutToSave
  <1>3. mh'[c] = h /\ \A b \in Consumers \ {c} : \A l \in Jobs : Owes(b, l)' <=> Owes(b, l)
    BY <1>1, OthersOwe
  <1>4. \A l \in Jobs : Exists(l)' <=> Exists(l)
    BY <1>1 DEF Exists
  <1> SUFFICES ASSUME NEW l \in Jobs
               PROVE  sent'[l] + ready'[l] + Bit(Owes(c, l)') + faults
                           <= sent[l] + ready[l] + Bit(Owes(c, l)) + faults'
    BY <1>1, <1>3, <1>4, HandlerCounted
  <1> HIDE DEF h
  <1> DEFINE s == sent[l]
             r == ready[l]
             s1 == sent'[l]
             u == Bit(l = k)
  <1>5. Bit(Owes(c, l)) = u /\ Bit(Owes(c, l)') = 0 /\ u \in Nat
    BY <1>1, <1>2, <1>3 DEF Owes, Bit
  <1>6. s1 = s + u
    <2> DEFINE n == sent[k] + 1
    <2>1. sent' = [sent EXCEPT ![k] = n]
      BY <1>1
    <2> HIDE DEF n
    <2>2. s1 = IF l = k THEN n ELSE s
      BY <2>1, HandlerTypes
    <2>3. CASE l = k
      BY <1>1, <2>2, <2>3, HandlerTypes DEF Bit, n
    <2>4. CASE l # k
      BY <2>2, <2>4, HandlerTypes DEF Bit
    <2> QED
      BY <2>3, <2>4
  <1>7. s \in Nat /\ r \in Nat /\ s1 \in Nat /\ faults \in Nat /\ ready'[l] = r /\ faults' = faults
    BY <1>1, HandlerTypes, MailSets DEF MailInv, MailTypeOK, QueueTypeOK
  <1> HIDE DEF s, r, s1, u
  <1>8. s1 + r + 0 + faults <= s + r + u + faults
    BY <1>5, <1>6, <1>7
  <1> QED
    BY <1>5, <1>7, <1>8 DEF s, r, s1

LEMMA MailRefusedCount ==
  ASSUME MailInv, MailInv', CountInv, NEW c \in Consumers, MailRefused(c) \/ MailerFails(c)
  PROVE  CountInv'
  <1>1. PICK h : mh' = [mh EXCEPT ![c] = h]
    BY DEF MailRefused, MailerFails
  <1>2. UNCHANGED <<ready, unacked, mail, sent, sending>> /\ faults' = faults + 1
    BY DEF MailRefused, MailerFails, Fault, queueVars, mailRows
  <1>3. \A l \in Jobs : Exists(l)' <=> Exists(l)
    BY <1>2 DEF Exists
  <1> QED
    BY <1>1, <1>2, <1>3, HandlerAside

LEMMA SaveMailCount ==
  ASSUME MailInv, MailInv', CountInv, NEW c \in Consumers, SaveMail(c)
  PROVE  CountInv'
  <1> DEFINE pc == IF mh[c].copy.st = "failed" THEN "requeue" ELSE "ack"
             h == [mh[c] EXCEPT !.pc = pc]
             k == mh[c].key
  <1>1. /\ mh[c].pc = "save" /\ mh' = [mh EXCEPT ![c] = h]
        /\ mail' = [mail EXCEPT ![k] = mh[c].copy]
        /\ UNCHANGED <<ready, unacked, sent, sending, faults>>
    BY DEF SaveMail, Mailing, queueVars
  <1>2. pc \in {"idle", "send", "save", "ack", "requeue"}
    OBVIOUS
  <1>3. h.pc = pc /\ h.key = k
    <2> HIDE DEF pc
    <2> QED
      BY <1>2, HandlerTypes, AnotherPc
  <1>4. /\ k \in Jobs /\ mh[c].copy.st # "none" /\ Exists(k)
    BY <1>1, HandlerTypes DEF HandlerInv
  <1>5. \A l \in Jobs : Exists(l)' <=> Exists(l)
    <2> DEFINE r == mh[c].copy
    <2>1. mail' = [mail EXCEPT ![k] = r] /\ r.st # "none"
      BY <1>1, <1>4
    <2> HIDE DEF r, k
    <2>2. \A l \in Jobs : mail'[l] = IF l = k THEN r ELSE mail[l]
      BY <2>1, HandlerTypes
    <2> QED
      BY <1>4, <2>1, <2>2 DEF Exists
  <1>6. mh'[c] = h
    BY <1>1, HandlerTypes
  <1> HIDE DEF h
  <1>7. \A l \in Jobs : Owes(c, l)' => Owes(c, l)
    BY <1>1, <1>3, <1>6 DEF Owes
  <1> QED
    BY <1>1, <1>5, <1>7, HandlerAside

LEMMA MailerRestartsCount ==
  ASSUME MailInv, MailInv', CountInv, NEW c \in Consumers, MailerRestarts(c)
  PROVE  CountInv'
  <1>1. /\ UNCHANGED <<ready, unacked, mail, sent, sending, faults>>
        /\ mh' = [mh EXCEPT ![c] = IdleMailer]
    BY DEF MailerRestarts, Reattach, mailRows
  <1>2. mh'[c] = IdleMailer
    BY <1>1, HandlerTypes
  <1>3. \A l \in Jobs : (Exists(l)' <=> Exists(l)) /\ (Owes(c, l)' => Owes(c, l))
    BY <1>1, <1>2, MailFacts DEF Exists, Owes
  <1> QED
    BY <1>1, <1>3, HandlerAside

\* What the queue holds of mail l after the message of consumer c went back.
LEMMA RequeuedCount ==
  ASSUME MailInv, NEW c \in Consumers, NEW l \in Jobs, ready' = Requeued(c, mh[c].key)
  PROVE  ready'[l] = ready[l] + Bit(c \in unacked /\ l = mh[c].key)
  <1> DEFINE k == mh[c].key
             n == ready[k] + 1
  <1>1. CASE c \in unacked
    <2>1. ready' = [ready EXCEPT ![k] = n] /\ k \in Jobs
      BY <1>1, HandlerTypes DEF Requeued, HandlerInv
    <2> HIDE DEF n
    <2>2. ready'[l] = IF l = k THEN n ELSE ready[l]
      BY <2>1, HandlerTypes
    <2>3. CASE l = k
      BY <1>1, <2>2, <2>3, HandlerTypes DEF Bit, n
    <2>4. CASE l # k
      BY <1>1, <2>2, <2>4, HandlerTypes DEF Bit
    <2> QED
      BY <2>3, <2>4
  <1>2. CASE c \notin unacked
    BY <1>2, HandlerTypes DEF Requeued, Bit
  <1> QED
    BY <1>1, <1>2

LEMMA MailerDisconnectsCount ==
  ASSUME MailInv, MailInv', CountInv, NEW c \in Consumers, MailerDisconnects(c)
  PROVE  CountInv'
  <1>1. /\ UNCHANGED <<mail, sent, asked, sending, mh>> /\ faults' = faults + 1
        /\ unacked' = unacked \ {c} /\ ready' = Requeued(c, mh[c].key)
    BY DEF MailerDisconnects, Fault, Disconnect, mailRows
  <1>2. \A b \in Consumers \ {c} : \A l \in Jobs : Owes(b, l)' <=> Owes(b, l)
    BY <1>1 DEF Owes
  <1>3. \A l \in Jobs : Exists(l)' <=> Exists(l)
    BY <1>1 DEF Exists
  <1> SUFFICES ASSUME NEW l \in Jobs
               PROVE  sent'[l] + ready'[l] + Bit(Owes(c, l)') + faults
                           <= sent[l] + ready[l] + Bit(Owes(c, l)) + faults'
    BY <1>1, <1>2, <1>3, HandlerCounted
  <1> DEFINE s == sent[l]
             r == ready[l]
             u == Bit(c \in unacked /\ l = mh[c].key)
             b == Bit(Owes(c, l))
             d == Bit(Owes(c, l)')
  <1>4. ready'[l] = r + u
    BY <1>1, RequeuedCount
  <1>5. u \in Nat /\ u <= 1 /\ b \in Nat /\ d \in Nat /\ d <= b
    BY <1>1 DEF Owes, Bit
  <1>6. s \in Nat /\ r \in Nat /\ faults \in Nat /\ sent'[l] = s /\ faults' = faults + 1
    BY <1>1, HandlerTypes, MailSets DEF MailInv
  <1> HIDE DEF s, r, u, b, d
  <1>7. s + (r + u) + d + faults <= s + r + b + (faults + 1)
    BY <1>5, <1>6
  <1> QED
    BY <1>4, <1>6, <1>7 DEF s, r, b, d

LEMMA FinishMailCount ==
  ASSUME MailInv, MailInv', CountInv, NEW c \in Consumers, FinishMail(c)
  PROVE  CountInv'
  <1>1. /\ mh' = [mh EXCEPT ![c] = IdleMailer]
        /\ UNCHANGED <<mail, sent, asked, sending, faults, consuming>>
        /\ unacked' = unacked \ {c}
        /\ \/ ready' = ready
           \/ mh[c].pc = "requeue" /\ ready' = Requeued(c, mh[c].key)
    BY DEF FinishMail, Mailing, mailRows, Ack, Nack
  <1>2. mh'[c] = IdleMailer /\ \A b \in Consumers \ {c} : \A l \in Jobs : Owes(b, l)' <=> Owes(b, l)
    BY <1>1, OthersOwe
  <1>3. \A l \in Jobs : Exists(l)' <=> Exists(l)
    BY <1>1 DEF Exists
  <1> SUFFICES ASSUME NEW l \in Jobs
               PROVE  sent'[l] + ready'[l] + Bit(Owes(c, l)') + faults
                           <= sent[l] + ready[l] + Bit(Owes(c, l)) + faults'
    BY <1>1, <1>2, <1>3, HandlerCounted
  <1> DEFINE s == sent[l]
             r == ready[l]
             r1 == ready'[l]
             u == Bit(c \in unacked /\ l = mh[c].key)
             b == Bit(Owes(c, l))
  <1>4. Bit(Owes(c, l)') = 0 /\ b \in Nat /\ u \in Nat
    BY <1>2, MailFacts DEF Owes, Bit
  <1>5. r1 <= r + b
    <2>0. r \in Nat
      BY HandlerTypes
    <2>1. CASE ready' = ready
      BY <1>4, <2>0, <2>1
    <2>2. CASE mh[c].pc = "requeue" /\ ready' = Requeued(c, mh[c].key)
      <3>1. r1 = r + u
        BY <2>2, RequeuedCount
      <3>2. u <= b
        BY <2>2 DEF Owes, Bit
      <3> QED
        BY <1>4, <2>0, <3>1, <3>2
    <2> QED
      BY <1>1, <2>1, <2>2
  <1>6. /\ s \in Nat /\ r \in Nat /\ r1 \in Nat /\ faults \in Nat /\ sent'[l] = s
        /\ faults' = faults
    BY <1>1, HandlerTypes, MailSets DEF MailInv, MailTypeOK, QueueTypeOK
  <1> HIDE DEF s, r, r1, u, b
  <1>7. s + r1 + 0 + faults <= s + r + b + faults
    BY <1>4, <1>5, <1>6
  <1> QED
    BY <1>4, <1>6, <1>7 DEF s, r, r1, b

LEMMA MailerCount ==
  ASSUME MailInv, MailInv', CountInv, NEW c \in Consumers, Mailer(c)
  PROVE  CountInv'
  BY LoadMailCount, MailAcceptedCount, SaveMailCount, FinishMailCount, MailRefusedCount,
     MailerDisconnectsCount, MailerRestartsCount DEF Mailer, MailStep

\* Whatever happens elsewhere, with a fault or without.
LEMMA CountUntouched ==
  ASSUME MailInv, MailInv', CountInv, UNCHANGED <<ready, unacked, mail, sending, mh, sent>>,
         faults <= faults'
  PROVE  CountInv'
  <1> SUFFICES ASSUME NEW k \in Jobs
               PROVE  sent'[k] + ready'[k] + Cardinality(Working(k)') + Cardinality(Publishing(k)')
                        + Bit(~Exists(k)') <= 1 + faults'
    BY DEF CountInv
  <1> DEFINE n == sent[k] + ready[k] + Cardinality(Working(k)) + Cardinality(Publishing(k))
                    + Bit(~Exists(k))
  <1>1. Working(k)' = Working(k) /\ Publishing(k)' = Publishing(k) /\ (Exists(k)' <=> Exists(k))
    BY DEF Working, Owes, Publishing, Publishes, Exists
  <1>2. sent'[k] + ready'[k] + Cardinality(Working(k)') + Cardinality(Publishing(k)')
          + Bit(~Exists(k)') = n
    BY <1>1 DEF Bit
  <1>3. n \in Nat /\ n <= 1 + faults /\ faults \in Nat /\ faults' \in Nat
    <2>1. sent[k] \in Nat /\ ready[k] \in Nat /\ Bit(~Exists(k)) \in Nat
      BY MailSets DEF MailInv, Bit
    <2> QED
      BY <2>1, CountsInNat, MailSets DEF CountInv, MailInv, MailTypeOK
  <1>4. n <= 1 + faults'
    <2> HIDE DEF n
    <2>1. \A x, y, z \in Nat : x <= 1 + y /\ y <= z => x <= 1 + z
      OBVIOUS
    <2> QED
      BY <1>3, <2>1
  <1> QED
    BY <1>2, <1>4
-----------------------------------------------------------------------------
(* Mails: without faults none is left behind.                              *)

Sends(c, k) == mh[c].pc = "send" /\ mh[c].key = k

Carried(k) ==
    \/ sent[k] > 0 \/ ready[k] > 0
    \/ \E w \in Senders : Publishes(w, k)
    \/ \E c \in Consumers : Sends(c, k)

Quiet(c) == mh[c].pc # "requeue" /\ (mh[c].pc = "save" => mh[c].copy.st # "failed")

QuietInv ==
    faults = 0 =>
        /\ consuming = Consumers
        /\ \A c \in Consumers : Quiet(c)
        /\ \A k \in Jobs : Exists(k) => Carried(k)

LEMMA QuietInit == ASSUME MailInit PROVE QuietInv
  BY MailFacts DEF MailInit, QueueInit, QuietInv, Quiet, Exists

LEMMA NoFaultYet == ASSUME MailInv, Fault PROVE faults' # 0
  BY MailSets DEF Fault, MailInv

LEMMA QuietUntouched ==
  ASSUME QuietInv, UNCHANGED <<ready, consuming, mail, sending, mh, sent>>,
         faults' = 0 => faults = 0
  PROVE  QuietInv'
  BY DEF QuietInv, Quiet, Exists, Carried, Publishes, Sends

\* A step of sender w without a fault, which publishes or was not about to.
LEMMA SenderQuiet ==
  ASSUME MailInv, QuietInv, NEW w \in Senders, UNCHANGED <<mh, consuming, sent>>,
         faults' = 0 => faults = 0,
         \A v \in Senders \ {w} : sending'[v] = sending[v],
         ready' \in [Jobs -> Nat], \A k \in Jobs : ready[k] > 0 => ready'[k] > 0,
         \A k \in Jobs : Publishes(w, k) => ready'[k] > 0,
         \A k \in Jobs : Exists(k)' => Exists(k) \/ Publishes(w, k)'
  PROVE  QuietInv'
  <1> SUFFICES ASSUME faults' = 0
               PROVE  /\ consuming' = Consumers
                      /\ \A c \in Consumers : Quiet(c)'
                      /\ \A k \in Jobs : Exists(k)' => Carried(k)'
    BY DEF QuietInv
  <1>1. /\ consuming = Consumers /\ \A c \in Consumers : Quiet(c)
        /\ \A k \in Jobs : Exists(k) => Carried(k)
    BY DEF QuietInv
  <1>2. ASSUME NEW k \in Jobs, Exists(k)' PROVE Carried(k)'
    <2>1. CASE Publishes(w, k)'
      BY <2>1 DEF Carried, Publishes
    <2>2. CASE Exists(k)
      <3>1. Carried(k)
        BY <1>1, <2>2
      <3>2. CASE sent[k] > 0 \/ ready[k] > 0
        BY <3>2 DEF Carried
      <3>3. ASSUME NEW v \in Senders, Publishes(v, k) PROVE Carried(k)'
        <4>1. CASE v = w
          BY <3>3, <4>1 DEF Carried
        <4>2. CASE v # w
          BY <3>3, <4>2 DEF Carried, Publishes
        <4> QED
          BY <4>1, <4>2
      <3>4. ASSUME NEW c \in Consumers, Sends(c, k) PROVE Carried(k)'
        BY <3>4 DEF Carried, Sends
      <3> QED
        BY <3>1, <3>2, <3>3, <3>4 DEF Carried
    <2> QED
      BY <1>2, <2>1, <2>2
  <1> QED
    BY <1>1, <1>2 DEF Quiet

LEMMA ToCheckQuiet ==
  ASSUME MailInv, QuietInv, NEW w \in Senders, NEW k \in Jobs, ToCheck(w, k),
         sending[w].pc = "idle", UNCHANGED <<queueVars, mailRows, mh, faults>>
  PROVE  QuietInv'
  <1>1. /\ \E j : sending' = [sending EXCEPT ![w] = j]
        /\ UNCHANGED <<mh, consuming, sent, ready, mail, faults>>
    BY DEF ToCheck, queueVars, mailRows
  <1>2. \A v \in Senders \ {w} : sending'[v] = sending[v]
    BY <1>1, SenderOthers
  <1>3. ready' \in [Jobs -> Nat]
    BY <1>1, MailSets DEF MailInv
  <1>4. \A l \in Jobs : ~Publishes(w, l) /\ (Exists(l)' <=> Exists(l))
    BY <1>1 DEF Publishes, Exists
  <1> QED
    BY <1>1, <1>2, <1>3, <1>4, SenderQuiet

LEMMA SenderStepQuiet ==
  ASSUME MailInv, QuietInv, NEW w \in Senders, Sender(w)
  PROVE  QuietInv'
  <1> DEFINE k == sending[w].key
  <1>0. /\ SenderInv(w) /\ ready \in [Jobs -> Nat] /\ mail \in [Jobs -> Mail]
        /\ sending \in [Senders -> SenderRecord]
    BY MailSets DEF MailInv
  <1>1. CASE AlreadyEnqueued(w) \/ CreateRefused(w)
    <2>1. /\ sending' = [sending EXCEPT ![w] = NotSending]
          /\ UNCHANGED <<mh, consuming, sent, ready, mail, faults>>
          /\ sending[w].pc # "publish"
      BY <1>1 DEF AlreadyEnqueued, CreateRefused, Return, queueVars, mailRows
    <2>2. \A v \in Senders \ {w} : sending'[v] = sending[v]
      BY <2>1, SenderOthers
    <2>3. \A l \in Jobs : ~Publishes(w, l) /\ (Exists(l)' <=> Exists(l))
      BY <2>1 DEF Publishes, Exists
    <2> QED
      BY <1>0, <2>1, <2>2, <2>3, SenderQuiet
  <1>2. CASE NotEnqueued(w)
    <2>1. /\ sending' = [sending EXCEPT ![w].pc = "create"]
          /\ UNCHANGED <<mh, consuming, sent, ready, mail, faults>>
          /\ sending[w].pc # "publish"
      BY <1>2 DEF NotEnqueued, Continue, queueVars, mailRows
    <2>2. \A v \in Senders \ {w} : sending'[v] = sending[v]
      BY <2>1, SenderPc
    <2>3. \A l \in Jobs : ~Publishes(w, l) /\ (Exists(l)' <=> Exists(l))
      BY <2>1 DEF Publishes, Exists
    <2> QED
      BY <1>0, <2>1, <2>2, <2>3, SenderQuiet
  <1>3. CASE CreateMail(w)
    <2>1. /\ sending[w].pc = "create" /\ sending' = [sending EXCEPT ![w].pc = "publish"]
          /\ UNCHANGED <<mh, consuming, sent, ready, faults>>
          /\ mail' = [mail EXCEPT ![k] = [st |-> "pending", attempts |-> 0]]
      BY <1>3 DEF CreateMail, Continue, queueVars
    <2>2. /\ sending'[w].pc = "publish" /\ sending'[w].key = k
          /\ \A v \in Senders \ {w} : sending'[v] = sending[v]
      BY <2>1, SenderPc
    <2>3. \A l \in Jobs : l # k => mail'[l] = mail[l]
      BY <1>0, <2>1
    <2>4. \A l \in Jobs : ~Publishes(w, l) /\ (Exists(l)' => Exists(l) \/ Publishes(w, l)')
      BY <2>1, <2>2, <2>3 DEF Publishes, Exists
    <2> HIDE DEF k
    <2> QED
      BY <1>0, <2>1, <2>2, <2>4, SenderQuiet
  <1>4. CASE PublishMail(w)
    <2>1. /\ sending' = [sending EXCEPT ![w] = NotSending]
          /\ UNCHANGED <<mh, consuming, sent, mail, faults>>
          /\ ready' = [ready EXCEPT ![k] = ready[k] + 1]
          /\ sending[w].pc = "publish"
      BY <1>4 DEF PublishMail, Return, Publish
    <2>2. \A v \in Senders \ {w} : sending'[v] = sending[v]
      BY <2>1, SenderOthers
    <2>3. k \in Jobs
      BY <1>0, <2>1 DEF SenderInv
    <2> DEFINE n == ready[k] + 1
    <2>4. n \in Nat /\ n > 0 /\ ready' = [ready EXCEPT ![k] = n]
      BY <1>0, <2>1, <2>3
    <2> HIDE DEF n
    <2>5. ready' \in [Jobs -> Nat] /\ \A l \in Jobs : ready'[l] = IF l = k THEN n ELSE ready[l]
      BY <1>0, <2>3, <2>4
    <2>6. \A l \in Jobs : (Publishes(w, l) => l = k) /\ (Exists(l)' <=> Exists(l))
      BY <2>1 DEF Publishes, Exists
    <2> HIDE DEF k
    <2> QED
      BY <2>1, <2>2, <2>4, <2>5, <2>6, SenderQuiet
  <1>5. CASE SenderFails(w)
    BY <1>5, NoFaultYet DEF SenderFails, QuietInv
  <1> QED
    BY <1>1, <1>2, <1>3, <1>4, <1>5 DEF Sender, EnqueueStep

\* A step of handler c without a fault: a mail it was to send is sent.
LEMMA HandlerQuiet ==
  ASSUME MailInv, QuietInv, NEW c \in Consumers, UNCHANGED <<sending, faults, consuming>>,
         \A b \in Consumers \ {c} : mh'[b] = mh[b],
         Quiet(c)',
         \A k \in Jobs : Exists(k)' => Exists(k),
         \A k \in Jobs : sent[k] > 0 => sent'[k] > 0,
         \A k \in Jobs : Sends(c, k) => sent'[k] > 0,
         \A k \in Jobs : ready[k] > 0 => ready'[k] > 0 \/ sent'[k] > 0 \/ Sends(c, k)'
  PROVE  QuietInv'
  <1> SUFFICES ASSUME faults' = 0
               PROVE  /\ consuming' = Consumers
                      /\ \A b \in Consumers : Quiet(b)'
                      /\ \A k \in Jobs : Exists(k)' => Carried(k)'
    BY DEF QuietInv
  <1>1. /\ consuming = Consumers /\ \A b \in Consumers : Quiet(b)
        /\ \A k \in Jobs : Exists(k) => Carried(k)
    BY DEF QuietInv
  <1>2. ASSUME NEW k \in Jobs, Exists(k)' PROVE Carried(k)'
    <2>1. Carried(k)
      BY <1>1, <1>2
    <2>2. CASE sent[k] > 0
      BY <2>2 DEF Carried
    <2>3. CASE ready[k] > 0
      BY <2>3 DEF Carried
    <2>4. ASSUME NEW v \in Senders, Publishes(v, k) PROVE Carried(k)'
      BY <2>4 DEF Carried, Publishes
    <2>5. ASSUME NEW b \in Consumers, Sends(b, k) PROVE Carried(k)'
      <3>1. CASE b = c
        BY <2>5, <3>1 DEF Carried
      <3>2. CASE b # c
        BY <2>5, <3>2 DEF Carried, Sends
      <3> QED
        BY <3>1, <3>2
    <2> QED
      BY <2>1, <2>2, <2>3, <2>4, <2>5 DEF Carried
  <1>3. ASSUME NEW b \in Consumers PROVE Quiet(b)'
    <2>1. CASE b = c
      BY <2>1
    <2>2. CASE b # c
      BY <1>1, <2>2 DEF Quiet
    <2> QED
      BY <2>1, <2>2
  <1> QED
    BY <1>1, <1>2, <1>3

LEMMA LoadMailQuiet ==
  ASSUME MailInv, QuietInv, NEW c \in Consumers, LoadMail(c)
  PROVE  QuietInv'
  <1>0. PICK k \in Jobs :
          /\ Take(c, k)
          /\ mh' = [mh EXCEPT ![c] =
                      [pc |-> IF mail[k].st = "delivered" THEN "ack" ELSE "send", key |-> k,
                       copy |-> [mail[k] EXCEPT !.attempts = mail[k].attempts + 1]]]
    BY DEF LoadMail
  <1> DEFINE m == [mail[k] EXCEPT !.attempts = mail[k].attempts + 1]
             h == [pc |-> IF mail[k].st = "delivered" THEN "ack" ELSE "send", key |-> k,
                   copy |-> m]
  <1>1. /\ Take(c, k) /\ mh' = [mh EXCEPT ![c] = h] /\ h.key = k
        /\ h.pc = IF mail[k].st = "delivered" THEN "ack" ELSE "send"
    <2>1. mh' = [mh EXCEPT ![c] = h]
      BY <1>0
    <2> HIDE DEF m
    <2> QED
      BY <1>0, <2>1
  <1> HIDE DEF h
  <1>2. /\ mh[c].pc = "idle" /\ UNCHANGED <<mail, sent, sending, faults, consuming>>
        /\ ready' = [ready EXCEPT ![k] = ready[k] - 1]
    BY <1>1 DEF LoadMail, Mailing, mailRows, Take
  <1>3. mh'[c] = h /\ \A b \in Consumers \ {c} : mh'[b] = mh[b]
    BY <1>1, HandlerTypes
  <1>4. \A l \in Jobs : l # k => ready'[l] = ready[l]
    BY <1>2, HandlerTypes
  <1>5. Quiet(c)'
    BY <1>1, <1>3 DEF Quiet
  <1>6. \A l \in Jobs : ~Sends(c, l) /\ (Exists(l)' => Exists(l)) /\ (sent[l] > 0 => sent'[l] > 0)
    BY <1>2 DEF Sends, Exists
  <1>7. sent'[k] > 0 \/ Sends(c, k)'
    <2>1. CASE mail[k].st = "delivered"
      BY <1>2, <2>1, HandlerTypes DEF RowInv
    <2>2. CASE mail[k].st # "delivered"
      BY <1>1, <1>3, <2>2 DEF Sends
    <2> QED
      BY <2>1, <2>2
  <1>8. \A l \in Jobs : ready[l] > 0 => ready'[l] > 0 \/ sent'[l] > 0 \/ Sends(c, l)'
    BY <1>4, <1>7
  <1> QED
    BY <1>2, <1>3, <1>5, <1>6, <1>8, HandlerQuiet

LEMMA MailStepQuiet ==
  ASSUME MailInv, MailInv', QuietInv, NEW c \in Consumers, MailStep(c)
  PROVE  QuietInv'
  <1>1. CASE MailAccepted(c)
    <2> DEFINE h == [mh[c] EXCEPT !.pc = "save", !.copy.st = "delivered"]
               k == mh[c].key
    <2>1. /\ mh[c].pc = "send" /\ sent' = [sent EXCEPT ![k] = sent[k] + 1]
          /\ mh' = [mh EXCEPT ![c] = h]
          /\ UNCHANGED <<ready, consuming, mail, sending, faults>>
      BY <1>1 DEF MailAccepted, Mailing, queueVars
    <2>2. h.pc = "save" /\ h.copy.st = "delivered"
      BY HandlerTypes, AboutToSave
    <2>3. k \in Jobs
      BY <2>1, HandlerTypes
    <2> HIDE DEF h
    <2>4. mh'[c] = h /\ \A b \in Consumers \ {c} : mh'[b] = mh[b]
      BY <2>1, HandlerTypes
    <2>5. Quiet(c)'
      BY <2>2, <2>4 DEF Quiet
    <2> DEFINE n == sent[k] + 1
    <2>6. n > 0 /\ sent' = [sent EXCEPT ![k] = n]
      BY <2>1, <2>3, HandlerTypes
    <2> HIDE DEF n
    <2>7. \A l \in Jobs : sent'[l] = IF l = k THEN n ELSE sent[l]
      BY <2>6, HandlerTypes
    <2>8. \A l \in Jobs : /\ (Exists(l)' => Exists(l)) /\ (Sends(c, l) => l = k)
                          /\ ready'[l] = ready[l]
      BY <2>1 DEF Exists, Sends
    <2> HIDE DEF k
    <2> QED
      BY <2>1, <2>4, <2>5, <2>6, <2>7, <2>8, HandlerQuiet
  <1>2. CASE SaveMail(c)
    <2>0. CASE faults # 0
      BY <1>2, <2>0 DEF SaveMail, QuietInv
    <2> SUFFICES ASSUME faults = 0 PROVE QuietInv'
      BY <2>0
    <2> DEFINE pc == IF mh[c].copy.st = "failed" THEN "requeue" ELSE "ack"
               h == [mh[c] EXCEPT !.pc = pc]
               k == mh[c].key
    <2>1. /\ mh[c].pc = "save" /\ mh' = [mh EXCEPT ![c] = h]
          /\ mail' = [mail EXCEPT ![k] = mh[c].copy]
          /\ UNCHANGED <<ready, consuming, sent, sending, faults>>
      BY <1>2 DEF SaveMail, Mailing, queueVars
    <2>2. pc = "ack"
      BY <2>1 DEF QuietInv, Quiet
    <2>3. h.pc = "ack"
      <3> HIDE DEF pc
      <3> QED
        BY <2>2, HandlerTypes, AnotherPc
    <2> HIDE DEF h
    <2>4. mh'[c] = h /\ \A b \in Consumers \ {c} : mh'[b] = mh[b]
      BY <2>1, HandlerTypes
    <2>5. Quiet(c)'
      BY <2>3, <2>4 DEF Quiet
    <2>6. k \in Jobs /\ Exists(k)
      BY <2>1, HandlerTypes DEF HandlerInv
    <2>7. \A l \in Jobs : l # k => mail'[l] = mail[l]
      BY <2>1, HandlerTypes
    <2>8. \A l \in Jobs : /\ (Exists(l)' => Exists(l)) /\ ~Sends(c, l)
                          /\ ready'[l] = ready[l] /\ sent'[l] = sent[l]
      BY <2>1, <2>6, <2>7 DEF Exists, Sends
    <2> QED
      BY <2>1, <2>4, <2>5, <2>8, HandlerQuiet
  <1>3. CASE FinishMail(c)
    <2>0. CASE faults # 0
      BY <1>3, <2>0 DEF FinishMail, QuietInv
    <2> SUFFICES ASSUME faults = 0 PROVE QuietInv'
      BY <2>0
    <2>1. mh[c].pc # "requeue"
      BY DEF QuietInv, Quiet
    <2>2. /\ mh[c].pc = "ack" /\ mh' = [mh EXCEPT ![c] = IdleMailer]
          /\ UNCHANGED <<mail, sent, sending, faults, consuming, ready>>
      BY <1>3, <2>1 DEF FinishMail, Mailing, mailRows, Ack
    <2>3. mh'[c] = IdleMailer /\ \A b \in Consumers \ {c} : mh'[b] = mh[b]
      BY <2>2, HandlerTypes
    <2>4. Quiet(c)'
      BY <2>3, MailFacts DEF Quiet
    <2>5. \A l \in Jobs : (Exists(l)' => Exists(l)) /\ ~Sends(c, l)
      BY <2>2 DEF Exists, Sends
    <2> QED
      BY <2>2, <2>3, <2>4, <2>5, HandlerQuiet
  <1> QED
    BY <1>1, <1>2, <1>3 DEF MailStep

LEMMA MailerQuiet ==
  ASSUME MailInv, MailInv', QuietInv, NEW c \in Consumers, Mailer(c)
  PROVE  QuietInv'
  <1>1. CASE MailRefused(c) \/ MailerFails(c) \/ MailerDisconnects(c)
    BY <1>1, NoFaultYet DEF MailRefused, MailerFails, MailerDisconnects, QuietInv
  <1>2. CASE MailerRestarts(c)
    <2>1. c \notin consuming /\ faults' = faults
      BY <1>2 DEF MailerRestarts, Reattach
    <2>2. faults # 0
      BY <2>1 DEF QuietInv
    <2> QED
      BY <2>1, <2>2 DEF QuietInv
  <1> QED
    BY <1>1, <1>2, LoadMailQuiet, MailStepQuiet DEF Mailer
-----------------------------------------------------------------------------
(* The parts together.                                                     *)

MailsInv == MailInv /\ CountInv /\ QuietInv

AccountsInv ==
    /\ surface \in Surfaces
    /\ MailsInv /\ PortalInv /\ CustomerInv /\ MerchantInv

LEMMA AccountsInit == Init => AccountsInv
  BY MailInitInv, CountInit, QuietInit, PortalInitInv, CustomerInitInv, MerchantInitInv
  DEF Init, AccountsInv, MailsInv

\* Mails while sessions or nothing changes.
LEMMA MailsStay ==
  ASSUME MailsInv, UNCHANGED <<ready, unacked, consuming, mail, sending, mh, sent, asked>>,
         faults' = faults \/ faults' = faults + 1
  PROVE  MailsInv'
  <1>1. faults \in Nat
    BY MailSets DEF MailsInv, MailInv
  <1>2. faults' \in Nat /\ faults <= faults' /\ (faults' = 0 => faults = 0)
    BY <1>1
  <1>3. MailInv'
    BY <1>2, MailsUntouched DEF MailsInv
  <1>4. CountInv'
    BY <1>2, <1>3, CountUntouched DEF MailsInv
  <1>5. QuietInv'
    BY <1>2, QuietUntouched DEF MailsInv
  <1> QED
    BY <1>3, <1>4, <1>5 DEF MailsInv

LEMMA AskedMail ==
  ASSUME MailsInv, NEW w \in Senders, NEW k \in Jobs, ToCheck(w, k), sending[w].pc = "idle",
         UNCHANGED <<queueVars, mailRows, mh, faults>>
  PROVE  MailsInv'
  <1>1. MailInv'
    BY ToCheckStep DEF MailsInv
  <1>2. CountInv'
    BY <1>1, ToCheckCount DEF MailsInv
  <1>3. QuietInv'
    BY ToCheckQuiet DEF MailsInv
  <1> QED
    BY <1>1, <1>2, <1>3 DEF MailsInv

LEMMA InitiatedMail == ASSUME MailsInv, NEW w \in Senders, InitiateSession(w) PROVE MailsInv'
  <1>1. Sessions \subseteq Jobs
    BY PortalAssumption DEF Sessions
  <1>2. /\ sending[w].pc = "idle"
        /\ \E s \in Sessions : ToCheck(w, s) /\ UNCHANGED <<queueVars, mailRows, mh, faults>>
    BY DEF InitiateSession
  <1> QED
    BY <1>1, <1>2, AskedMail

LEMMA PortalUntouched == ASSUME PortalInv, UNCHANGED portalVars PROVE PortalInv'
  <1>1. UNCHANGED <<now, session, trying, writes, stale, wrong, granted, verifies>>
    BY DEF portalVars, sessionHistory
  <1>2. now' \in Nat
    BY <1>1 DEF PortalInv, SessionTypes
  <1> QED
    BY <1>1, <1>2, ClockStep

LEMMA CustomersUntouched == ASSUME CustomerInv, UNCHANGED customerVars PROVE CustomerInv'
  BY CustomerStepInv

LEMMA MerchantUntouched == ASSUME MerchantInv, UNCHANGED tenantVars PROVE MerchantInv'
  <1>1. /\ UNCHANGED <<tenant, hashed, caller, told, void, disturbed, rivals, calls>>
        /\ Registered' = Registered /\ SigningUp' = SigningUp
    BY DEF tenantVars, answers, Registered, SigningUp
  <1>2. MerchantTypeOK'
    BY <1>1 DEF MerchantInv, MerchantTypeOK
  <1>3. \A c \in Callers : CallerInv(c)'
    BY <1>1 DEF MerchantInv, CallerInv
  <1>4. \A t \in Registered' : Agreed(t)'
    BY <1>1 DEF MerchantInv, Agreed
  <1>5. CallNumbers' /\ SecretsNew' /\ SignUps'
    BY <1>1 DEF MerchantInv, CallNumbers, SecretsNew, SignUps
  <1> QED
    BY <1>1, <1>2, <1>3, <1>4, <1>5 DEF MerchantInv

LEMMA MailsUntouchedByOthers == ASSUME MailsInv, UNCHANGED mailVars PROVE MailsInv'
  BY MailsStay DEF mailVars, queueVars, mailRows

LEMMA MailSurface == ASSUME AccountsInv, Mails PROVE AccountsInv'
  <1>1. UNCHANGED <<surface, customerVars, tenantVars>>
    BY DEF Mails, others
  <1>2. CASE \E w \in Senders : InitiateSession(w)
    BY <1>1, <1>2, InitiatedMail, InitiateSessionStep, CustomersUntouched, MerchantUntouched
    DEF AccountsInv
  <1>3. CASE /\ \/ \E w \in Senders : AskMail(w) \/ Sender(w)
                \/ \E c \in Consumers : Mailer(c)
             /\ UNCHANGED portalVars
    <2>1. ASSUME NEW w \in Senders, AskMail(w) PROVE MailsInv'
      BY <2>1, AskedMail DEF AskMail, AccountsInv
    <2>2. ASSUME NEW w \in Senders, Sender(w) PROVE MailsInv'
      BY <2>2, SenderStep, SenderCount, SenderStepQuiet DEF AccountsInv, MailsInv
    <2>3. ASSUME NEW c \in Consumers, Mailer(c) PROVE MailsInv'
      BY <2>3, MailerStep, MailerCount, MailerQuiet DEF AccountsInv, MailsInv
    <2> QED
      BY <1>1, <1>3, <2>1, <2>2, <2>3, PortalUntouched, CustomersUntouched, MerchantUntouched
      DEF AccountsInv
  <1> QED
    BY <1>2, <1>3 DEF Mails

LEMMA PortalSurface == ASSUME AccountsInv, Portal PROVE AccountsInv'
  <1>1. UNCHANGED <<surface, customerVars, tenantVars>>
    BY DEF Portal, others
  <1>2. PortalInv' /\ MailsInv'
    <2>1. CASE Tick
      BY <2>1, TickStep, MailsUntouchedByOthers DEF Tick, AccountsInv
    <2>2. ASSUME NEW w \in Senders, InitiateSession(w) PROVE PortalInv' /\ MailsInv'
      BY <2>2, InitiatedMail, InitiateSessionStep DEF AccountsInv
    <2>3. ASSUME NEW w \in Senders, SignIn(w) PROVE PortalInv' /\ MailsInv'
      <3>1. UNCHANGED mailVars \/ VerifyFails(w)
        BY <2>3 DEF SignIn, TryCode, WrongCode, RightCode
      <3>2. ASSUME VerifyFails(w) PROVE MailsInv'
        BY <3>2, MailsStay DEF VerifyFails, Fault, queueVars, mailRows, AccountsInv
      <3> QED
        BY <2>3, <3>1, <3>2, SignInStep, MailsUntouchedByOthers DEF AccountsInv
    <2> QED
      BY <2>1, <2>2, <2>3 DEF Portal
  <1> QED
    BY <1>1, <1>2, CustomersUntouched, MerchantUntouched DEF AccountsInv

LEMMA MerchantSurface == ASSUME AccountsInv, Merchant PROVE AccountsInv'
  <1>1. MerchantInv'
    BY RegisterCheckStep, RegisterStep, ReadTenantStep, StoreTenantStep, CallFailsStep
    DEF Merchant, MerchantNext, AccountsInv
  <1> QED
    BY <1>1, MailsUntouchedByOthers, PortalUntouched, CustomersUntouched DEF Merchant, AccountsInv

LEMMA AccountsStep == AccountsInv /\ [Next]_vars => AccountsInv'
  <1> SUFFICES ASSUME AccountsInv, [Next]_vars PROVE AccountsInv'
    OBVIOUS
  <1>1. CASE Customers
    <2>1. CustomerInv'
      BY <1>1, CustomerStepInv DEF Customers, AccountsInv
    <2> QED
      BY <1>1, <2>1, MailsUntouchedByOthers, PortalUntouched, MerchantUntouched
      DEF Customers, AccountsInv
  <1>2. CASE UNCHANGED vars
    BY <1>2, MailsUntouchedByOthers, PortalUntouched, CustomersUntouched, MerchantUntouched
    DEF vars, AccountsInv
  <1> QED
    BY <1>1, <1>2, MailSurface, PortalSurface, MerchantSurface DEF Next

LEMMA AccountsInductive == Spec => []AccountsInv
  BY AccountsInit, AccountsStep, PTL DEF Spec
-----------------------------------------------------------------------------
\* Rows, copies and histories keep their types.
THEOREM TypeCorrect == Spec => []TypeOK
  <1>1. ASSUME AccountsInv PROVE TypeOK
    <2>1. MailTypeOK /\ SessionTypes /\ CustomerTypeOK /\ MerchantTypeOK
      BY <1>1 DEF AccountsInv, MailsInv, MailInv, PortalInv, CustomerInv, MerchantInv
    <2>2. PortalTypeOK
      BY <2>1 DEF PortalTypeOK, SessionTypes, Try
    <2> QED
      BY <1>1, <2>1, <2>2 DEF TypeOK, AccountsInv
  <1> QED
    BY <1>1, AccountsInductive, PTL

\* However many requests create and change customers, two customers share an
\* email only if a request wrote what another had written past
\* (customer.go:31 and 134 look before they write).
THEOREM EmailsUniqueCorrect == Spec => []EmailsUnique
  <1>1. ASSUME AccountsInv PROVE EmailsUnique
    BY <1>1 DEF AccountsInv, CustomerInv, Unique, EmailsUnique
  <1> QED
    BY <1>1, AccountsInductive, PTL

\* What a merchant last chose or was given is in force unless a call that read
\* the row before stored it after, a secret that was answered and not stored is
\* never in force, and an account has no more tenants than sign-ups overlapped
\* at its first: auth.go reads, changes and stores whole rows.
THEOREM AnswersHoldCorrect == Spec => []AnswersHold
  <1>1. ASSUME AccountsInv PROVE AnswersHold
    <2>1. MerchantInv
      BY <1>1 DEF AccountsInv
    <2>2. Cardinality(Registered) <= rivals
      BY <2>1, TenantsFinite, FS_EmptySet DEF MerchantInv, SignUps
    <2>3. ASSUME NEW t \in Registered
          PROVE  /\ tenant[t]["secret"] \notin void
                 /\ \A f \in {"password", "profile", "secret"} \ disturbed[t] : tenant[t][f] = told[t][f]
                 /\ "key" \notin disturbed[t] /\ told[t]["key"] # OldValue
                      => AcceptsKey(t, told[t]["key"])
                 /\ "token" \notin disturbed[t] =>
                      \A v \in Values \ {0} : AcceptsToken(t, v) <=> v = told[t]["token"]
      <3>1. tenant[t]["secret"] \notin void
        BY <2>1, MerchantTypes DEF MerchantInv, SecretsNew
      <3>2. /\ \A f \in Fields \ disturbed[t] : tenant[t][f] = told[t][f]
            /\ "key" \notin disturbed[t] /\ told[t]["key"] # OldValue => t \in hashed
        BY <2>1 DEF MerchantInv, Agreed
      <3> QED
        BY <3>1, <3>2 DEF AcceptsKey, AcceptsToken, Fields
    <2> QED
      BY <2>2, <2>3 DEF AnswersHold
  <1> QED
    BY <1>1, AccountsInductive, PTL

\* A session allows five wrong codes and one sign-in, and its token is good
\* until it expires, except for each out-of-date copy stored over it
\* (VerifySession, portal.go:106, reads, compares and stores without a lock).
THEOREM SessionsHoldCorrect == Spec => []SessionsHold
  <1>1. ASSUME AccountsInv, NEW s \in Sessions
        PROVE  /\ wrong[s] <= maxPortalCodeAttempts * (1 + stale[s])
               /\ Cardinality(granted[s]) <= 1 + stale[s]
               /\ stale[s] = 0 => \A t \in granted[s] :
                    AuthenticatePortal(s, t) \/ session[s].tokenUntil < now
    <2>1. /\ SessionTypes /\ SessionInv(s)
      BY <1>1 DEF AccountsInv, PortalInv
    <2>2. /\ wrong[s] \in Nat /\ stale[s] \in Nat /\ session[s] \in Session /\ now \in Nat
          /\ session[s].failed \in Nat /\ session[s].tokenUntil \in Int
      BY <2>1 DEF SessionTypes, Session, NoTime
    <2>3. wrong[s] <= maxPortalCodeAttempts * (1 + stale[s])
      BY <2>1, <2>2 DEF SessionInv, maxPortalCodeAttempts
    <2>4. Cardinality(granted[s]) <= 1 + stale[s]
      <3>1. Cardinality(granted[s]) \in Nat
        BY <2>1, GrantedFinite
      <3>2. Bit(session[s].verified) \in Nat /\ Bit(session[s].verified) <= 1
        BY DEF Bit
      <3> QED
        BY <2>1, <2>2, <3>1, <3>2 DEF SessionInv
    <2>5. ASSUME stale[s] = 0, NEW t \in granted[s]
          PROVE  AuthenticatePortal(s, t) \/ session[s].tokenUntil < now
      BY <2>1, <2>2, <2>5 DEF SessionInv, AuthenticatePortal
    <2> QED
      BY <2>3, <2>4, <2>5
  <1>2. ASSUME AccountsInv PROVE SessionsHold
    BY <1>1, <1>2 DEF SessionsHold, CodesBounded, TokensHold
  <1> QED
    BY <1>2, AccountsInductive, PTL

\* However many senders ask for a mail and whatever fails, it is sent at most
\* once and once more per fault; a delivered row was sent, and without faults a
\* mail that a sender was told of is sent or on its way (EnqueueEmail and
\* SendEmailHandler of send-email.go).
THEOREM MailsBoundedCorrect == Spec => []MailsBounded
  <1>1. ASSUME AccountsInv, NEW k \in Jobs
        PROVE  /\ sent[k] <= 1 + faults
               /\ mail[k].st = "delivered" => sent[k] > 0
               /\ faults = 0 /\ k \in asked => sent[k] > 0 \/ Underway(k)
    <2>1. MailInv /\ CountInv /\ QuietInv /\ RowInv(k)
      BY <1>1 DEF AccountsInv, MailsInv, MailInv
    <2>2. sent[k] <= 1 + faults
      <3> DEFINE s == sent[k]
                 r == ready[k]
                 x == Cardinality(Working(k))
                 p == Cardinality(Publishing(k))
                 e == Bit(~Exists(k))
      <3>1. s \in Nat /\ r \in Nat /\ x \in Nat /\ p \in Nat /\ e \in Nat /\ faults \in Nat
        BY <2>1, CountsInNat, MailSets DEF MailInv, Bit
      <3>2. s + r + x + p + e <= 1 + faults
        BY <2>1 DEF CountInv
      <3> HIDE DEF s, r, x, p, e
      <3>3. s <= 1 + faults
        BY <3>1, <3>2
      <3> QED
        BY <3>3 DEF s
    <2>3. mail[k].st = "delivered" => sent[k] > 0
      BY <2>1 DEF RowInv
    <2>4. ASSUME faults = 0, k \in asked PROVE sent[k] > 0 \/ Underway(k)
      <3>1. Carried(k)
        BY <2>1, <2>4 DEF RowInv, QuietInv
      <3> QED
        BY <3>1 DEF Carried, Publishes, Sends, Underway
    <2> QED
      BY <2>2, <2>3, <2>4
  <1>2. ASSUME AccountsInv PROVE MailsBounded
    BY <1>1, <1>2 DEF MailsBounded
  <1> QED
    BY <1>2, AccountsInductive, PTL
=============================================================================
