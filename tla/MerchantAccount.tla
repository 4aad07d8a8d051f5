-------------------------- MODULE MerchantAccount --------------------------
(***************************************************************************)
(* The rows of tenants: sign-up, sign-in and sign-out, settings and        *)
(* credentials of a merchant (services/auth.go) and what the middleware    *)
(* accepts (middleware/authenticate.go).  Every call reads the row without *)
(* a lock and later stores its whole copy.  The expiry of tokens is left    *)
(* out: it only ends what sign-out ends.                                   *)
(***************************************************************************)
EXTENDS Naturals, FiniteSets

CONSTANTS
    Callers,   \* requests about one account, and the start of a process
    MaxTenants,\* bound: tenants registered for the account
    MaxCalls   \* bound: calls made

ASSUME MerchantAssumption ==
    /\ MaxTenants \in Nat \ {0} /\ MaxCalls \in Nat
    /\ IsFiniteSet(Callers)

\* What a tenant row keeps.  The value a call writes is named by the call; 0 is
\* null.  "profile" stands for the business name and the webhook URL.
Fields == {"key", "password", "token", "secret", "profile"}
TenantIds == 1 .. MaxTenants
NoValues == [f \in Fields |-> 0]

VARIABLES
    tenant,   \* values of the rows; a row whose password is 0 does not exist
    hashed,   \* tenants whose API key has a hash: all but the oldest
    caller,   \* where each call is, with its copy
    told,     \* history: what the merchant last chose or was given, per field
    void,     \* history: webhook secrets that were answered and not stored
    disturbed,\* history: fields over which a copy from before their last telling was stored
    rivals,   \* history: sign-ups under way when the account got its first tenant
    calls     \* how many calls were made (bounded by MaxCalls)

answers == <<told, void, disturbed>>
tenantVars == <<tenant, hashed, caller, answers, rivals, calls>>

Registered == {t \in TenantIds : tenant[t]["password"] # 0}

IdleCaller == [op |-> "idle", t |-> 0, n |-> 0, copy |-> NoValues, hashed |-> FALSE, late |-> {}]

SigningUp == {c \in Callers : caller[c].op = "register"}

Edits == {"login", "signOut", "rotateKey", "rotateSecret", "changePassword",
          "setWebhookUrl", "updateSettings", "backfill"}

\* Authenticate: an API key is found by its hash, a token is compared.
AcceptsKey(t, k) == t \in hashed /\ tenant[t]["key"] = k
AcceptsToken(t, v) == v # 0 /\ tenant[t]["token"] = v

NewRegistration == [op |-> "register", t |-> 0, n |-> calls + 1,
                    copy |-> NoValues, hashed |-> FALSE, late |-> {}]

\* Mutant of RegisterCheck: the account may have a tenant.
RegisterCheckNot(c) ==
    /\ caller[c].op = "idle" /\ calls < MaxCalls
    /\ calls' = calls + 1
    /\ caller' = [caller EXCEPT ![c] = NewRegistration]
    /\ UNCHANGED <<tenant, hashed, answers, rivals>>

\* RegisterTenant looks for the account.
RegisterCheck(c) ==
    /\ caller[c].op = "idle" /\ calls < MaxCalls
    /\ Registered = {}
    /\ calls' = calls + 1
    /\ caller' = [caller EXCEPT ![c] = NewRegistration]
    /\ UNCHANGED <<tenant, hashed, answers, rivals>>

\* The account id has no unique index; the key and the password are answered
\* or chosen by the merchant.
Register(c) ==
    LET row == [NoValues EXCEPT !["key"] = caller[c].n, !["password"] = caller[c].n] IN
    /\ caller[c].op = "register"
    /\ \E t \in TenantIds \ Registered :
         /\ \A u \in TenantIds : u < t => u \in Registered
         /\ tenant' = [tenant EXCEPT ![t] = row]
         /\ told' = [told EXCEPT ![t] = row]
         /\ hashed' = hashed \cup {t}
    /\ rivals' = IF Registered = {} THEN Cardinality(SigningUp) ELSE rivals
    /\ caller' = [caller EXCEPT ![c] = IdleCaller]
    /\ UNCHANGED <<void, disturbed, calls>>

\* A call reads the row.  A wrong password or an invalid URL ends it here;
\* BackfillApiKeyHashes reads rows without a hash when a process starts.
ReadTenant(c) ==
    /\ caller[c].op = "idle" /\ calls < MaxCalls
    /\ calls' = calls + 1
    /\ \E t \in Registered, op \in Edits :
         /\ op = "backfill" => t \notin hashed
         /\ caller' = [caller EXCEPT ![c] =
              [op |-> op, t |-> t, n |-> calls + 1, copy |-> tenant[t],
               hashed |-> t \in hashed, late |-> {}]]
    /\ UNCHANGED <<tenant, hashed, answers, rivals>>

\* Mutant of Edited: signing out keeps the token.
EditedSignedIn(op, n, r) ==
    CASE op = "login" -> [r EXCEPT !["token"] = n]
      [] op = "rotateKey" -> [r EXCEPT !["key"] = n]
      [] op = "rotateSecret" -> [r EXCEPT !["secret"] = n]
      [] op = "changePassword" -> [r EXCEPT !["password"] = n]
      [] op = "setWebhookUrl" -> [r EXCEPT !["profile"] = n]
      [] op = "updateSettings" -> [r EXCEPT !["profile"] = n]
      [] OTHER -> r

\* Row r after operation op of call n.
Edited(op, n, r) ==
    CASE op = "login" -> [r EXCEPT !["token"] = n]
      [] op = "signOut" -> [r EXCEPT !["token"] = 0]
      [] op = "rotateKey" -> [r EXCEPT !["key"] = n]
      [] op = "rotateSecret" -> [r EXCEPT !["secret"] = n]
      [] op = "changePassword" -> [r EXCEPT !["password"] = n]
      [] op = "setWebhookUrl" -> [r EXCEPT !["profile"] = n,
                                           !["secret"] = IF @ = 0 THEN n ELSE @]
      [] op = "updateSettings" -> [r EXCEPT !["profile"] = n]
      [] op = "backfill" -> r

\* The fields the merchant chooses or is given a value of by call k.  The secret
\* that SetWebhookUrl answers is stored only where there was none.
Tells(k) ==
    CASE k.op \in {"login", "signOut"} -> {"token"}
      [] k.op = "rotateKey" -> {"key"}
      [] k.op = "rotateSecret" -> {"secret"}
      [] k.op = "changePassword" -> {"password"}
      [] k.op = "setWebhookUrl" ->
           IF k.copy["secret"] = 0 THEN {"profile", "secret"} ELSE {"profile"}
      [] k.op = "updateSettings" -> {"profile"}
      [] k.op = "backfill" -> {}

\* The whole copy is stored.  Calls that have read the row before are late for
\* the fields told now, and what a late call stores disturbs them.
StoreTenant(c) ==
    LET k == caller[c]
        t == k.t
        value == IF k.op = "signOut" THEN 0 ELSE k.n IN
    /\ k.op \in Edits
    /\ tenant' = [tenant EXCEPT ![t] = Edited(k.op, k.n, k.copy)]
    /\ hashed' = IF k.hashed \/ k.op \in {"rotateKey", "backfill"}
                 THEN hashed \cup {t} ELSE hashed \ {t}
    /\ told' = [told EXCEPT ![t] = [f \in Fields |-> IF f \in Tells(k) THEN value ELSE @[f]]]
    /\ void' = IF k.op = "setWebhookUrl" /\ k.copy["secret"] # 0 THEN void \cup {k.n} ELSE void
    /\ disturbed' = [disturbed EXCEPT ![t] = (@ \cup k.late) \ Tells(k)]
    /\ caller' = [d \in Callers |->
                    IF d = c THEN IdleCaller
                    ELSE IF caller[d].t = t
                    THEN [caller[d] EXCEPT !.late = @ \cup Tells(k)]
                    ELSE caller[d]]
    /\ UNCHANGED <<rivals, calls>>

\* A database call fails, or the process dies before the row is stored.
CallFails(c) ==
    /\ caller[c].op # "idle"
    /\ caller' = [caller EXCEPT ![c] = IdleCaller]
    /\ UNCHANGED <<tenant, hashed, answers, rivals, calls>>
-----------------------------------------------------------------------------
\* A tenant registered before keys were hashed, or none.
OldValue == MaxCalls + 1
OldTenant == [NoValues EXCEPT !["key"] = OldValue, !["password"] = OldValue]

MerchantInit ==
    /\ tenant \in {[t \in TenantIds |-> NoValues],
                   [t \in TenantIds |-> IF t = 1 THEN OldTenant ELSE NoValues]}
    /\ told = tenant
    /\ hashed = {}
    /\ caller = [c \in Callers |-> IdleCaller]
    /\ void = {}
    /\ disturbed = [t \in TenantIds |-> {}]
    /\ rivals = 1 /\ calls = 0

MerchantNext ==
    \E c \in Callers : \/ RegisterCheck(c) \/ Register(c)
                       \/ ReadTenant(c) \/ StoreTenant(c) \/ CallFails(c)

Values == 0 .. OldValue

MerchantTypeOK ==
    /\ tenant \in [TenantIds -> [Fields -> Values]]
    /\ told \in [TenantIds -> [Fields -> Values]]
    /\ hashed \subseteq Registered
    /\ void \subseteq Values
    /\ disturbed \in [TenantIds -> SUBSET Fields]
    /\ caller \in [Callers -> [op : Edits \cup {"idle", "register"},
                               t : TenantIds \cup {0}, n : 0 .. MaxCalls,
                               copy : [Fields -> Values], hashed : BOOLEAN,
                               late : SUBSET Fields]]
    /\ rivals \in Nat /\ calls \in Nat

\* What the merchant last chose or was given stays in force whatever the calls
\* about other things store, unless one of them read the row before it was told
\* and stored it after: a key opens the API once it is hashed, a session ends
\* with its sign-out, a password and an address stay.  The secret that
\* SetWebhookUrl answers to a tenant that has one is never in force (auth.go:314).
\* An account has at most as many tenants as sign-ups overlapped at its first.
AnswersHold ==
    /\ Cardinality(Registered) <= rivals
    /\ \A t \in Registered :
         /\ tenant[t]["secret"] \notin void
         /\ \A f \in {"password", "profile", "secret"} \ disturbed[t] : tenant[t][f] = told[t][f]
         /\ "key" \notin disturbed[t] /\ told[t]["key"] # OldValue => AcceptsKey(t, told[t]["key"])
         /\ "token" \notin disturbed[t] =>
              \A v \in Values \ {0} : AcceptsToken(t, v) <=> v = told[t]["token"]
=============================================================================
