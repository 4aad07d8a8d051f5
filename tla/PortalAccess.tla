---------------------------- MODULE PortalAccess ----------------------------
(***************************************************************************)
(* Sign-in of a customer to the portal: InitiateSession, VerifySession     *)
(* (services/portal.go) and the middleware that accepts a token            *)
(* (middleware/authenticate_portal.go).  The code of a session goes out as *)
(* a mail whose key is the session.  A verification reads the newest       *)
(* session without a lock and later stores its whole copy.                 *)
(***************************************************************************)
EXTENDS Integers, EmailDelivery

CONSTANTS
    MaxSessions, \* bound: sessions the customer can open
    CodeLife,    \* the 10 minutes of InitiateSession, in ticks
    TokenLife,   \* the 24 hours of VerifySession, in ticks
    MaxVerifies, \* bound: codes tried
    MaxTime      \* bound: the last tick, it stands for all later time

ASSUME PortalAssumption ==
    /\ MaxSessions \in Nat
    /\ CodeLife \in Nat /\ TokenLife \in Nat
    /\ MaxVerifies \in Nat /\ MaxTime \in Nat
    /\ 1 .. MaxSessions \subseteq Jobs

\* Sessions are named by the order of their creation.
Sessions == 1 .. MaxSessions

\* A token is named by the verification that made it; 0 is null.
NoToken == 0
Tokens == 1 .. MaxVerifies

NoTime == -1

VARIABLES
    now,      \* the clock
    session,  \* the rows of portal_sessions
    trying,   \* where each request is in VerifySession, with its copy
    writes,   \* history: how often each row was stored
    stale,    \* history: how often a copy that was out of date was stored
    wrong,    \* history: wrong codes answered with "invalid code"
    granted,  \* history: tokens given to the customer
    verifies  \* how many codes were tried (bounded by MaxVerifies)

sessionHistory == <<writes, stale, wrong, granted>>
portalVars == <<now, session, trying, sessionHistory, verifies>>

\* codeUntil, verifiedAt, tokenUntil may be null.
Session == [exists : BOOLEAN, codeUntil : Nat, failed : Nat, verified : BOOLEAN,
            token : Tokens \cup {NoToken}, tokenUntil : Nat \cup {NoTime}]

NoSession == [exists |-> FALSE, codeUntil |-> 0, failed |-> 0, verified |-> FALSE,
              token |-> NoToken, tokenUntil |-> NoTime]

NotTrying == [pc |-> "idle", s |-> 0, copy |-> NoSession, seen |-> 0]

maxPortalCodeAttempts == 5

Opened == {s \in Sessions : session[s].exists}

\* AuthenticatePortal: is token t of session s accepted?  Nothing ever sets
\* RevokedAt.
AuthenticatePortal(s, t) ==
    /\ session[s].verified
    /\ session[s].token = t
    /\ session[s].tokenUntil >= now

Tick ==
    /\ now < MaxTime
    /\ now' = now + 1
    /\ UNCHANGED <<mailVars, session, trying, sessionHistory, verifies>>

\* The session stays when the mail with its code cannot be enqueued.
InitiateSession(w) ==
    /\ sending[w].pc = "idle"
    /\ \E s \in Sessions \ Opened :
         /\ \A o \in Sessions : o < s => o \in Opened
         /\ session' = [session EXCEPT ![s] = [NoSession EXCEPT
                          !.exists = TRUE, !.codeUntil = now + CodeLife]]
         /\ ToCheck(w, s)
    /\ UNCHANGED <<queueVars, mailRows, mh, faults, now, trying, sessionHistory, verifies>>

\* Mutant of Usable: a code may be used again.
UsableAgain(r) ==
    /\ r.codeUntil >= now
    /\ r.failed < maxPortalCodeAttempts

\* The code of row r may still be tried.
Usable(r) ==
    /\ ~r.verified
    /\ r.codeUntil >= now
    /\ r.failed < maxPortalCodeAttempts

\* VerifySession up to the comparison of the codes.  A session whose code
\* cannot be tried is refused and nothing changes.
TryCode(w) ==
    /\ trying[w].pc = "idle" /\ verifies < MaxVerifies
    /\ \E s \in Opened, right \in BOOLEAN :
         /\ \A o \in Opened : o <= s
         /\ Usable(session[s])
         /\ trying' = [trying EXCEPT ![w] = [pc |-> IF right THEN "right" ELSE "wrong",
                                             s |-> s, copy |-> session[s],
                                             seen |-> writes[s]]]
    /\ verifies' = verifies + 1
    /\ UNCHANGED <<mailVars, now, session, sessionHistory>>

\* Request w stores row r over its session and is done.
StoreSession(w, r) ==
    LET s == trying[w].s IN
    /\ session' = [session EXCEPT ![s] = r]
    /\ writes' = [writes EXCEPT ![s] = @ + 1]
    /\ stale' = [stale EXCEPT ![s] = IF trying[w].seen = writes[s] THEN @ ELSE @ + 1]
    /\ trying' = [trying EXCEPT ![w] = NotTrying]

\* Mutants of CountedWrong: the attempt is not counted; the code expires a tick
\* before now.
CountedWrongNot(r) == r
CountedWrongPast(r) ==
    [r EXCEPT !.failed = @ + 1,
              !.codeUntil = IF r.failed + 1 >= maxPortalCodeAttempts THEN now - 1 ELSE @]

\* Row r after a wrong code: at the limit the code expires at once.
CountedWrong(r) ==
    [r EXCEPT !.failed = @ + 1,
              !.codeUntil = IF r.failed + 1 >= maxPortalCodeAttempts THEN now ELSE @]

WrongCode(w) ==
    /\ trying[w].pc = "wrong"
    /\ StoreSession(w, CountedWrong(trying[w].copy))
    /\ wrong' = [wrong EXCEPT ![trying[w].s] = @ + 1]
    /\ UNCHANGED <<mailVars, now, granted, verifies>>

\* The token is new: it names this verification.
RightCode(w) ==
    LET s == trying[w].s
        t == CHOOSE n \in Tokens : n = Cardinality(UNION {granted[o] : o \in Sessions}) + 1
    IN
    /\ trying[w].pc = "right"
    /\ StoreSession(w, [trying[w].copy EXCEPT !.verified = TRUE, !.token = t,
                                              !.tokenUntil = now + TokenLife])
    /\ granted' = [granted EXCEPT ![s] = @ \cup {t}]
    /\ UNCHANGED <<mailVars, now, wrong, verifies>>

\* The row cannot be stored: an error is answered, the try is not counted.
VerifyFails(w) ==
    /\ Fault
    /\ trying[w].pc \in {"wrong", "right"}
    /\ trying' = [trying EXCEPT ![w] = NotTrying]
    /\ UNCHANGED <<queueVars, mailRows, sending, mh, now, session, sessionHistory, verifies>>
-----------------------------------------------------------------------------
PortalInit ==
    /\ now = 0
    /\ session = [s \in Sessions |-> NoSession]
    /\ trying = [w \in Senders |-> NotTrying]
    /\ writes = [s \in Sessions |-> 0]
    /\ stale = [s \in Sessions |-> 0]
    /\ wrong = [s \in Sessions |-> 0]
    /\ granted = [s \in Sessions |-> {}]
    /\ verifies = 0

\* A mail of another part of the system is asked for: a key no session has.
AskMail(w) ==
    /\ sending[w].pc = "idle"
    /\ \E k \in Jobs \ Sessions : ToCheck(w, k)
    /\ UNCHANGED <<queueVars, mailRows, mh, faults>>

Sender(w) == EnqueueStep(w) \/ SenderFails(w)

Mailer(c) ==
    \/ LoadMail(c) \/ MailStep(c) \/ MailRefused(c)
    \/ MailerFails(c) \/ MailerDisconnects(c) \/ MailerRestarts(c)

SignIn(w) == TryCode(w) \/ WrongCode(w) \/ RightCode(w) \/ VerifyFails(w)

PortalTypeOK ==
    /\ MailTypeOK
    /\ now \in Nat
    /\ session \in [Sessions -> Session]
    /\ trying \in [Senders -> [pc : {"idle", "wrong", "right"}, s : Sessions \cup {0},
                               copy : Session, seen : Nat]]
    /\ writes \in [Sessions -> Nat]
    /\ stale \in [Sessions -> Nat]
    /\ wrong \in [Sessions -> Nat]
    /\ granted \in [Sessions -> SUBSET Tokens]
    /\ verifies \in Nat

\* At most five wrong codes are answered for a session; each store of a copy
\* that was out of date can allow five more.
CodesBounded ==
    \A s \in Sessions : wrong[s] <= maxPortalCodeAttempts * (1 + stale[s])

\* A code buys one token, and that token is accepted until it expires: both
\* fail only when a copy that was out of date was stored over the session.
TokensHold ==
    \A s \in Sessions :
        /\ Cardinality(granted[s]) <= 1 + stale[s]
        /\ stale[s] = 0 => \A t \in granted[s] :
             AuthenticatePortal(s, t) \/ session[s].tokenUntil < now

\* Codes and tokens together: a session gives neither more guesses nor more
\* sign-ins than its limits say, however verifications overlap.
SessionsHold == CodesBounded /\ TokensHold
=============================================================================
