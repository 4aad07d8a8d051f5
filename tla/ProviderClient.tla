--------------------------- MODULE ProviderClient ---------------------------
(***************************************************************************)
(* The access token of the provider client (providers/nomba/auth.go and    *)
(* client.go): concurrent calls share one token under a mutex, a call that *)
(* is answered 401 refreshes the token and is sent once more.  Tokens are  *)
(* numbered; the provider accepts those it has not revoked and that have   *)
(* not expired.                                                            *)
(***************************************************************************)
EXTENDS Integers, Sequences

CONSTANTS
    Requests,    \* calls to the provider
    Life,        \* ticks a token lives
    Margin,      \* ticks before its expiry a token is replaced: five minutes
    MaxTokens,   \* bound: tokens ever issued
    MaxUpsets,   \* bound: revocations, failing calls of the token endpoint
    LastTick     \* bound: ticks of the clock

ASSUME ClientAssumption ==
    /\ Life \in Nat /\ Margin \in Nat /\ Margin <= Life
    /\ MaxTokens \in Nat
    /\ "nobody" \notin Requests
    /\ MaxUpsets \in Nat /\ LastTick \in Nat

NoToken == 0
Nobody == "nobody"

VARIABLES
    hour,      \* the clock
    access,    \* the client's token
    expiresAt, \* when the client takes its token to expire
    issued,    \* when the tokens the provider issued expire, in their order
    revoked,   \* tokens the provider no longer accepts
    tokenMu,   \* who holds the mutex
    call,      \* the calls: where they are, the token they carry, how often
               \* they were sent; history: when the token was read, and whether
               \* a token was revoked since the call refreshed it
    upsets     \* revocations and failures so far

clientVars == <<hour, access, expiresAt, issued, revoked, tokenMu, call, upsets>>

Places == {"new", "ensure", "send", "denied", "refresh", "done", "refused", "failed"}
Call == [pc : Places, token : Nat, sent : Nat, readAt : Nat, overtaken : BOOLEAN]
NewCall == [pc |-> "new", token |-> NoToken, sent |-> 0, readAt |-> 0, overtaken |-> FALSE]

ClientInit ==
    /\ hour = 0 /\ access = NoToken /\ expiresAt = 0
    /\ issued = <<>> /\ revoked = {}
    /\ tokenMu = Nobody
    /\ call = [c \in Requests |-> NewCall]
    /\ upsets = 0

Accepted(t) == t # NoToken /\ t \notin revoked /\ hour < issued[t]

hasUsableAccessToken == access # NoToken /\ expiresAt > hour + Margin

\* The middleware of a request takes the mutex, and so does the refresh.
Lock(c) ==
    /\ tokenMu = Nobody
    /\ \/ call[c].pc = "new" /\ call' = [call EXCEPT ![c].pc = "ensure"]
       \/ call[c].pc = "denied" /\ call' = [call EXCEPT ![c].pc = "refresh"]
    /\ tokenMu' = c
    /\ UNCHANGED <<hour, access, expiresAt, issued, revoked, upsets>>

Carry(calls, c, t) ==
    [calls EXCEPT ![c] = [calls[c] EXCEPT !.pc = "send", !.token = t, !.readAt = hour]]

\* ensureAccessToken: the token is good enough.
TakeToken(c) ==
    /\ call[c].pc = "ensure" /\ hasUsableAccessToken
    /\ call' = Carry(call, c, access)
    /\ tokenMu' = Nobody
    /\ UNCHANGED <<hour, access, expiresAt, issued, revoked, upsets>>

\* History: a token is revoked while calls that were refused once are under way.
Overtaken == [d \in Requests |-> [call[d] EXCEPT !.overtaken = call[d].sent > 0]]

\* issueAccessToken: the token endpoint answers a new token, by a refresh or,
\* when that fails, by the credentials; the provider may revoke the old one.
\* After a refresh for a call that was refused, the call is built anew.
Issue(c) ==
    /\ tokenMu = c
    /\ \/ call[c].pc = "ensure" /\ ~hasUsableAccessToken
       \/ call[c].pc = "refresh"
    /\ Len(issued) < MaxTokens
    /\ issued' = Append(issued, hour + Life)
    /\ access' = Len(issued) + 1 /\ expiresAt' = hour + Life
    /\ revoked' \in {revoked, revoked \cup ({access} \ {NoToken})}
    /\ LET seen == IF revoked' = revoked THEN call ELSE Overtaken
       IN  call' = IF call[c].pc = "ensure" THEN Carry(seen, c, access')
                   ELSE [seen EXCEPT ![c] = [seen[c] EXCEPT !.pc = "new", !.overtaken = FALSE]]
    /\ tokenMu' = Nobody
    /\ UNCHANGED <<hour, upsets>>

\* The answer has a token but its expiry cannot be parsed: the client has the
\* new token and keeps the expiry of the old one.
IssuedUnparsed ==
    /\ Len(issued) < MaxTokens
    /\ issued' = Append(issued, hour + Life)
    /\ access' = Len(issued) + 1
    /\ revoked' \in {revoked, revoked \cup ({access} \ {NoToken})}

\* issueAccessToken reports an error: the call ends without being sent.
IssueFails(c) ==
    /\ tokenMu = c /\ upsets < MaxUpsets
    /\ \/ call[c].pc = "ensure" /\ ~hasUsableAccessToken
       \/ call[c].pc = "refresh"
    /\ UNCHANGED <<access, issued, revoked>> \/ IssuedUnparsed
    /\ LET seen == IF revoked' = revoked THEN call ELSE Overtaken
       IN  call' = [seen EXCEPT ![c] = [seen[c] EXCEPT !.pc = "failed"]]
    /\ tokenMu' = Nobody /\ upsets' = upsets + 1
    /\ UNCHANGED <<hour, expiresAt>>

\* Mutant of AfterRefusal: the call is sent again without a new token.
AfterRefusalResend(c) == IF call[c].sent = 0 THEN "new" ELSE "refused"

\* The first 401 refreshes the token, the second is the answer.
AfterRefusal(c) == IF call[c].sent = 0 THEN "denied" ELSE "refused"

\* The provider answers the call.
Send(c) ==
    /\ call[c].pc = "send"
    /\ call' = [call EXCEPT ![c] = [call[c] EXCEPT
                    !.sent = call[c].sent + 1,
                    !.pc = IF Accepted(call[c].token) THEN "done" ELSE AfterRefusal(c)]]
    /\ UNCHANGED <<hour, access, expiresAt, issued, revoked, tokenMu, upsets>>

\* The provider revokes the token.
Revoke ==
    /\ upsets < MaxUpsets /\ access \notin revoked \cup {NoToken}
    /\ revoked' = revoked \cup {access}
    /\ call' = Overtaken
    /\ upsets' = upsets + 1
    /\ UNCHANGED <<hour, access, expiresAt, issued, tokenMu>>

ClientTick ==
    /\ hour < LastTick
    /\ hour' = hour + 1
    /\ UNCHANGED <<access, expiresAt, issued, revoked, tokenMu, call, upsets>>

ClientStep ==
    \/ \E c \in Requests : Lock(c) \/ TakeToken(c) \/ Issue(c) \/ IssueFails(c) \/ Send(c)
    \/ Revoke \/ ClientTick

\* A call is sent at most twice; it is answered 401 for good only if, after it
\* refreshed the token, another call or the provider put a token out of use, or
\* it was sent no sooner than the margin after it read its token.
TokenUsable ==
    \A c \in Requests :
        /\ call[c].sent <= 2
        /\ call[c].pc = "refused" => call[c].overtaken \/ hour >= call[c].readAt + Margin

\* The client and the calls keep their types; the client never takes its token
\* to live longer than the provider does.
ClientTypeOK ==
    /\ hour \in Nat
    /\ issued \in Seq(Nat)
    /\ access \in DOMAIN issued \cup {NoToken}
    /\ revoked \subseteq DOMAIN issued
    /\ tokenMu \in Requests \cup {Nobody}
    /\ expiresAt \in Nat /\ expiresAt <= hour + Life
    /\ access # NoToken => expiresAt <= issued[access]
    /\ call \in [Requests -> Call]
    /\ upsets \in Nat
=============================================================================
