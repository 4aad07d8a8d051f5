----------------------------- MODULE EdgesProofs -----------------------------
(***************************************************************************)
(* What a token bucket promises, for any number of keys, any rate and      *)
(* window, and any number of evictions and restarts; what the shared token *)
(* promises a call to the provider, for any number of concurrent calls,    *)
(* any lifetime and margin, and any revocations and failures; what a walk  *)
(* through a list misses and repeats, for pages of any size and any rows   *)
(* that enter or leave it meanwhile; and that the figures of a report add  *)
(* up, for any tables and any changes between its reads.                   *)
(***************************************************************************)
EXTENDS Edges, SequenceTheorems, FiniteSetTheorems, FunctionTheorems, NaturalsInduction,
        WellFoundedInduction, TLAPS

(* Buckets: what was let through and what is still in the bucket never     *)
(* exceed a full bucket and what flowed in.                                *)

\* What requests of k could still take at once: a key without a bucket gets a
\* full one.
Potential(k) == IF held[k] THEN Refilled(k) ELSE Full

\* The parts that were available to one key since the mark.
Supply == Full + restarts * Full + (clock - mark) * Burst

KeyInv(k) == allowed[k] * Window + Potential(k) <= Supply

LimiterInv == LimiterTypeOK /\ \A k \in Keys : KeyInv(k)
-----------------------------------------------------------------------------
\* Products of natural numbers.
LEMMA TimesNat == \A a, b \in Nat : a * b \in Nat
  OBVIOUS

LEMMA TimesNext == \A a, b \in Int : (a + 1) * b = a * b + b
  OBVIOUS

\* More time brings at least as much.
LEMMA TimesMonotone == ASSUME NEW a \in Nat, NEW b \in Nat, NEW c \in Nat, a <= b
                       PROVE  a * c <= b * c
  <1>1. b - a \in Nat /\ b = a + (b - a)
    OBVIOUS
  <1>2. (b - a) * c \in Nat
    BY <1>1
  <1>3. b * c = a * c + (b - a) * c
    OBVIOUS
  <1> QED
    BY <1>2, <1>3

LEMMA FullNat == Full \in Nat /\ Full >= Window /\ Full = Window * Burst
  <1>1. 1 * Window <= Burst * Window
    BY LimiterAssumption, TimesMonotone
  <1>2. Burst * Window \in Nat /\ Burst * Window = Window * Burst
    BY LimiterAssumption
  <1> QED
    BY <1>1, <1>2, LimiterAssumption DEF Full

LEMMA RefilledType ==
  ASSUME LimiterTypeOK, NEW k \in Keys
  PROVE  /\ Elapsed(k) \in Nat /\ Elapsed(k) * Burst \in Nat
         /\ Refilled(k) \in 0 .. Full
  <1>1. Elapsed(k) \in Nat
    BY DEF LimiterTypeOK, Elapsed
  <1>2. Elapsed(k) * Burst \in Nat
    BY <1>1, LimiterAssumption, TimesNat
  <1>3. tokens[k] \in 0 .. Full
    BY DEF LimiterTypeOK
  <1> QED
    BY <1>1, <1>2, <1>3, FullNat DEF Refilled

LEMMA TermsNat ==
  ASSUME LimiterTypeOK, NEW k \in Keys
  PROVE  /\ allowed[k] * Window \in Nat /\ restarts * Full \in Nat
         /\ (clock - mark) * Burst \in Nat /\ Supply \in Nat
         /\ Potential(k) \in 0 .. Full
  <1>1. allowed[k] \in Nat /\ restarts \in Nat /\ clock - mark \in Nat
    BY DEF LimiterTypeOK
  <1>2. allowed[k] * Window \in Nat
    BY <1>1, LimiterAssumption, TimesNat
  <1>3. restarts * Full \in Nat
    BY <1>1, FullNat, TimesNat
  <1>4. (clock - mark) * Burst \in Nat
    BY <1>1, LimiterAssumption, TimesNat
  <1>5. Supply \in Nat
    BY <1>3, <1>4, FullNat DEF Supply
  <1>6. Potential(k) \in 0 .. Full
    BY RefilledType, FullNat DEF Potential
  <1> QED
    BY <1>2, <1>3, <1>4, <1>5, <1>6

LEMMA LimiterInitInv == LimiterInit => LimiterInv
  <1> SUFFICES ASSUME LimiterInit PROVE LimiterInv
    OBVIOUS
  <1>1. LimiterTypeOK
    BY FullNat DEF LimiterInit, LimiterTypeOK
  <1>2. ASSUME NEW k \in Keys PROVE KeyInv(k)
    <2>1. allowed[k] * Window = 0 /\ restarts * Full = 0 /\ (clock - mark) * Burst = 0
      BY LimiterAssumption, FullNat DEF LimiterInit
    <2>2. Potential(k) = Full
      BY DEF LimiterInit, Potential
    <2> QED
      BY <2>1, <2>2, FullNat DEF KeyInv, Supply
  <1> QED
    BY <1>1, <1>2 DEF LimiterInv
-----------------------------------------------------------------------------
\* A key whose bucket a step leaves alone.
LEMMA OtherKey ==
  ASSUME LimiterInv, NEW k \in Keys, NEW j \in Keys \ {k},
         held'[j] = held[j], tokens'[j] = tokens[j], lastRefill'[j] = lastRefill[j],
         allowed'[j] = allowed[j], UNCHANGED <<clock, mark, restarts>>
  PROVE  KeyInv(j)'
  <1>1. Refilled(j)' = Refilled(j)
    BY DEF Refilled, Elapsed
  <1> QED
    BY <1>1 DEF LimiterInv, KeyInv, Potential, Supply

\* A bucket that was refilled just now holds what it held then.
LEMMA JustRefilled ==
  ASSUME LimiterTypeOK, NEW k \in Keys, NEW t \in 0 .. Full, clock' = clock,
         tokens'[k] = t, lastRefill'[k] = clock
  PROVE  Refilled(k)' = t
  <1>1. Elapsed(k)' = 0
    BY DEF LimiterTypeOK, Elapsed
  <1>2. Elapsed(k)' * Burst = 0
    BY <1>1, LimiterAssumption
  <1> QED
    BY <1>2, FullNat DEF Refilled

LEMMA AllowFirstStep ==
  ASSUME LimiterInv, NEW k \in Keys, AllowFirst(k)
  PROVE  LimiterInv'
  <1> USE DEF AllowFirst
  <1>1. LimiterTypeOK
    BY DEF LimiterInv
  <1>2. Full - Window \in 0 .. Full
    BY FullNat, LimiterAssumption
  <1>3. LimiterTypeOK'
    BY <1>1, <1>2 DEF LimiterTypeOK
  <1>4. held'[k] /\ tokens'[k] = Full - Window /\ lastRefill'[k] = clock
        /\ allowed'[k] = allowed[k] + 1
    BY <1>1 DEF LimiterTypeOK
  <1>5. KeyInv(k)'
    <2>1. Potential(k)' = Full - Window
      BY <1>1, <1>2, <1>4, JustRefilled DEF Potential
    <2>2. Potential(k) = Full
      BY DEF Potential
    <2>3. allowed'[k] * Window = allowed[k] * Window + Window
      BY <1>1, <1>4, LimiterAssumption, TimesNext DEF LimiterTypeOK
    <2>4. Supply' = Supply
      BY DEF Supply
    <2> QED
      BY <1>1, <2>1, <2>2, <2>3, <2>4, TermsNat, FullNat, LimiterAssumption DEF LimiterInv, KeyInv
  <1>6. ASSUME NEW j \in Keys \ {k} PROVE KeyInv(j)'
    BY <1>1, OtherKey DEF LimiterTypeOK
  <1> QED
    BY <1>3, <1>5, <1>6 DEF LimiterInv

LEMMA AllowStep ==
  ASSUME LimiterInv, NEW k \in Keys, Allow(k)
  PROVE  LimiterInv'
  <1> USE DEF Allow
  <1>1. LimiterTypeOK
    BY DEF LimiterInv
  <1>2. Refilled(k) - Window \in 0 .. Full
    BY <1>1, RefilledType, FullNat, LimiterAssumption
  <1>3. LimiterTypeOK'
    BY <1>1, <1>2 DEF LimiterTypeOK
  <1>4. held'[k] /\ tokens'[k] = Refilled(k) - Window /\ lastRefill'[k] = clock
        /\ allowed'[k] = allowed[k] + 1
    BY <1>1 DEF LimiterTypeOK
  <1>5. KeyInv(k)'
    <2>1. Potential(k)' = Refilled(k) - Window
      BY <1>1, <1>2, <1>4, JustRefilled DEF Potential
    <2>2. Potential(k) = Refilled(k)
      BY DEF Potential
    <2>3. allowed'[k] * Window = allowed[k] * Window + Window
      BY <1>1, <1>4, LimiterAssumption, TimesNext DEF LimiterTypeOK
    <2>4. Supply' = Supply
      BY DEF Supply
    <2> QED
      BY <1>1, <2>1, <2>2, <2>3, <2>4, TermsNat, FullNat, LimiterAssumption DEF LimiterInv, KeyInv
  <1>6. ASSUME NEW j \in Keys \ {k} PROVE KeyInv(j)'
    BY <1>1, OtherKey DEF LimiterTypeOK
  <1> QED
    BY <1>3, <1>5, <1>6 DEF LimiterInv

LEMMA RefuseStep ==
  ASSUME LimiterInv, NEW k \in Keys, Refuse(k)
  PROVE  LimiterInv'
  <1> USE DEF Refuse
  <1>1. LimiterTypeOK
    BY DEF LimiterInv
  <1>2. Refilled(k) \in 0 .. Full
    BY <1>1, RefilledType
  <1>3. LimiterTypeOK'
    BY <1>1, <1>2 DEF LimiterTypeOK
  <1>4. tokens'[k] = Refilled(k) /\ lastRefill'[k] = clock
    BY <1>1 DEF LimiterTypeOK
  <1>5. KeyInv(k)'
    <2>1. Potential(k)' = Potential(k)
      BY <1>1, <1>2, <1>4, JustRefilled DEF Potential
    <2>2. Supply' = Supply
      BY DEF Supply
    <2> QED
      BY <2>1, <2>2 DEF LimiterInv, KeyInv
  <1>6. ASSUME NEW j \in Keys \ {k} PROVE KeyInv(j)'
    BY <1>1, OtherKey DEF LimiterTypeOK
  <1> QED
    BY <1>3, <1>5, <1>6 DEF LimiterInv

\* A bucket that the janitor forgets is full: it was idle for a whole window.
LEMMA EvictStep ==
  ASSUME LimiterInv, NEW k \in Keys, Evict(k)
  PROVE  LimiterInv'
  <1> USE DEF Evict
  <1>1. LimiterTypeOK
    BY DEF LimiterInv
  <1>2. LimiterTypeOK'
    BY <1>1 DEF LimiterTypeOK
  <1>3. KeyInv(k)'
    <2>1. Elapsed(k) \in Nat /\ Window <= Elapsed(k)
      BY <1>1, RefilledType, LimiterAssumption
    <2>2. Window * Burst <= Elapsed(k) * Burst
      BY <2>1, TimesMonotone, LimiterAssumption
    <2>3. tokens[k] \in 0 .. Full /\ Elapsed(k) * Burst \in Nat
      BY <1>1, RefilledType DEF LimiterTypeOK
    <2>4. Refilled(k) = Full
      BY <2>2, <2>3, FullNat DEF Refilled
    <2>5. Potential(k) = Full /\ Potential(k)' = Full
      BY <1>1, <2>4 DEF Potential, LimiterTypeOK, Full
    <2>6. Supply' = Supply
      BY DEF Supply
    <2> QED
      BY <2>5, <2>6 DEF LimiterInv, KeyInv
  <1>4. ASSUME NEW j \in Keys \ {k} PROVE KeyInv(j)'
    BY <1>1, OtherKey DEF LimiterTypeOK
  <1> QED
    BY <1>2, <1>3, <1>4 DEF LimiterInv

\* A restart hands out full buckets and is counted with one.
LEMMA RestartStep ==
  ASSUME LimiterInv, LimiterRestarts
  PROVE  LimiterInv'
  <1> USE DEF LimiterRestarts
  <1>1. LimiterTypeOK
    BY DEF LimiterInv
  <1>2. LimiterTypeOK'
    BY <1>1 DEF LimiterTypeOK
  <1>3. ASSUME NEW k \in Keys PROVE KeyInv(k)'
    <2>1. Potential(k)' = Full
      BY <1>1 DEF Potential, Full
    <2>2. restarts' * Full = restarts * Full + Full
      BY <1>1, FullNat, TimesNext DEF LimiterTypeOK
    <2>3. Supply' = Supply + Full
      BY <1>1, <2>2, TermsNat, FullNat DEF Supply
    <2> QED
      BY <1>1, <2>1, <2>3, TermsNat, FullNat DEF LimiterInv, KeyInv
  <1> QED
    BY <1>2, <1>3 DEF LimiterInv

\* In a tick at most Burst parts flow into a bucket.
LEMMA TickStep ==
  ASSUME LimiterInv, LimiterTick
  PROVE  LimiterInv'
  <1> USE DEF LimiterTick
  <1>1. LimiterTypeOK
    BY DEF LimiterInv
  <1>2. LimiterTypeOK'
    BY <1>1 DEF LimiterTypeOK
  <1>3. ASSUME NEW k \in Keys PROVE KeyInv(k)'
    <2>1. Elapsed(k)' = Elapsed(k) + 1 /\ clock' - mark' = (clock - mark) + 1
      BY <1>1 DEF LimiterTypeOK, Elapsed
    <2>2. (Elapsed(k) + 1) * Burst = Elapsed(k) * Burst + Burst
      BY <1>1, RefilledType, LimiterAssumption, TimesNext
    <2>3. ((clock - mark) + 1) * Burst = (clock - mark) * Burst + Burst
      BY <1>1, LimiterAssumption, TimesNext DEF LimiterTypeOK
    <2>4. Supply' = Supply + Burst
      BY <1>1, <2>1, <2>3, TermsNat, FullNat, LimiterAssumption DEF Supply, Full
    <2>5. Refilled(k)' <= Refilled(k) + Burst /\ Refilled(k)' \in 0 .. Full
      BY <1>1, <1>2, <2>1, <2>2, RefilledType, FullNat, LimiterAssumption
         DEF Refilled, LimiterTypeOK
    <2>6. Potential(k)' <= Potential(k) + Burst /\ Potential(k)' \in 0 .. Full
      BY <2>5, FullNat, LimiterAssumption DEF Potential, Full
    <2>7. allowed'[k] * Window = allowed[k] * Window
      OBVIOUS
    <2> QED
      BY <1>1, <2>4, <2>6, <2>7, TermsNat, FullNat, LimiterAssumption DEF LimiterInv, KeyInv
  <1> QED
    BY <1>2, <1>3 DEF LimiterInv

LEMMA CountingStep ==
  ASSUME LimiterInv, StartCounting
  PROVE  LimiterInv'
  <1> USE DEF StartCounting
  <1>1. LimiterTypeOK
    BY DEF LimiterInv
  <1>2. LimiterTypeOK'
    BY <1>1 DEF LimiterTypeOK
  <1>3. ASSUME NEW k \in Keys PROVE KeyInv(k)'
    <2>1. allowed'[k] * Window = 0 /\ restarts' * Full = 0 /\ (clock' - mark') * Burst = 0
      BY <1>1, LimiterAssumption, FullNat DEF LimiterTypeOK
    <2>2. Potential(k)' = Potential(k)
      BY DEF Potential, Refilled, Elapsed
    <2>3. Supply' = Full
      BY <2>1, FullNat DEF Supply, Full
    <2> QED
      BY <1>1, <2>1, <2>2, <2>3, TermsNat, FullNat DEF KeyInv
  <1> QED
    BY <1>2, <1>3 DEF LimiterInv

LEMMA LimiterStepInv == LimiterInv /\ [LimiterStep]_limiterVars => LimiterInv'
  <1> SUFFICES ASSUME LimiterInv, [LimiterStep]_limiterVars PROVE LimiterInv'
    OBVIOUS
  <1>1. CASE UNCHANGED limiterVars
    BY <1>1 DEF limiterVars, LimiterInv, LimiterTypeOK, KeyInv, Supply, Potential, Refilled, Elapsed
  <1> QED
    BY <1>1, TickStep, RestartStep, CountingStep, AllowFirstStep, AllowStep, RefuseStep, EvictStep
       DEF LimiterStep
-----------------------------------------------------------------------------
(* Calls to the provider.                                                  *)

\* What holds of call k: a second try follows a refresh, the refreshed token is
\* good until somebody revokes it, and a token is read before the margin.
CallInv(k) ==
    /\ k.sent <= 2
    /\ k.pc \in {"new", "ensure", "send"} => k.sent <= 1
    /\ k.pc \in {"denied", "refresh"} => k.sent = 1
    /\ k.pc \in {"new", "ensure"} /\ k.sent = 1 /\ ~k.overtaken => access \notin revoked
    /\ k.pc = "send" =>
         /\ k.token \in 1 .. Len(issued) /\ issued[k.token] >= k.readAt + Margin
         /\ k.sent = 1 /\ ~k.overtaken => k.token \notin revoked
    /\ k.pc = "refused" => k.sent = 2 /\ (k.overtaken \/ hour >= k.readAt + Margin)

ClientInv ==
    /\ ClientTypeOK
    /\ \A c \in Requests : CallInv(call[c])
-----------------------------------------------------------------------------
LEMMA NumberTypes ==
  ASSUME ClientTypeOK
  PROVE  /\ hour \in Nat /\ issued \in Seq(Nat) /\ Len(issued) \in Nat
         /\ DOMAIN issued = 1 .. Len(issued)
         /\ Life \in Nat /\ Margin \in Nat /\ Margin <= Life
         /\ access \in 0 .. Len(issued) /\ revoked \subseteq 1 .. Len(issued)
         /\ \A c \in Requests : call[c] \in Call
  BY ClientAssumption DEF ClientTypeOK, NoToken

LEMMA ClientInitInv == ClientInit => ClientInv
  <1> SUFFICES ASSUME ClientInit PROVE ClientInv
    OBVIOUS
  <1>1. NewCall \in Call
    BY DEF NewCall, Call, Places, NoToken
  <1>2. ClientTypeOK
    BY <1>1, ClientAssumption DEF ClientInit, ClientTypeOK, NoToken
  <1>3. NewCall.pc = "new" /\ NewCall.sent = 0
    BY DEF NewCall
  <1>4. CallInv(NewCall)
    BY <1>3 DEF CallInv
  <1>5. \A c \in Requests : CallInv(call[c])
    BY <1>4 DEF ClientInit
  <1> QED
    BY <1>2, <1>5 DEF ClientInv

\* A step of call c that leaves the client's token and the provider alone.
LEMMA OwnStep ==
  ASSUME ClientInv, NEW c \in Requests, NEW k \in Call, call' = [call EXCEPT ![c] = k],
         UNCHANGED <<hour, access, expiresAt, issued, revoked>>,
         tokenMu' \in Requests \cup {Nobody}, upsets' \in Nat, CallInv(k)
  PROVE  ClientInv'
  <1>1. ClientTypeOK'
    BY DEF ClientInv, ClientTypeOK
  <1>2. ASSUME NEW d \in Requests PROVE CallInv(call[d])'
    <2>1. CASE d = c
      <3>1. call'[d] = k
        BY <2>1 DEF ClientInv, ClientTypeOK
      <3> QED
        BY <3>1 DEF CallInv
    <2>2. CASE d # c
      <3>1. call'[d] = call[d]
        BY <2>2 DEF ClientInv, ClientTypeOK
      <3> QED
        BY <3>1 DEF ClientInv, CallInv
    <2> QED
      BY <2>1, <2>2
  <1> QED
    BY <1>1, <1>2 DEF ClientInv

LEMMA LockStep ==
  ASSUME ClientInv, NEW c \in Requests, Lock(c)
  PROVE  ClientInv'
  <1>1. PICK p \in {"ensure", "refresh"} :
           /\ call' = [call EXCEPT ![c].pc = p]
           /\ p = "ensure" => call[c].pc = "new"
           /\ p = "refresh" => call[c].pc = "denied"
    BY DEF Lock
  <1> DEFINE k == [call[c] EXCEPT !.pc = p]
  <1>2. call' = [call EXCEPT ![c] = k]
    BY <1>1
  <1>3. /\ k \in Call /\ k.pc = p /\ k.sent = call[c].sent /\ k.token = call[c].token
        /\ k.readAt = call[c].readAt /\ k.overtaken = call[c].overtaken
    <2>1. call[c] \in Call /\ p \in Places
      BY NumberTypes DEF ClientInv, Places
    <2> QED
      BY <2>1 DEF Call
  <1>4. CallInv(call[c])
    BY DEF ClientInv
  <1> HIDE DEF k
  <1>5. CallInv(k)
    BY <1>1, <1>3, <1>4 DEF CallInv
  <1> QED
    BY <1>2, <1>3, <1>5, OwnStep DEF Lock, ClientInv, ClientTypeOK

\* A call that takes token t.
LEMMA Carried ==
  ASSUME ClientTypeOK, NEW r \in Call, NEW t \in Nat
  PROVE  LET k == [r EXCEPT !.pc = "send", !.token = t, !.readAt = hour]
         IN  /\ k \in Call /\ k.pc = "send" /\ k.token = t /\ k.readAt = hour
             /\ k.sent = r.sent /\ k.overtaken = r.overtaken
  <1> DEFINE k1 == [r EXCEPT !.pc = "send"]
             k2 == [k1 EXCEPT !.token = t]
             k == [k2 EXCEPT !.readAt = hour]
  <1>1. /\ k1 \in Call /\ k1.pc = "send"
        /\ k1.sent = r.sent /\ k1.overtaken = r.overtaken
    <2>1. "send" \in Places
      BY DEF Places
    <2> QED
      BY <2>1 DEF Call
  <1> HIDE DEF k1
  <1>2. /\ k2 \in Call /\ k2.pc = "send" /\ k2.token = t
        /\ k2.sent = r.sent /\ k2.overtaken = r.overtaken
    BY <1>1 DEF Call
  <1> HIDE DEF k2
  <1>3. /\ k \in Call /\ k.pc = "send" /\ k.token = t /\ k.readAt = hour
        /\ k.sent = r.sent /\ k.overtaken = r.overtaken
    BY <1>2 DEF Call, ClientTypeOK
  <1>4. k = [r EXCEPT !.pc = "send", !.token = t, !.readAt = hour]
    BY DEF k1, k2
  <1> QED
    BY <1>3, <1>4

LEMMA TakeTokenStep ==
  ASSUME ClientInv, NEW c \in Requests, TakeToken(c)
  PROVE  ClientInv'
  <1> DEFINE k == [call[c] EXCEPT !.pc = "send", !.token = access, !.readAt = hour]
  <1>1. call' = [call EXCEPT ![c] = k]
    BY DEF TakeToken, Carry
  <1>2. CallInv(call[c]) /\ call[c].pc = "ensure"
    BY DEF ClientInv, TakeToken
  <1>3. access \in 1 .. Len(issued) /\ issued[access] \in Nat /\ issued[access] > hour + Margin
    BY NumberTypes DEF TakeToken, hasUsableAccessToken, ClientInv, ClientTypeOK, NoToken
  <1>4. /\ k \in Call /\ k.pc = "send" /\ k.token = access /\ k.readAt = hour
        /\ k.sent = call[c].sent /\ k.overtaken = call[c].overtaken
    <2>1. ClientTypeOK /\ call[c] \in Call /\ access \in Nat
      BY NumberTypes DEF ClientInv
    <2> QED
      BY <2>1, Carried
  <1> HIDE DEF k
  <1>5. CallInv(k)
    BY <1>2, <1>3, <1>4, NumberTypes DEF CallInv, ClientInv
  <1> QED
    BY <1>1, <1>4, <1>5, OwnStep DEF TakeToken, ClientInv, ClientTypeOK

\* The second refusal: the token was revoked meanwhile or outlived its margin.
LEMMA SendStep ==
  ASSUME ClientInv, NEW c \in Requests, Send(c)
  PROVE  ClientInv'
  <1> DEFINE p == IF Accepted(call[c].token) THEN "done" ELSE AfterRefusal(c)
             k1 == [call[c] EXCEPT !.sent = call[c].sent + 1]
             k == [k1 EXCEPT !.pc = p]
  <1>1. call' = [call EXCEPT ![c] = k]
    BY DEF Send
  <1>2. CallInv(call[c]) /\ call[c].pc = "send" /\ call[c] \in Call
    BY NumberTypes DEF ClientInv, Send
  <1>3. /\ k1 \in Call /\ k1.sent = call[c].sent + 1 /\ k1.token = call[c].token
        /\ k1.readAt = call[c].readAt /\ k1.overtaken = call[c].overtaken
    BY <1>2 DEF Call
  <1> HIDE DEF k1
  <1>4. p \in Places
    BY DEF Places, AfterRefusal
  <1>5. /\ p \in {"done", "denied", "refused"}
        /\ p = "denied" => call[c].sent = 0
        /\ p = "refused" => call[c].sent # 0 /\ ~Accepted(call[c].token)
    BY DEF AfterRefusal
  <1> HIDE DEF p
  <1>6. /\ k \in Call /\ k.pc = p /\ k.sent = call[c].sent + 1
        /\ k.readAt = call[c].readAt /\ k.overtaken = call[c].overtaken
    BY <1>3, <1>4 DEF Call
  <1> HIDE DEF k
  <1>7. p = "refused" => k.overtaken \/ hour >= k.readAt + Margin
    <2> SUFFICES ASSUME p = "refused", ~k.overtaken PROVE hour >= k.readAt + Margin
      OBVIOUS
    <2>1. call[c].sent = 1
      BY <1>2, <1>5 DEF CallInv, Call
    <2>2. call[c].token \in 1 .. Len(issued) /\ call[c].token \notin revoked
      BY <1>2, <1>6, <2>1 DEF CallInv
    <2>3. ~(hour < issued[call[c].token])
      BY <1>5, <2>2, NumberTypes DEF Accepted, NoToken, ClientInv
    <2>4. issued[call[c].token] >= k.readAt + Margin /\ issued[call[c].token] \in Nat
      BY <1>2, <1>6, <2>2, NumberTypes DEF CallInv, ClientInv
    <2> QED
      BY <1>6, <2>3, <2>4, NumberTypes DEF ClientInv, Call
  <1>8. CallInv(k)
    BY <1>2, <1>5, <1>6, <1>7 DEF CallInv, Call
  <1> QED
    BY <1>1, <1>6, <1>8, OwnStep DEF Send, ClientInv, ClientTypeOK
-----------------------------------------------------------------------------
\* What becomes of the calls when a token is revoked.
LEMMA OvertakenCalls ==
  ASSUME ClientTypeOK
  PROVE  /\ Overtaken \in [Requests -> Call]
         /\ \A d \in Requests :
              /\ Overtaken[d].pc = call[d].pc /\ Overtaken[d].sent = call[d].sent
              /\ Overtaken[d].token = call[d].token /\ Overtaken[d].readAt = call[d].readAt
              /\ call[d].sent # 0 => Overtaken[d].overtaken
  <1>1. ASSUME NEW d \in Requests
        PROVE  LET k == [call[d] EXCEPT !.overtaken = call[d].sent > 0]
               IN  /\ Overtaken[d] = k /\ k \in Call
                   /\ k.pc = call[d].pc /\ k.sent = call[d].sent /\ k.token = call[d].token
                   /\ k.readAt = call[d].readAt
                   /\ call[d].sent # 0 => k.overtaken
    <2> DEFINE b == call[d].sent > 0
    <2>1. b \in BOOLEAN /\ call[d] \in Call /\ Overtaken[d] = [call[d] EXCEPT !.overtaken = b]
      BY NumberTypes DEF Overtaken
    <2>2. call[d].sent # 0 => b
      BY <2>1 DEF Call
    <2> HIDE DEF b
    <2>3. LET k == [call[d] EXCEPT !.overtaken = b]
          IN  /\ k \in Call /\ k.pc = call[d].pc /\ k.sent = call[d].sent
              /\ k.token = call[d].token /\ k.readAt = call[d].readAt
              /\ b => k.overtaken
      BY <2>1 DEF Call
    <2> QED
      BY <2>1, <2>2, <2>3 DEF b
  <1>2. Overtaken \in [Requests -> Call]
    BY <1>1 DEF Overtaken
  <1> QED
    BY <1>1, <1>2

LEMMA RevokeStep ==
  ASSUME ClientInv, Revoke
  PROVE  ClientInv'
  <1>1. ClientTypeOK
    BY DEF ClientInv
  <1>2. ClientTypeOK'
    BY <1>1, OvertakenCalls, NumberTypes DEF Revoke, ClientTypeOK, NoToken
  <1>3. ASSUME NEW d \in Requests PROVE CallInv(call[d])'
    <2>1. CallInv(call[d]) /\ call[d] \in Call
      BY <1>1, NumberTypes DEF ClientInv
    <2>2. /\ call'[d].pc = call[d].pc /\ call'[d].sent = call[d].sent
          /\ call'[d].token = call[d].token /\ call'[d].readAt = call[d].readAt
          /\ call[d].sent # 0 => call'[d].overtaken
      BY <1>1, OvertakenCalls DEF Revoke
    <2>3. UNCHANGED <<hour, access, issued>>
      BY DEF Revoke
    <2> QED
      BY <2>1, <2>2, <2>3 DEF CallInv
  <1> QED
    BY <1>2, <1>3 DEF ClientInv

LEMMA ClientTickStep ==
  ASSUME ClientInv, ClientTick
  PROVE  ClientInv'
  <1>1. ClientTypeOK'
    BY ClientAssumption DEF ClientTick, ClientInv, ClientTypeOK
  <1>2. ASSUME NEW d \in Requests PROVE CallInv(call[d])'
    <2>1. CallInv(call[d]) /\ call[d] \in Call
      BY NumberTypes DEF ClientInv
    <2>2. call'[d] = call[d] /\ UNCHANGED <<access, issued, revoked>>
      BY DEF ClientTick
    <2>3. hour' = hour + 1 /\ hour \in Nat /\ Margin \in Nat
      BY NumberTypes DEF ClientTick, ClientInv
    <2> QED
      BY <2>1, <2>2, <2>3 DEF CallInv, Call
  <1> QED
    BY <1>1, <1>2 DEF ClientInv

\* A new token: no call holds it yet, and if the provider revokes the old one
\* with it, calls under way that were refused are overtaken.
LEMMA IssueStep ==
  ASSUME ClientInv, NEW c \in Requests, Issue(c)
  PROVE  ClientInv'
  <1> DEFINE n == Len(issued) + 1
             seen == IF revoked' = revoked THEN call ELSE Overtaken
  <1>1. /\ issued' = Append(issued, hour + Life) /\ access' = n /\ expiresAt' = hour + Life
        /\ revoked' \in {revoked, revoked \cup ({access} \ {NoToken})}
        /\ tokenMu' = Nobody /\ UNCHANGED <<hour, upsets>>
        /\ \/ call[c].pc = "ensure" /\ call' = Carry(seen, c, n)
           \/ call[c].pc = "refresh"
              /\ call' = [seen EXCEPT ![c] = [seen[c] EXCEPT !.pc = "new", !.overtaken = FALSE]]
    BY DEF Issue
  <1>2. ClientTypeOK
    BY DEF ClientInv
  <1>3. /\ issued' \in Seq(Nat) /\ Len(issued)' = n /\ n = Len(issued) + 1
        /\ n \in Nat /\ issued'[n] = hour + Life
        /\ \A t \in 1 .. Len(issued) : issued'[t] = issued[t]
        /\ DOMAIN issued' = 1 .. n
    BY <1>1, <1>2, NumberTypes
  <1>4. revoked \subseteq revoked' /\ revoked' \subseteq 1 .. Len(issued)
    BY <1>1, <1>2, NumberTypes DEF NoToken
  <1>5. n \notin revoked' /\ access' = n /\ hour' = hour
    BY <1>1, <1>2, <1>4, NumberTypes
  <1>6. /\ seen \in [Requests -> Call]
        /\ \A d \in Requests :
             /\ seen[d].pc = call[d].pc /\ seen[d].sent = call[d].sent
             /\ seen[d].token = call[d].token
             /\ seen[d].readAt = call[d].readAt
             /\ revoked' # revoked /\ call[d].sent # 0 => seen[d].overtaken
             /\ revoked' = revoked => seen[d] = call[d]
    BY <1>2, OvertakenCalls DEF ClientTypeOK
  <1> HIDE DEF seen, n
  <1>7. PICK k \in Call : call' = [seen EXCEPT ![c] = k] /\ CallInv(k)'
    <2>1. CallInv(call[c])
      BY DEF ClientInv
    <2>2. CASE call[c].pc = "ensure" /\ call' = Carry(seen, c, n)
      <3>1. PICK k \in Call : /\ call' = [seen EXCEPT ![c] = k]
                              /\ k.pc = "send" /\ k.token = n /\ k.readAt = hour
                              /\ k.sent = seen[c].sent
        <4> DEFINE k == [seen[c] EXCEPT !.pc = "send", !.token = n, !.readAt = hour]
        <4>1. call' = [seen EXCEPT ![c] = k]
          BY <2>2 DEF Carry
        <4>2. n \in Nat /\ seen[c] \in Call
          BY <1>3, <1>6
        <4>3. k \in Call /\ k.pc = "send" /\ k.token = n /\ k.readAt = hour /\ k.sent = seen[c].sent
          BY <1>2, <4>2, Carried
        <4> HIDE DEF k
        <4> QED
          BY <4>1, <4>3
      <3>2. k.token \in 1 .. Len(issued)' /\ issued'[k.token] >= k.readAt + Margin
        BY <1>2, <1>3, <3>1, NumberTypes
      <3>3. CallInv(k)'
        <4>1. k.sent <= 1
          BY <1>6, <2>1, <2>2, <3>1 DEF CallInv
        <4> QED
          BY <1>5, <3>1, <3>2, <4>1 DEF CallInv, Call
      <3> QED
        BY <3>1, <3>3
    <2>3. CASE /\ call[c].pc = "refresh"
               /\ call' = [seen EXCEPT ![c] = [seen[c] EXCEPT !.pc = "new", !.overtaken = FALSE]]
      <3>1. PICK k \in Call : /\ call' = [seen EXCEPT ![c] = k]
                              /\ k.pc = "new" /\ k.sent = seen[c].sent
        <4> DEFINE k1 == [seen[c] EXCEPT !.pc = "new"]
                   k == [k1 EXCEPT !.overtaken = FALSE]
        <4>1. seen[c] \in Call /\ "new" \in Places
          BY <1>6 DEF Places
        <4>2. k1 \in Call /\ k1.pc = "new" /\ k1.sent = seen[c].sent
          BY <4>1 DEF Call
        <4>3. call' = [seen EXCEPT ![c] = k]
          BY <2>3
        <4> HIDE DEF k1
        <4>4. k \in Call /\ k.pc = "new" /\ k.sent = seen[c].sent
          BY <4>2 DEF Call
        <4> QED
          BY <4>3, <4>4
      <3>2. CallInv(k)'
        <4>1. k.sent = 1
          BY <1>6, <2>1, <2>3, <3>1 DEF CallInv
        <4> QED
          BY <1>5, <3>1, <4>1 DEF CallInv
      <3> QED
        BY <3>1, <3>2
    <2> QED
      BY <1>1, <2>2, <2>3
  <1>8. ClientTypeOK'
    BY <1>1, <1>2, <1>3, <1>4, <1>6, <1>7, NumberTypes DEF ClientTypeOK, NoToken
  <1>9. ASSUME NEW d \in Requests PROVE CallInv(call[d])'
    <2>1. CASE d = c
      BY <1>6, <1>7, <2>1
    <2>2. CASE d # c
      <3>1. call'[d] = seen[d]
        BY <1>6, <1>7, <2>2
      <3>2. CallInv(call[d]) /\ call[d] \in Call
        BY <1>2, NumberTypes DEF ClientInv
      <3>3. call[d].pc = "send" =>
              /\ call[d].token \in 1 .. Len(issued)'
              /\ issued'[call[d].token] = issued[call[d].token]
              /\ call[d].token \in 1 .. Len(issued)
        BY <1>2, <1>3, <3>2, NumberTypes DEF CallInv
      <3>4. CASE revoked' = revoked
        <4>1. call'[d] = call[d]
          BY <1>6, <3>1, <3>4
        <4> QED
          BY <1>5, <3>2, <3>3, <3>4, <4>1 DEF CallInv
      <3>5. CASE revoked' # revoked
        <4>1. /\ call'[d].pc = call[d].pc /\ call'[d].sent = call[d].sent
              /\ call'[d].token = call[d].token /\ call'[d].readAt = call[d].readAt
              /\ call[d].sent # 0 => call'[d].overtaken
          BY <1>6, <3>1, <3>5
        <4> QED
          BY <1>5, <3>2, <3>3, <4>1 DEF CallInv
      <3> QED
        BY <3>4, <3>5
    <2> QED
      BY <2>1, <2>2
  <1> QED
    BY <1>8, <1>9 DEF ClientInv
\* A new token for a call that fails: the token's expiry could not be parsed.
LEMMA UnparsedStep ==
  ASSUME ClientInv, NEW c \in Requests, IssueFails(c), IssuedUnparsed
  PROVE  ClientInv'
  <1> DEFINE n == Len(issued) + 1
             seen == IF revoked' = revoked THEN call ELSE Overtaken
  <1>1. /\ issued' = Append(issued, hour + Life) /\ access' = n
        /\ revoked' \in {revoked, revoked \cup ({access} \ {NoToken})}
        /\ tokenMu' = Nobody /\ upsets' = upsets + 1 /\ UNCHANGED <<hour, expiresAt>>
        /\ call' = [seen EXCEPT ![c] = [seen[c] EXCEPT !.pc = "failed"]]
    BY DEF IssueFails, IssuedUnparsed
  <1>2. ClientTypeOK
    BY DEF ClientInv
  <1>3. /\ issued' \in Seq(Nat) /\ Len(issued)' = n /\ n = Len(issued) + 1
        /\ n \in Nat /\ issued'[n] = hour + Life
        /\ \A t \in 1 .. Len(issued) : issued'[t] = issued[t]
        /\ DOMAIN issued' = 1 .. n
    BY <1>1, <1>2, NumberTypes
  <1>4. revoked \subseteq revoked' /\ revoked' \subseteq 1 .. Len(issued)
    BY <1>1, <1>2, NumberTypes DEF NoToken
  <1>5. n \notin revoked' /\ access' = n /\ hour' = hour
    BY <1>1, <1>2, <1>4, NumberTypes
  <1>6. /\ seen \in [Requests -> Call]
        /\ \A d \in Requests :
             /\ seen[d].pc = call[d].pc /\ seen[d].sent = call[d].sent
             /\ seen[d].token = call[d].token
             /\ seen[d].readAt = call[d].readAt
             /\ revoked' # revoked /\ call[d].sent # 0 => seen[d].overtaken
             /\ revoked' = revoked => seen[d] = call[d]
    BY <1>2, OvertakenCalls DEF ClientTypeOK
  <1> HIDE DEF seen, n
  <1>7. PICK k \in Call : /\ call' = [seen EXCEPT ![c] = k]
                          /\ k.pc = "failed" /\ k.sent = call[c].sent
    <2> DEFINE k == [seen[c] EXCEPT !.pc = "failed"]
    <2>1. seen[c] \in Call /\ "failed" \in Places /\ seen[c].sent = call[c].sent
      BY <1>6 DEF Places
    <2>2. k \in Call /\ k.pc = "failed" /\ k.sent = call[c].sent
      BY <2>1 DEF Call
    <2>3. call' = [seen EXCEPT ![c] = k]
      BY <1>1
    <2> HIDE DEF k
    <2> QED
      BY <2>2, <2>3
  <1>8. CallInv(k)'
    <2>1. CallInv(call[c])
      BY DEF ClientInv
    <2> QED
      BY <1>7, <2>1 DEF CallInv
  <1>9. ClientTypeOK'
    <2>1. call' \in [Requests -> Call]
      BY <1>6, <1>7
    <2>2. expiresAt' \in Nat /\ expiresAt' <= hour' + Life
      BY <1>1, <1>2 DEF ClientTypeOK
    <2>3. expiresAt' <= issued'[access']
      BY <1>1, <1>2, <1>3 DEF ClientTypeOK
    <2>4. access' \in DOMAIN issued' /\ revoked' \subseteq DOMAIN issued'
      BY <1>1, <1>2, <1>3, <1>4, NumberTypes
    <2> QED
      BY <1>1, <1>2, <1>3, <2>1, <2>2, <2>3, <2>4 DEF ClientTypeOK
  <1>10. ASSUME NEW d \in Requests PROVE CallInv(call[d])'
    <2>1. CASE d = c
      BY <1>6, <1>7, <1>8, <2>1
    <2>2. CASE d # c
      <3>1. call'[d] = seen[d]
        BY <1>6, <1>7, <2>2
      <3>2. CallInv(call[d]) /\ call[d] \in Call
        BY <1>2, NumberTypes DEF ClientInv
      <3>3. call[d].pc = "send" =>
              /\ call[d].token \in 1 .. Len(issued)'
              /\ issued'[call[d].token] = issued[call[d].token]
              /\ call[d].token \in 1 .. Len(issued)
        BY <1>2, <1>3, <3>2, NumberTypes DEF CallInv
      <3>4. CASE revoked' = revoked
        <4>1. call'[d] = call[d]
          BY <1>6, <3>1, <3>4
        <4> QED
          BY <1>5, <3>2, <3>3, <3>4, <4>1 DEF CallInv
      <3>5. CASE revoked' # revoked
        <4>1. /\ call'[d].pc = call[d].pc /\ call'[d].sent = call[d].sent
              /\ call'[d].token = call[d].token /\ call'[d].readAt = call[d].readAt
              /\ call[d].sent # 0 => call'[d].overtaken
          BY <1>6, <3>1, <3>5
        <4> QED
          BY <1>5, <3>2, <3>3, <4>1 DEF CallInv
      <3> QED
        BY <3>4, <3>5
    <2> QED
      BY <2>1, <2>2
  <1> QED
    BY <1>9, <1>10 DEF ClientInv

\* A call for which no token was issued, or one whose expiry cannot be parsed.
LEMMA IssueFailsStep ==
  ASSUME ClientInv, NEW c \in Requests, IssueFails(c)
  PROVE  ClientInv'
  <1>1. CASE UNCHANGED <<access, issued, revoked>>
    <2> DEFINE k == [call[c] EXCEPT !.pc = "failed"]
    <2>1. call' = [call EXCEPT ![c] = k]
      BY <1>1 DEF IssueFails
    <2>2. k \in Call /\ k.pc = "failed" /\ k.sent = call[c].sent
      <3>1. call[c] \in Call /\ "failed" \in Places
        BY NumberTypes DEF ClientInv, Places
      <3> QED
        BY <3>1 DEF Call
    <2>3. CallInv(call[c])
      BY DEF ClientInv
    <2> HIDE DEF k
    <2>4. CallInv(k)
      BY <2>2, <2>3 DEF CallInv
    <2>5. upsets' \in Nat /\ tokenMu' \in Requests \cup {Nobody}
      BY DEF IssueFails, ClientInv, ClientTypeOK
    <2>6. UNCHANGED <<hour, access, expiresAt, issued, revoked>>
      BY <1>1 DEF IssueFails
    <2> QED
      BY <2>1, <2>2, <2>4, <2>5, <2>6, OwnStep
  <1>2. CASE IssuedUnparsed
    BY <1>2, UnparsedStep
  <1> QED
    BY <1>1, <1>2 DEF IssueFails

-----------------------------------------------------------------------------
LEMMA ClientStepInv == ClientInv /\ [ClientStep]_clientVars => ClientInv'
  <1> SUFFICES ASSUME ClientInv, [ClientStep]_clientVars PROVE ClientInv'
    OBVIOUS
  <1>1. CASE UNCHANGED clientVars
    BY <1>1 DEF clientVars, ClientInv, ClientTypeOK, CallInv
  <1> QED
    BY <1>1, LockStep, TakeTokenStep, IssueStep, IssueFailsStep, SendStep, RevokeStep,
       ClientTickStep DEF ClientStep
-----------------------------------------------------------------------------
(* Walks: the rows already walked past and those still ahead.              *)

\* The rows of a list up to position n and after it.
Upto(s, n) == {s[i] : i \in {j \in DOMAIN s : j <= n}}
Beyond(s, n) == {s[i] : i \in {j \in DOMAIN s : j > n}}

Apart(s) == \A i, j \in DOMAIN s : s[i] = s[j] => i = j

Walk == [pc : {"start", "count", "fetch", "end"}, page : Nat, count : Nat,
         shown : Seq(1 .. MaxRows), initial : SUBSET (1 .. MaxRows),
         gone : SUBSET (1 .. MaxRows), left : Nat, arrived : Nat, between : Nat]

\* Rows that matched all the time and that the walk went past without showing
\* them, and rows it has shown and will see again.
Lost == ((walk.initial \ walk.gone) \cap Upto(list, Skip(walk.page))) \ Rows(walk.shown)
Again == Rows(walk.shown) \cap Beyond(list, Skip(walk.page))

WalkTypes ==
    /\ walk \in Walk /\ list \in Seq(1 .. MaxRows) /\ Apart(list)
    /\ created \in 0 .. MaxRows /\ Rows(list) \cup aside \subseteq 1 .. created
    /\ Rows(list) \cap aside = {} /\ Rows(walk.shown) \subseteq 1 .. created
    /\ walk.pc = "start" => walk = NoWalk

\* What matched all the time is in the list.
WalkRows ==
    walk.pc # "start" => walk.page >= 1 /\ walk.initial \ walk.gone \subseteq Rows(list)

WalkCounts ==
    walk.pc \in {"count", "fetch"} =>
        /\ Cardinality(Lost) <= walk.left
        /\ Len(walk.shown) - Cardinality(Rows(walk.shown)) + Cardinality(Again) <= walk.arrived
        /\ walk.pc = "fetch" => Len(list) <= walk.count + walk.between

ListingInv == WalkTypes /\ WalkRows /\ WalkCounts /\ PagesComplete
-----------------------------------------------------------------------------
(* Lists.                                                                  *)

LEMMA RowsFinite ==
  ASSUME NEW S, NEW s \in Seq(S)
  PROVE  /\ Rows(s) \subseteq S /\ IsFiniteSet(Rows(s)) /\ Cardinality(Rows(s)) \in Nat
         /\ Cardinality(Rows(s)) <= Len(s)
         /\ Apart(s) => Cardinality(Rows(s)) = Len(s)
         /\ Len(s) \in Nat /\ DOMAIN s = 1 .. Len(s)
  <1>1. Len(s) \in Nat /\ DOMAIN s = 1 .. Len(s) /\ s \in [1 .. Len(s) -> S]
    BY LenProperties
  <1>2. s \in Surjection(1 .. Len(s), Rows(s)) /\ Rows(s) \subseteq S
    BY <1>1 DEF Surjection, Rows
  <1>3. IsFiniteSet(1 .. Len(s)) /\ Cardinality(1 .. Len(s)) = Len(s)
    <2>1. PICK n \in Nat : n = Len(s)
      BY <1>1
    <2>2. IsFiniteSet(1 .. n) /\ Cardinality(1 .. n) = IF 1 > n THEN 0 ELSE n - 1 + 1
      BY FS_Interval
    <2>3. Cardinality(1 .. n) = n
      BY <2>2
    <2> QED
      BY <2>1, <2>2, <2>3
  <1>4. /\ IsFiniteSet(Rows(s)) /\ Cardinality(Rows(s)) <= Len(s)
        /\ Cardinality(Rows(s)) = Len(s) <=> s \in Injection(1 .. Len(s), Rows(s))
    BY <1>2, <1>3, FS_Surjection
  <1>5. Apart(s) => s \in Injection(1 .. Len(s), Rows(s))
    BY <1>1, <1>2 DEF Apart, Injection, IsInjective, Surjection
  <1> QED
    BY <1>1, <1>2, <1>4, <1>5, FS_CardinalityType

LEMMA HowMany ==
  ASSUME NEW S, NEW s \in Seq(S), NEW T, T \subseteq DOMAIN s
  PROVE  Cardinality(T) \in Nat /\ Cardinality(T) <= Len(s)
  <1>1. Len(s) \in Nat /\ DOMAIN s = 1 .. Len(s)
    BY LenProperties
  <1>2. IsFiniteSet(1 .. Len(s)) /\ Cardinality(1 .. Len(s)) = Len(s)
    <2>1. PICK n \in Nat : n = Len(s)
      BY <1>1
    <2>2. IsFiniteSet(1 .. n) /\ Cardinality(1 .. n) = IF 1 > n THEN 0 ELSE n - 1 + 1
      BY FS_Interval
    <2>3. Cardinality(1 .. n) = n
      BY <2>2
    <2> QED
      BY <2>1, <2>2, <2>3
  <1>3. T \in SUBSET (1 .. Len(s))
    BY <1>1
  <1>4. IsFiniteSet(T) /\ Cardinality(T) <= Cardinality(1 .. Len(s))
    BY <1>2, <1>3, FS_Subset
  <1> QED
    BY <1>2, <1>4, FS_CardinalityType

LEMMA Joined ==
  ASSUME NEW S, NEW s \in Seq(S), NEW t \in Seq(S)
  PROVE  s \o t \in Seq(S) /\ Len(s \o t) = Len(s) + Len(t) /\ Rows(s \o t) = Rows(s) \cup Rows(t)
  <1> DEFINE u == s \o t
  <1>1. /\ u \in Seq(S) /\ Len(u) = Len(s) + Len(t)
        /\ \A i \in 1 .. Len(s) + Len(t) : u[i] = IF i <= Len(s) THEN s[i] ELSE t[i - Len(s)]
    BY ConcatProperties
  <1>2. /\ Len(s) \in Nat /\ Len(t) \in Nat /\ DOMAIN s = 1 .. Len(s) /\ DOMAIN t = 1 .. Len(t)
        /\ DOMAIN u = 1 .. Len(u)
    BY <1>1, LenProperties
  <1> HIDE DEF u
  <1>3. ASSUME NEW i \in DOMAIN s PROVE s[i] \in Rows(u)
    <2>1. i \in DOMAIN u /\ u[i] = s[i]
      BY <1>1, <1>2
    <2> QED
      BY <2>1 DEF Rows
  <1>4. ASSUME NEW i \in DOMAIN t PROVE t[i] \in Rows(u)
    <2>1. i + Len(s) \in DOMAIN u /\ u[i + Len(s)] = t[i]
      BY <1>1, <1>2
    <2> QED
      BY <2>1 DEF Rows
  <1>5. ASSUME NEW i \in DOMAIN u PROVE u[i] \in Rows(s) \cup Rows(t)
    <2>1. CASE i <= Len(s)
      BY <1>1, <1>2, <2>1 DEF Rows
    <2>2. CASE ~(i <= Len(s))
      <3>1. u[i] = t[i - Len(s)] /\ i - Len(s) \in DOMAIN t
        BY <1>1, <1>2, <2>2
      <3> QED
        BY <3>1 DEF Rows
    <2> QED
      BY <2>1, <2>2
  <1>6. Rows(u) = Rows(s) \cup Rows(t)
    BY <1>3, <1>4, <1>5 DEF Rows
  <1> QED
    BY <1>1, <1>6 DEF u

\* A stretch of a list.
LEMMA Stretch ==
  ASSUME NEW S, NEW s \in Seq(S), NEW k \in Nat, NEW n \in Nat, k <= n, n <= Len(s)
  PROVE  /\ SubSeq(s, k + 1, n) \in Seq(S) /\ Len(SubSeq(s, k + 1, n)) = n - k
         /\ DOMAIN SubSeq(s, k + 1, n) = 1 .. n - k
         /\ \A i \in 1 .. n - k : i + k \in DOMAIN s /\ SubSeq(s, k + 1, n)[i] = s[i + k]
  <1> DEFINE a == SubSeq(s, k + 1, n)
  <1>1. Len(s) \in Nat /\ DOMAIN s = 1 .. Len(s) /\ \A i \in 1 .. Len(s) : s[i] \in S
    BY LenProperties, ElementOfSeq
  <1>2. \A i \in k + 1 .. n : s[i] \in S
    BY <1>1
  <1>3. k + 1 \in Int /\ n \in Int
    OBVIOUS
  <1>4. /\ a \in Seq(S) /\ Len(a) = IF k + 1 <= n THEN n - (k + 1) + 1 ELSE 0
        /\ \A i \in 1 .. n - (k + 1) + 1 : a[i] = s[(k + 1) + i - 1]
    BY <1>2, <1>3, SubSeqProperties
  <1> HIDE DEF a
  <1>5. n - (k + 1) + 1 = n - k /\ Len(a) = n - k
    BY <1>4
  <1>6. ASSUME NEW i \in 1 .. n - k PROVE i + k \in DOMAIN s /\ a[i] = s[i + k]
    <2>1. a[i] = s[(k + 1) + i - 1]
      BY <1>4, <1>5
    <2>2. (k + 1) + i - 1 = i + k /\ i + k \in 1 .. Len(s)
      BY <1>1
    <2> QED
      BY <1>1, <2>1, <2>2
  <1>7. DOMAIN a = 1 .. n - k
    BY <1>4, <1>5, LenProperties
  <1> QED
    BY <1>4, <1>5, <1>6, <1>7 DEF a

LEMMA Shifted ==
  ASSUME NEW n \in Nat, NEW j \in 1 .. n, NEW i \in 1 .. n - 1, ~(i < j)
  PROVE  /\ i - (j - 1) \in 1 .. n - j /\ (i - (j - 1)) + j = i + 1 /\ ~(i <= j - 1)
         /\ i \in 1 .. (j - 1) + (n - j)
  OBVIOUS

\* The list without the row at position j.
Without(s, j) == SubSeq(s, 1, j - 1) \o SubSeq(s, j + 1, Len(s))

LEMMA Removed ==
  ASSUME NEW S, NEW s \in Seq(S), NEW j \in DOMAIN s,
         NEW u, u = Without(s, j)
  PROVE  /\ u \in Seq(S) /\ Len(u) = Len(s) - 1 /\ DOMAIN u = 1 .. Len(s) - 1
         /\ \A i \in DOMAIN u : u[i] = IF i < j THEN s[i] ELSE s[i + 1]
  <1> DEFINE a == SubSeq(s, 1, j - 1)
             b == SubSeq(s, j + 1, Len(s))
             n == Len(s)
  <1>1. n \in Nat /\ DOMAIN s = 1 .. n /\ j \in 1 .. n
    BY LenProperties
  <1>2. a \in Seq(S) /\ Len(a) = j - 1 /\ \A i \in 1 .. j - 1 : a[i] = s[i]
    <2>1. 0 \in Nat /\ j - 1 \in Nat /\ 0 <= j - 1 /\ j - 1 <= Len(s) /\ 0 + 1 = 1
      BY <1>1
    <2>2. /\ SubSeq(s, 0 + 1, j - 1) \in Seq(S) /\ Len(SubSeq(s, 0 + 1, j - 1)) = j - 1 - 0
          /\ \A i \in 1 .. j - 1 - 0 : SubSeq(s, 0 + 1, j - 1)[i] = s[i + 0]
      BY <2>1, Stretch
    <2>3. /\ a \in Seq(S) /\ Len(a) = j - 1 - 0 /\ \A i \in 1 .. j - 1 - 0 : a[i] = s[i + 0]
      BY <2>1, <2>2
    <2> HIDE DEF a
    <2>4. j - 1 - 0 = j - 1 /\ \A i \in Int : i + 0 = i
      BY <1>1
    <2> QED
      BY <2>3, <2>4
  <1>3. b \in Seq(S) /\ Len(b) = n - j /\ \A i \in 1 .. n - j : b[i] = s[i + j]
    <2>1. j \in Nat /\ Len(s) \in Nat /\ j <= Len(s) /\ Len(s) <= Len(s)
      BY <1>1
    <2> QED
      BY <2>1, Stretch
  <1>4. /\ u \in Seq(S) /\ Len(u) = Len(a) + Len(b)
        /\ \A i \in 1 .. Len(a) + Len(b) : u[i] = IF i <= Len(a) THEN a[i] ELSE b[i - Len(a)]
    BY <1>2, <1>3, ConcatProperties DEF Without
  <1>5. n = Len(s)
    OBVIOUS
  <1> HIDE DEF a, b, n
  <1>6. Len(u) = n - 1 /\ DOMAIN u = 1 .. n - 1
    BY <1>1, <1>2, <1>3, <1>4, LenProperties
  <1>7. ASSUME NEW i \in 1 .. n - 1 PROVE u[i] = IF i < j THEN s[i] ELSE s[i + 1]
    <2>1. CASE i < j
      BY <1>1, <1>2, <1>3, <1>4, <2>1
    <2>2. CASE ~(i < j)
      <3> DEFINE k == i - (j - 1)
      <3>a. /\ k \in 1 .. n - j /\ k + j = i + 1 /\ i - Len(a) = k /\ ~(i <= Len(a))
            /\ i \in 1 .. Len(a) + Len(b)
        BY <1>1, <1>2, <1>3, <2>2, Shifted
      <3>b. u[i] = b[i - Len(a)]
        BY <1>4, <3>a
      <3>1. u[i] = b[k] /\ k \in 1 .. n - j /\ k + j = i + 1
        BY <3>a, <3>b
      <3> HIDE DEF k
      <3>2. b[k] = s[k + j]
        BY <1>3, <3>1
      <3>3. u[i] = s[i + 1]
        BY <3>1, <3>2
      <3> QED
        BY <2>2, <3>3
    <2> QED
      BY <2>1, <2>2
  <1> QED
    BY <1>4, <1>5, <1>6, <1>7

\* What the removal of a row does to the front and the rest.
LEMMA RemovedParts ==
  ASSUME NEW S, NEW s \in Seq(S), Apart(s), NEW j \in DOMAIN s, NEW n \in Nat,
         NEW u, u = Without(s, j)
  PROVE  /\ u \in Seq(S) /\ Apart(u) /\ Rows(u) = Rows(s) \ {s[j]} /\ Len(u) = Len(s) - 1
         /\ Beyond(u, n) \subseteq Beyond(s, n)
         /\ Upto(u, n) \subseteq Upto(s, n) \cup {s[n + 1]}
  <1> DEFINE m == Len(s)
  <1>1. m \in Nat /\ DOMAIN s = 1 .. m /\ j \in 1 .. m
    BY LenProperties
  <1>2. /\ u \in Seq(S) /\ Len(u) = m - 1 /\ DOMAIN u = 1 .. m - 1
        /\ \A i \in DOMAIN u : u[i] = IF i < j THEN s[i] ELSE s[i + 1]
    BY Removed
  <1> HIDE DEF m
  <1>3. \A i \in DOMAIN u : i \in DOMAIN s /\ i + 1 \in DOMAIN s
    BY <1>1, <1>2
  <1>4. Apart(u)
    <2> SUFFICES ASSUME NEW a \in DOMAIN u, NEW b \in DOMAIN u, u[a] = u[b]
                 PROVE  a = b
      BY DEF Apart
    <2>1. PICK x \in DOMAIN s : u[a] = s[x] /\ x = IF a < j THEN a ELSE a + 1
      BY <1>2, <1>3
    <2>2. PICK y \in DOMAIN s : u[b] = s[y] /\ y = IF b < j THEN b ELSE b + 1
      BY <1>2, <1>3
    <2>3. x = y
      BY <2>1, <2>2 DEF Apart
    <2> QED
      BY <1>1, <1>2, <2>1, <2>2, <2>3
  <1>5. ASSUME NEW a \in DOMAIN u PROVE u[a] \in Rows(s) /\ u[a] # s[j]
    <2>1. PICK x \in DOMAIN s : u[a] = s[x] /\ x = IF a < j THEN a ELSE a + 1
      BY <1>2, <1>3
    <2>2. x # j
      BY <1>1, <1>2, <2>1
    <2> QED
      BY <1>1, <2>1, <2>2 DEF Apart, Rows
  <1>6. ASSUME NEW x \in DOMAIN s, s[x] # s[j] PROVE s[x] \in Rows(u)
    <2>1. CASE x < j
      <3>1. x \in DOMAIN u /\ u[x] = s[x]
        BY <1>1, <1>2, <2>1
      <3> QED
        BY <3>1 DEF Rows
    <2>2. CASE x > j
      <3>1. x - 1 \in DOMAIN u /\ ~(x - 1 < j) /\ (x - 1) + 1 = x
        BY <1>1, <1>2, <2>2
      <3>2. u[x - 1] = s[x]
        BY <1>2, <3>1
      <3> QED
        BY <3>1, <3>2 DEF Rows
    <2> QED
      BY <1>1, <1>6, <2>1, <2>2
  <1>7. Rows(u) = Rows(s) \ {s[j]}
    BY <1>5, <1>6 DEF Rows
  <1>8. ASSUME NEW a \in DOMAIN u, a > n PROVE u[a] \in Beyond(s, n)
    <2>1. PICK x \in DOMAIN s : u[a] = s[x] /\ x = IF a < j THEN a ELSE a + 1
      BY <1>2, <1>3
    <2>2. x > n
      BY <1>1, <1>2, <1>8, <2>1
    <2> QED
      BY <2>1, <2>2 DEF Beyond
  <1>9. ASSUME NEW a \in DOMAIN u, a <= n PROVE u[a] \in Upto(s, n) \cup {s[n + 1]}
    <2>1. PICK x \in DOMAIN s : u[a] = s[x] /\ x = IF a < j THEN a ELSE a + 1
      BY <1>2, <1>3
    <2>2. x <= n \/ x = n + 1
      BY <1>1, <1>2, <1>9, <2>1
    <2> QED
      BY <2>1, <2>2 DEF Upto
  <1>10. Beyond(u, n) \subseteq Beyond(s, n)
    BY <1>8 DEF Beyond
  <1>11. Upto(u, n) \subseteq Upto(s, n) \cup {s[n + 1]}
    BY <1>9 DEF Upto
  <1> QED
    BY <1>2, <1>4, <1>7, <1>10, <1>11 DEF m

\* The list u is s with row x after its first j rows.
Grows(u, s, j, x) ==
    /\ Len(u) = Len(s) + 1 /\ DOMAIN u = 1 .. Len(s) + 1
    /\ \A i \in DOMAIN u : u[i] = IF i <= j THEN s[i] ELSE IF i = j + 1 THEN x ELSE s[i - 1]

LEMMA Inserted ==
  ASSUME NEW S, NEW s \in Seq(S), NEW j \in Nat, j <= Len(s), NEW x \in S,
         NEW u, u = Placed(s, j, x)
  PROVE  u \in Seq(S) /\ Grows(u, s, j, x)
  <1> DEFINE a == SubSeq(s, 1, j)
             b == SubSeq(s, j + 1, Len(s))
             c == <<x>>
             n == Len(s)
             ac == a \o c
  <1>1. n \in Nat /\ DOMAIN s = 1 .. n /\ j \in Nat /\ j <= n
    BY LenProperties
  <1>2. a \in Seq(S) /\ Len(a) = j /\ \A i \in 1 .. j : a[i] = s[i]
    <2>1. 0 \in Nat /\ j \in Nat /\ 0 <= j /\ j <= Len(s) /\ 0 + 1 = 1
      BY <1>1
    <2>2. /\ SubSeq(s, 0 + 1, j) \in Seq(S) /\ Len(SubSeq(s, 0 + 1, j)) = j - 0
          /\ \A i \in 1 .. j - 0 : SubSeq(s, 0 + 1, j)[i] = s[i + 0]
      BY <2>1, Stretch
    <2>3. a \in Seq(S) /\ Len(a) = j - 0 /\ \A i \in 1 .. j - 0 : a[i] = s[i + 0]
      BY <2>1, <2>2
    <2> HIDE DEF a
    <2>4. j - 0 = j /\ \A i \in Int : i + 0 = i
      BY <1>1
    <2> QED
      BY <2>3, <2>4
  <1>3. b \in Seq(S) /\ Len(b) = n - j /\ \A i \in 1 .. n - j : b[i] = s[i + j]
    <2>1. j \in Nat /\ Len(s) \in Nat /\ j <= Len(s) /\ Len(s) <= Len(s)
      BY <1>1
    <2> QED
      BY <2>1, Stretch
  <1>4. c \in Seq(S) /\ Len(c) = 1 /\ c[1] = x
    OBVIOUS
  <1>5. u = ac \o b
    BY DEF Placed
  <1> HIDE DEF a, b, c, n, ac
  <1>6. /\ ac \in Seq(S) /\ Len(ac) = j + 1
        /\ \A i \in 1 .. j + 1 : ac[i] = IF i <= j THEN a[i] ELSE c[i - j]
    BY <1>2, <1>4, ConcatProperties DEF ac
  <1>7. /\ u \in Seq(S) /\ Len(u) = (j + 1) + (n - j)
        /\ \A i \in 1 .. (j + 1) + (n - j) :
             u[i] = IF i <= j + 1 THEN ac[i] ELSE b[i - (j + 1)]
    <2>1. ac \in Seq(S) /\ b \in Seq(S)
      BY <1>3, <1>6
    <2>2. /\ ac \o b \in Seq(S) /\ Len(ac \o b) = Len(ac) + Len(b)
          /\ \A i \in 1 .. Len(ac) + Len(b) :
               (ac \o b)[i] = IF i <= Len(ac) THEN ac[i] ELSE b[i - Len(ac)]
      BY <2>1, ConcatProperties
    <2>3. Len(ac) = j + 1 /\ Len(b) = n - j
      BY <1>3, <1>6
    <2> QED
      BY <1>5, <2>2, <2>3
  <1>8. (j + 1) + (n - j) = n + 1 /\ Len(u) = n + 1 /\ DOMAIN u = 1 .. n + 1
    <2>1. (j + 1) + (n - j) = n + 1
      BY <1>1
    <2> QED
      BY <1>7, <2>1, LenProperties
  <1>9. ASSUME NEW i \in 1 .. n + 1
        PROVE  u[i] = IF i <= j THEN s[i] ELSE IF i = j + 1 THEN x ELSE s[i - 1]
    <2>1. CASE i <= j
      <3>1. i \in 1 .. j + 1 /\ i <= j + 1 /\ i \in 1 .. j
        BY <1>1, <2>1
      <3> QED
        BY <1>2, <1>6, <1>7, <1>8, <2>1, <3>1
    <2>2. CASE i = j + 1
      <3>1. i \in 1 .. j + 1 /\ i <= j + 1 /\ ~(i <= j) /\ i - j = 1
        BY <1>1, <2>2
      <3> QED
        BY <1>4, <1>6, <1>7, <1>8, <2>2, <3>1
    <2>3. CASE i > j + 1
      <3>1. ~(i <= j + 1) /\ ~(i <= j) /\ i # j + 1
        BY <1>1, <2>3
      <3>2. i - (j + 1) \in 1 .. n - j /\ (i - (j + 1)) + j = i - 1
        BY <1>1, <2>3
      <3>3. b[i - (j + 1)] = s[i - 1]
        BY <1>3, <3>2
      <3> QED
        BY <1>7, <1>8, <3>1, <3>3
    <2> QED
      BY <1>1, <2>1, <2>2, <2>3
  <1> QED
    BY <1>7, <1>8, <1>9 DEF n, Grows

\* What a row more does to the front and the rest, wherever it stands.
Arrived(u, s, n, x) ==
    /\ Apart(u) /\ Rows(u) = Rows(s) \cup {x} /\ Len(u) = Len(s) + 1
    /\ Upto(u, n) \subseteq Upto(s, n) \cup {x}
    /\ \E y : Beyond(u, n) \subseteq Beyond(s, n) \cup {y}

LEMMA InsertedParts ==
  ASSUME NEW S, NEW s \in Seq(S), Apart(s), NEW j \in Nat, j <= Len(s),
         NEW x \in S \ Rows(s), NEW n \in Nat, NEW u, u = Placed(s, j, x)
  PROVE  u \in Seq(S) /\ Arrived(u, s, n, x)
  <1> DEFINE m == Len(s)
  <1>1. m \in Nat /\ DOMAIN s = 1 .. m /\ j \in 0 .. m
    BY LenProperties
  <1>2. /\ u \in Seq(S) /\ Len(u) = m + 1 /\ DOMAIN u = 1 .. m + 1
        /\ \A i \in DOMAIN u :
             u[i] = IF i <= j THEN s[i] ELSE IF i = j + 1 THEN x ELSE s[i - 1]
    <2>1. x \in S
      OBVIOUS
    <2>2. u \in Seq(S) /\ Grows(u, s, j, x)
      BY <2>1, Inserted
    <2> QED
      BY <2>2 DEF Grows
  <1> HIDE DEF m
  <1>3. j + 1 \in DOMAIN u /\ u[j + 1] = x
    <2>1. j + 1 \in DOMAIN u /\ ~(j + 1 <= j)
      BY <1>1, <1>2
    <2> QED
      BY <1>2, <2>1
  <1>4. ASSUME NEW a \in DOMAIN u, a # j + 1
        PROVE  \E y \in DOMAIN s : u[a] = s[y] /\ y = IF a <= j THEN a ELSE a - 1
    <2>1. CASE a <= j
      <3>1. a \in DOMAIN s
        BY <1>1, <1>2, <2>1
      <3> QED
        BY <1>2, <2>1, <3>1
    <2>2. CASE ~(a <= j)
      <3>1. a - 1 \in DOMAIN s
        BY <1>1, <1>2, <1>4, <2>2
      <3> QED
        BY <1>2, <1>4, <2>2, <3>1
    <2> QED
      BY <2>1, <2>2
  <1>5. ASSUME NEW a \in DOMAIN u, a # j + 1 PROVE u[a] # x
    BY <1>4, <1>5 DEF Rows
  <1>6. Apart(u)
    <2> SUFFICES ASSUME NEW a \in DOMAIN u, NEW b \in DOMAIN u, u[a] = u[b]
                 PROVE  a = b
      BY DEF Apart
    <2>1. CASE a = j + 1 \/ b = j + 1
      BY <1>3, <1>5, <2>1
    <2>2. CASE a # j + 1 /\ b # j + 1
      <3>1. PICK y \in DOMAIN s : u[a] = s[y] /\ y = IF a <= j THEN a ELSE a - 1
        BY <1>4, <2>2
      <3>2. PICK z \in DOMAIN s : u[b] = s[z] /\ z = IF b <= j THEN b ELSE b - 1
        BY <1>4, <2>2
      <3>3. y = z
        BY <3>1, <3>2 DEF Apart
      <3> QED
        BY <1>1, <1>2, <2>2, <3>1, <3>2, <3>3
    <2> QED
      BY <2>1, <2>2
  <1>7. Rows(u) = Rows(s) \cup {x}
    <2>1. ASSUME NEW a \in DOMAIN u PROVE u[a] \in Rows(s) \cup {x}
      BY <1>3, <1>4 DEF Rows
    <2>2. ASSUME NEW y \in DOMAIN s PROVE s[y] \in Rows(u)
      <3>1. CASE y <= j
        <4>1. y \in DOMAIN u /\ u[y] = s[y]
          BY <1>1, <1>2, <3>1
        <4> QED
          BY <4>1 DEF Rows
      <3>2. CASE ~(y <= j)
        <4>1. y + 1 \in DOMAIN u /\ ~(y + 1 <= j) /\ y + 1 # j + 1 /\ (y + 1) - 1 = y
          BY <1>1, <1>2, <3>2
        <4>2. u[y + 1] = s[y]
          BY <1>2, <4>1
        <4> QED
          BY <4>1, <4>2 DEF Rows
      <3> QED
        BY <3>1, <3>2
    <2>3. x \in Rows(u)
      BY <1>3 DEF Rows
    <2>4. Rows(u) \subseteq Rows(s) \cup {x}
      BY <2>1 DEF Rows
    <2> QED
      BY <2>2, <2>3, <2>4 DEF Rows
  <1>8. ASSUME NEW a \in DOMAIN u, a <= n PROVE u[a] \in Upto(s, n) \cup {x}
    <2>1. CASE a # j + 1
      <3>1. PICK y \in DOMAIN s : u[a] = s[y] /\ y = IF a <= j THEN a ELSE a - 1
        BY <1>4, <2>1
      <3>2. y <= n
        BY <1>1, <1>2, <1>8, <3>1
      <3> QED
        BY <3>1, <3>2 DEF Upto
    <2> QED
      BY <1>3, <2>1
  <1>9. \E y : Beyond(u, n) \subseteq Beyond(s, n) \cup {y}
    <2> DEFINE y == IF j >= n THEN x ELSE u[n + 1]
    <2>1. ASSUME NEW a \in DOMAIN u, a > n PROVE u[a] \in Beyond(s, n) \cup {y}
      <3>1. CASE a = j + 1
        <4>1. j >= n
          BY <1>1, <2>1, <3>1
        <4> QED
          BY <1>3, <3>1, <4>1
      <3>2. CASE a # j + 1 /\ (j >= n \/ a # n + 1)
        <4>1. PICK z \in DOMAIN s : u[a] = s[z] /\ z = IF a <= j THEN a ELSE a - 1
          BY <1>4, <3>2
        <4>2. z > n
          BY <1>1, <1>2, <2>1, <3>2, <4>1
        <4> QED
          BY <4>1, <4>2 DEF Beyond
      <3>3. CASE ~(j >= n) /\ a = n + 1
        BY <3>3
      <3> QED
        BY <3>1, <3>2, <3>3
    <2> HIDE DEF y
    <2> QED
      BY <2>1 DEF Beyond
  <1>10. Upto(u, n) \subseteq Upto(s, n) \cup {x}
    BY <1>8 DEF Upto
  <1> QED
    BY <1>2, <1>6, <1>7, <1>9, <1>10 DEF m, Arrived

\* A page: what it takes from the rest it gives to the front.
Cut(s, n, l) == SubSeq(s, n + 1, IF n + l < Len(s) THEN n + l ELSE Len(s))

Split(s, n, e, u) ==
    /\ Beyond(s, n) = Rows(u) \cup Beyond(s, e) /\ Rows(u) \cap Beyond(s, e) = {}
    /\ Upto(s, e) = Upto(s, n) \cup Rows(u)

LEMMA PageParts ==
  ASSUME NEW S, NEW s \in Seq(S), Apart(s), NEW n \in Nat, NEW l \in Nat,
         NEW u, u = Cut(s, n, l), NEW e, e = n + l
  PROVE  /\ u \in Seq(S) /\ Apart(u)
         /\ Split(s, n, e, u)
  <1> DEFINE m == Len(s)
             top == IF n + l < m THEN n + l ELSE m
  <1>1. m \in Nat /\ DOMAIN s = 1 .. m
    BY LenProperties
  <1>2. u \in Seq(S) /\ DOMAIN u = 1 .. (IF n <= top THEN top - n ELSE 0)
        /\ \A i \in DOMAIN u : i + n \in DOMAIN s /\ u[i] = s[i + n]
    <2>1. CASE n <= top
      <3>1. top \in Nat /\ top <= Len(s)
        BY <1>1
      <3>2. u = SubSeq(s, n + 1, top)
        BY DEF Cut
      <3> HIDE DEF top
      <3> QED
        BY <2>1, <3>1, <3>2, Stretch
    <2>2. CASE ~(n <= top)
      <3>1. top \in Int /\ n + 1 \in Int /\ ~(n + 1 <= top) /\ \A i \in n + 1 .. top : s[i] \in S
        BY <1>1, <2>2
      <3>2. u = SubSeq(s, n + 1, top)
        BY DEF Cut
      <3> HIDE DEF top
      <3>3. u \in Seq(S) /\ Len(u) = 0
        BY <3>1, <3>2, SubSeqProperties
      <3>4. DOMAIN u = 1 .. 0
        BY <3>3, LenProperties
      <3> QED
        BY <2>2, <3>3, <3>4
    <2> QED
      BY <2>1, <2>2
  <1>3. top <= e /\ top <= m /\ top \in Nat /\ (top < m => top = e)
    BY <1>1
  <1> HIDE DEF m, top
  <1>4. ASSUME NEW i \in DOMAIN u
        PROVE  i + n \in DOMAIN s /\ u[i] = s[i + n] /\ i + n > n /\ i + n <= e
    <2>1. i \in Nat /\ i >= 1 /\ i <= top - n
      BY <1>2, <1>3
    <2> QED
      BY <1>2, <1>3, <2>1
  <1>5. ASSUME NEW x \in DOMAIN s, x > n, x <= e PROVE s[x] \in Rows(u)
    <2>1. x - n \in DOMAIN u /\ (x - n) + n = x
      BY <1>1, <1>2, <1>3, <1>5
    <2>2. u[x - n] = s[x]
      BY <1>2, <2>1
    <2> QED
      BY <2>1, <2>2 DEF Rows
  <1>6. Apart(u)
    <2> SUFFICES ASSUME NEW a \in DOMAIN u, NEW b \in DOMAIN u, u[a] = u[b]
                 PROVE  a = b
      BY DEF Apart
    <2>1. a + n = b + n
      BY <1>4 DEF Apart
    <2>2. a \in Int /\ b \in Int
      BY <1>2
    <2> QED
      BY <2>1, <2>2
  <1>7. \A x \in DOMAIN s : x \in Int /\ (x > e => x > n) /\ (x <= n => x <= e)
    BY <1>1
  <1>8. Beyond(s, n) = Rows(u) \cup Beyond(s, e)
    <2>1. ASSUME NEW x \in DOMAIN s, x > n PROVE s[x] \in Rows(u) \cup Beyond(s, e)
      <3>1. CASE x <= e
        BY <1>5, <2>1, <3>1
      <3>2. CASE x > e
        BY <3>2 DEF Beyond
      <3> QED
        BY <1>7, <3>1, <3>2
    <2>2. Rows(u) \subseteq Beyond(s, n)
      BY <1>4 DEF Rows, Beyond
    <2>3. Beyond(s, e) \subseteq Beyond(s, n)
      BY <1>7 DEF Beyond
    <2>4. Beyond(s, n) \subseteq Rows(u) \cup Beyond(s, e)
      BY <2>1 DEF Beyond
    <2> QED
      BY <2>2, <2>3, <2>4
  <1>9. Rows(u) \cap Beyond(s, e) = {}
    <2> SUFFICES ASSUME NEW a \in DOMAIN u, NEW x \in DOMAIN s, x > e, u[a] = s[x]
                 PROVE  FALSE
      BY DEF Rows, Beyond
    <2>1. a + n = x
      BY <1>4 DEF Apart
    <2> QED
      BY <1>4, <1>7, <2>1
  <1>10. Upto(s, e) = Upto(s, n) \cup Rows(u)
    <2>1. ASSUME NEW x \in DOMAIN s, x <= e PROVE s[x] \in Upto(s, n) \cup Rows(u)
      <3>1. CASE x <= n
        BY <3>1 DEF Upto
      <3>2. CASE x > n
        BY <1>5, <2>1, <3>2
      <3> QED
        BY <1>7, <3>1, <3>2
    <2>2. Rows(u) \subseteq Upto(s, e)
      BY <1>4 DEF Rows, Upto
    <2>3. Upto(s, n) \subseteq Upto(s, e)
      BY <1>7 DEF Upto
    <2>4. Upto(s, e) \subseteq Upto(s, n) \cup Rows(u)
      BY <2>1 DEF Upto
    <2> QED
      BY <2>2, <2>3, <2>4
  <1> QED
    BY <1>2, <1>6, <1>8, <1>9, <1>10 DEF Split

\* The rest of a list that is hardly longer than what was walked.
LEMMA RestSmall ==
  ASSUME NEW S, NEW s \in Seq(S), NEW n \in Nat, NEW b \in Nat, Len(s) <= n + b
  PROVE  IsFiniteSet(Beyond(s, n)) /\ Cardinality(Beyond(s, n)) \in Nat
         /\ Cardinality(Beyond(s, n)) <= b
  <1> DEFINE m == Len(s)
             top == n + b
             f == [i \in (n + 1) .. m |-> s[i]]
  <1>1. m \in Nat /\ DOMAIN s = 1 .. m
    BY LenProperties
  <1>2. IsFiniteSet((n + 1) .. m) /\ Cardinality((n + 1) .. m) <= b
    <2>1. n + 1 \in Int /\ m \in Int
      BY <1>1
    <2>a. m <= n + b
      OBVIOUS
    <2> HIDE DEF m
    <2>2. IsFiniteSet((n + 1) .. m)
          /\ Cardinality((n + 1) .. m) = IF n + 1 > m THEN 0 ELSE m - (n + 1) + 1
      BY <2>1, FS_Interval
    <2> QED
      BY <2>1, <2>2, <2>a
  <1> HIDE DEF m
  <1>3. \A i : i \in (n + 1) .. m <=> i \in DOMAIN s /\ i > n
    BY <1>1
  <1>4. f \in Surjection((n + 1) .. m, Beyond(s, n))
    BY <1>3 DEF Surjection, Beyond
  <1> HIDE DEF f
  <1>5. IsFiniteSet(Beyond(s, n)) /\ Cardinality(Beyond(s, n)) <= Cardinality((n + 1) .. m)
    BY <1>2, <1>4, FS_Surjection
  <1>6. Cardinality(Beyond(s, n)) \in Nat /\ Cardinality((n + 1) .. m) \in Nat
    BY <1>2, <1>5, FS_CardinalityType
  <1> QED
    BY <1>2, <1>5, <1>6

LEMMA PartsOfRows ==
  ASSUME NEW S, NEW s \in Seq(S), NEW n \in Nat
  PROVE  Rows(s) = Upto(s, n) \cup Beyond(s, n)
  <1>1. \A i \in DOMAIN s : i <= n \/ i > n
    BY LenProperties
  <1>2. \A i \in DOMAIN s : s[i] \in Upto(s, n) \cup Beyond(s, n)
    BY <1>1 DEF Upto, Beyond
  <1> QED
    BY <1>2 DEF Rows, Upto, Beyond

\* A finite set with at most one more member.
LEMMA OneMore ==
  ASSUME NEW A, NEW B, NEW x, IsFiniteSet(A), B \subseteq A \cup {x}
  PROVE  IsFiniteSet(B) /\ Cardinality(B) \in Nat /\ Cardinality(A) \in Nat
         /\ Cardinality(B) <= Cardinality(A) + 1
  <1>1. IsFiniteSet(A \cup {x}) /\ Cardinality(A \cup {x}) <= Cardinality(A) + 1
        /\ Cardinality(A) \in Nat
    <2>1. Cardinality(A) \in Nat
      BY FS_CardinalityType
    <2>2. IsFiniteSet(A \cup {x})
          /\ Cardinality(A \cup {x}) \in {Cardinality(A), Cardinality(A) + 1}
      BY FS_AddElement
    <2> QED
      BY <2>1, <2>2
  <1>2. IsFiniteSet(B) /\ Cardinality(B) <= Cardinality(A \cup {x})
    BY <1>1, FS_Subset
  <1>3. Cardinality(B) \in Nat /\ Cardinality(A \cup {x}) \in Nat
    BY <1>1, <1>2, FS_CardinalityType
  <1> QED
    BY <1>1, <1>2, <1>3
-----------------------------------------------------------------------------
(* What a walk keeps.                                                      *)

LEMMA WalkFacts ==
  ASSUME WalkTypes
  PROVE  /\ walk.page \in Nat /\ walk.count \in Nat /\ walk.left \in Nat
         /\ walk.arrived \in Nat /\ walk.between \in Nat
         /\ walk.shown \in Seq(1 .. MaxRows) /\ IsFiniteSet(Rows(walk.shown))
         /\ IsFiniteSet(Lost) /\ Cardinality(Lost) \in Nat
         /\ IsFiniteSet(Again) /\ Cardinality(Again) \in Nat
         /\ Len(walk.shown) \in Nat /\ Cardinality(Rows(walk.shown)) \in Nat
         /\ Cardinality(Rows(walk.shown)) <= Len(walk.shown)
         /\ Len(list) \in Nat
  <1>1. /\ walk.page \in Nat /\ walk.count \in Nat /\ walk.left \in Nat
        /\ walk.arrived \in Nat /\ walk.between \in Nat
        /\ walk.shown \in Seq(1 .. MaxRows) /\ walk.initial \subseteq 1 .. MaxRows
    BY DEF WalkTypes, Walk
  <1>2. IsFiniteSet(1 .. MaxRows)
    BY ListingAssumption, FS_Interval
  <1>3. IsFiniteSet(walk.initial)
    BY <1>1, <1>2, FS_Subset
  <1>4. /\ IsFiniteSet(Rows(walk.shown)) /\ Len(walk.shown) \in Nat
        /\ Cardinality(Rows(walk.shown)) \in Nat
        /\ Cardinality(Rows(walk.shown)) <= Len(walk.shown)
    BY <1>1, RowsFinite
  <1>5. IsFiniteSet(Lost) /\ IsFiniteSet(Again)
    <2>1. Lost \in SUBSET walk.initial /\ Again \in SUBSET Rows(walk.shown)
      BY DEF Lost, Again
    <2> QED
      BY <1>3, <1>4, <2>1, FS_Subset
  <1>6. Cardinality(Lost) \in Nat /\ Cardinality(Again) \in Nat
    BY <1>5, FS_CardinalityType
  <1>7. Len(list) \in Nat
    BY LenProperties DEF WalkTypes
  <1> QED
    BY <1>1, <1>4, <1>5, <1>6, <1>7

\* How far a page is from the first row.
LEMMA Skipped ==
  ASSUME NEW k \in Nat, k >= 1
  PROVE  Skip(k) \in Nat /\ Skip(k + 1) = Skip(k) + Limit /\ Limit \in Nat
  <1>1. k - 1 \in Nat /\ Limit \in Nat
    BY ListingAssumption
  <1>2. (k - 1) * Limit \in Nat /\ ((k - 1) + 1) * Limit = (k - 1) * Limit + Limit
    BY <1>1, TimesNat, TimesNext
  <1>3. (k + 1) - 1 = (k - 1) + 1
    OBVIOUS
  <1> QED
    BY <1>1, <1>2, <1>3 DEF Skip

\* On the last page everything that was counted is passed.
LEMMA LastPage ==
  ASSUME NEW k \in Nat, k >= 1, NEW n \in Nat, ~HasNextPage(k, n)
  PROVE  n <= Skip(k) + Limit
  <1> DEFINE t == n + Limit - 1
             q == t \div Limit
             r == t % Limit
  <1>1. Limit \in Nat \ {0}
    BY ListingAssumption
  <1>2. t \in Nat
    BY <1>1
  <1>3. q \in Nat /\ r \in 0 .. Limit - 1 /\ t = q * Limit + r
    <2> HIDE DEF t
    <2> QED
      BY <1>1, <1>2
  <1>4. q <= k
    BY <1>3 DEF HasNextPage, TotalPages
  <1>5. t = n + Limit - 1
    OBVIOUS
  <1> HIDE DEF t, q, r
  <1>6. q * Limit <= k * Limit /\ q * Limit \in Nat /\ k * Limit \in Nat
    BY <1>1, <1>3, <1>4, TimesMonotone, TimesNat
  <1>7. k * Limit = Skip(k) + Limit
    <2>1. k - 1 \in Nat /\ (k - 1) + 1 = k
      OBVIOUS
    <2>2. ((k - 1) + 1) * Limit = (k - 1) * Limit + Limit
      BY <1>1, <2>1, TimesNext
    <2> QED
      BY <2>1, <2>2 DEF Skip
  <1> DEFINE a == q * Limit
             b == k * Limit
  <1>8. a \in Nat /\ b \in Nat /\ a <= b /\ t = a + r
    BY <1>3, <1>6
  <1> HIDE DEF a, b
  <1>9. n <= b
    BY <1>1, <1>3, <1>5, <1>8
  <1> QED
    BY <1>7, <1>9 DEF b

LEMMA ListingInitInv == ListingInit => ListingInv
  <1> SUFFICES ASSUME ListingInit PROVE ListingInv
    OBVIOUS
  <1>1. PICK n \in 0 .. MaxRows : n = created /\ list = [i \in 1 .. n |-> n + 1 - i]
    BY DEF ListingInit
  <1>2. n \in Nat /\ n <= MaxRows /\ MaxRows \in Nat
    BY ListingAssumption
  <1>3. \A i \in 1 .. n : n + 1 - i \in 1 .. MaxRows
    BY <1>2
  <1>4. list \in [1 .. n -> 1 .. MaxRows] /\ list \in Seq(1 .. MaxRows) /\ Len(list) = n
        /\ DOMAIN list = 1 .. n
    BY <1>1, <1>2, <1>3, IsASeq, LenProperties
  <1>5. Apart(list)
    BY <1>1, <1>2, <1>4 DEF Apart
  <1>6. Rows(list) = 1 .. n
    <2>1. ASSUME NEW x \in 1 .. n PROVE x \in Rows(list)
      <3>1. n + 1 - x \in DOMAIN list /\ list[n + 1 - x] = x
        BY <1>1, <1>2, <1>4
      <3> QED
        BY <3>1 DEF Rows
    <2>2. ASSUME NEW i \in DOMAIN list PROVE list[i] \in 1 .. n
      BY <1>1, <1>2, <1>4
    <2> QED
      BY <2>1, <2>2 DEF Rows
  <1>7. walk = NoWalk
    BY DEF ListingInit
  <1>8. NoWalk \in Walk /\ NoWalk.pc = "start"
    <2>1. <<>> \in Seq(1 .. MaxRows)
      BY EmptySeq
    <2> QED
      BY <2>1 DEF NoWalk, Walk
  <1> QED
    <2>1. aside = {} /\ walk.shown = <<>>
      BY <1>7 DEF ListingInit, NoWalk
    <2>2. Rows(walk.shown) = {}
      BY <2>1 DEF Rows
    <2> QED
      BY <1>1, <1>4, <1>5, <1>6, <1>7, <1>8, <2>1, <2>2
         DEF ListingInv, WalkTypes, WalkRows, WalkCounts, PagesComplete

LEMMA StartStep ==
  ASSUME ListingInv, StartWalk
  PROVE  ListingInv'
  <1>1. /\ walk.pc = "start" /\ walk = NoWalk /\ WalkTypes
        /\ list' = list /\ created' = created /\ aside' = aside
    BY DEF StartWalk, ListingInv, WalkTypes
  <1>2. /\ walk.shown = <<>> /\ walk.gone = {} /\ walk.left = 0 /\ walk.arrived = 0
        /\ walk.between = 0
    BY <1>1 DEF NoWalk
  <1>3. /\ walk'.pc = "count" /\ walk'.page = 1 /\ walk'.initial = Rows(list)
        /\ walk'.shown = <<>> /\ walk'.gone = {} /\ walk'.left = 0 /\ walk'.arrived = 0
        /\ walk'.between = 0 /\ walk' \in Walk
    <2>1. Rows(list) \subseteq 1 .. MaxRows
      BY <1>1, RowsFinite DEF WalkTypes
    <2> QED
      BY <1>1, <1>2, <2>1 DEF StartWalk, WalkTypes, Walk
  <1>4. WalkTypes'
    BY <1>1, <1>2, <1>3 DEF WalkTypes, Apart, Rows
  <1>5. WalkRows'
    BY <1>1, <1>3 DEF WalkRows, Rows
  <1>6. Lost' = {} /\ Again' = {}
    <2>1. Skip(walk.page)' = 0
      BY <1>3, ListingAssumption DEF Skip
    <2>2. Upto(list, 0) = {}
      BY <1>1, LenProperties DEF Upto, WalkTypes
    <2>3. Rows(<<>>) = {}
      BY DEF Rows
    <2>4. Upto(list, Skip(walk.page))' = {} /\ Rows(walk.shown)' = {}
      BY <1>1, <1>3, <2>1, <2>2, <2>3 DEF Upto, Rows
    <2> QED
      BY <2>4 DEF Lost, Again
  <1>7. WalkCounts'
    <2>1. Cardinality({}) = 0
      BY FS_EmptySet
    <2>2. Rows(walk.shown)' = {}
      BY <1>3 DEF Rows
    <2>3. Len(walk.shown)' = 0
      BY <1>3
    <2>4. /\ Cardinality(Lost)' = 0 /\ Cardinality(Again)' = 0
          /\ Cardinality(Rows(walk.shown))' = 0
      BY <1>6, <2>1, <2>2
    <2>5. /\ Cardinality(Lost)' <= walk'.left
          /\ Len(walk.shown)' - Cardinality(Rows(walk.shown))' + Cardinality(Again)'
               <= walk'.arrived
      BY <1>3, <2>3, <2>4
    <2> QED
      BY <1>3, <2>5 DEF WalkCounts
  <1>8. PagesComplete'
    BY <1>3 DEF PagesComplete
  <1> QED
    BY <1>4, <1>5, <1>7, <1>8 DEF ListingInv

LEMMA CountRowsStep ==
  ASSUME ListingInv, CountRows
  PROVE  ListingInv'
  <1>1. /\ walk.pc = "count" /\ list' = list /\ created' = created /\ aside' = aside
        /\ walk \in Walk /\ Len(list) \in Nat
    BY WalkFacts DEF CountRows, ListingInv, WalkTypes
  <1>2. /\ walk'.pc = "fetch" /\ walk'.page = walk.page /\ walk'.count = Len(list)
        /\ walk'.shown = walk.shown /\ walk'.initial = walk.initial /\ walk'.gone = walk.gone
        /\ walk'.left = walk.left /\ walk'.arrived = walk.arrived
        /\ walk'.between = walk.between /\ walk' \in Walk
    BY <1>1 DEF CountRows, Walk
  <1>3. WalkTypes'
    BY <1>1, <1>2 DEF ListingInv, WalkTypes, Apart, Rows
  <1>4. WalkRows'
    BY <1>1, <1>2 DEF ListingInv, WalkRows, Rows
  <1>5. Lost' = Lost /\ Again' = Again
    BY <1>1, <1>2 DEF Lost, Again, Upto, Beyond, Rows, Skip
  <1>6. walk.between \in Nat
    BY WalkFacts DEF ListingInv
  <1>7. WalkCounts'
    BY <1>1, <1>2, <1>5, <1>6 DEF ListingInv, WalkCounts, Rows
  <1>8. PagesComplete'
    BY <1>2 DEF PagesComplete
  <1> QED
    BY <1>3, <1>4, <1>7, <1>8 DEF ListingInv

\* A row that enters the list, new or not.
LEMMA ArriveStep ==
  ASSUME ListingInv, NEW x \in (1 .. created') \ Rows(list), Arrive(x),
         created' \in created .. MaxRows, aside' \subseteq (1 .. created') \ {x},
         aside' \cap Rows(list) = {}
  PROVE  ListingInv'
  <1> DEFINE n == Skip(walk.page)
             newer == {i \in DOMAIN list : list[i] > x}
             j == Cardinality(newer)
             numbers == 1 .. MaxRows
  <1>1. /\ walk.pc \in {"count", "fetch"} /\ walk.pc # "start" /\ list' = Placed(list, j, x)
        /\ WalkTypes /\ walk \in Walk /\ list \in Seq(numbers) /\ Apart(list)
        /\ WalkRows /\ WalkCounts /\ created \in 0 .. MaxRows
    BY DEF Arrive, Underway, ListingInv, WalkTypes
  <1>2. /\ walk.page \in Nat /\ walk.page >= 1 /\ walk.arrived \in Nat
        /\ walk.between \in Nat /\ walk.count \in Nat
    BY <1>1, WalkFacts DEF WalkRows
  <1>3. /\ walk'.pc = walk.pc /\ walk'.page = walk.page /\ walk'.count = walk.count
        /\ walk'.shown = walk.shown /\ walk'.initial = walk.initial /\ walk'.gone = walk.gone
        /\ walk'.left = walk.left /\ walk'.arrived = walk.arrived + 1
        /\ walk'.between = IF walk.pc = "fetch" THEN walk.between + 1 ELSE walk.between
        /\ walk' \in Walk
    <2>1. PICK b \in Nat, c \in Nat :
             /\ c = walk.arrived + 1
             /\ b = IF walk.pc = "fetch" THEN walk.between + 1 ELSE walk.between
      BY <1>2
    <2>2. walk' = [walk EXCEPT !.arrived = c, !.between = b]
      BY <2>1 DEF Arrive
    <2> QED
      BY <1>1, <2>1, <2>2 DEF Walk
  <1>4. n \in Nat
    BY <1>2, Skipped
  <1>5. j \in Nat /\ j <= Len(list)
    <2>1. newer \subseteq DOMAIN list
      OBVIOUS
    <2> HIDE DEF newer, numbers
    <2> QED
      BY <1>1, <2>1, HowMany
  <1>6. x \in numbers \ Rows(list)
    BY <1>1, ListingAssumption
  <1> HIDE DEF n, j, newer, numbers
  <1>7. PICK y : /\ list' \in Seq(numbers) /\ Apart(list') /\ Rows(list') = Rows(list) \cup {x}
                 /\ Len(list') = Len(list) + 1
                 /\ Upto(list', n) \subseteq Upto(list, n) \cup {x}
                 /\ Beyond(list', n) \subseteq Beyond(list, n) \cup {y}
    <2>1. PICK u : u = list'
      OBVIOUS
    <2>2. /\ u = Placed(list, j, x) /\ list \in Seq(numbers) /\ Apart(list) /\ j \in Nat /\ j <= Len(list)
          /\ x \in numbers \ Rows(list) /\ n \in Nat
      BY <1>1, <1>4, <1>5, <1>6, <2>1
    <2>3. u \in Seq(numbers) /\ Arrived(u, list, n, x)
      BY <2>2, InsertedParts
    <2> QED
      BY <2>1, <2>3 DEF Arrived
  <1>8. Skip(walk.page)' = n /\ Rows(walk.shown)' = Rows(walk.shown) /\ Rows(list)' = Rows(list')
    BY <1>3 DEF Skip, Rows, n
  <1>9. WalkTypes'
    <2>1. created' \in 0 .. MaxRows /\ 1 .. created \subseteq 1 .. created'
      BY <1>1, ListingAssumption
    <2>2. Rows(list) \subseteq 1 .. created /\ Rows(walk.shown) \subseteq 1 .. created
      BY <1>1 DEF WalkTypes
    <2>3. Rows(list)' \cup aside' \subseteq 1 .. created' /\ Rows(list)' \cap aside' = {}
          /\ Rows(walk.shown)' \subseteq 1 .. created'
      BY <1>7, <1>8, <2>1, <2>2
    <2> QED
      BY <1>1, <1>3, <1>7, <2>1, <2>3 DEF WalkTypes, Apart, numbers
  <1>10. walk.initial \ walk.gone \subseteq Rows(list)
    BY <1>1 DEF WalkRows
  <1>11. WalkRows'
    BY <1>2, <1>3, <1>7, <1>8, <1>10 DEF WalkRows
  <1>12. Lost' \subseteq Lost
    <2>1. Lost' = ((walk.initial \ walk.gone) \cap Upto(list', n)) \ Rows(walk.shown)
      BY <1>3, <1>8 DEF Lost, Upto
    <2>2. Lost = ((walk.initial \ walk.gone) \cap Upto(list, n)) \ Rows(walk.shown)
      BY DEF Lost, n
    <2> QED
      BY <1>6, <1>7, <1>10, <2>1, <2>2
  <1>13. Again' \subseteq Again \cup {y}
    <2>1. Again' = Rows(walk.shown) \cap Beyond(list', n)
      BY <1>3, <1>8 DEF Again, Beyond
    <2>2. Again = Rows(walk.shown) \cap Beyond(list, n)
      BY DEF Again, n
    <2> QED
      BY <1>7, <2>1, <2>2
  <1>14. /\ Cardinality(Lost') \in Nat /\ Cardinality(Lost') <= Cardinality(Lost)
         /\ Cardinality(Again') \in Nat /\ Cardinality(Again') <= Cardinality(Again) + 1
    <2>1. IsFiniteSet(Lost) /\ IsFiniteSet(Again)
      BY <1>1, WalkFacts
    <2>2. IsFiniteSet(Lost') /\ Cardinality(Lost') <= Cardinality(Lost)
      BY <1>12, <2>1, FS_Subset
    <2> QED
      BY <1>13, <2>1, <2>2, FS_CardinalityType, OneMore
  <1>15. WalkCounts'
    <2> DEFINE lost == Cardinality(Lost)
               lostNext == Cardinality(Lost')
               again == Cardinality(Again)
               againNext == Cardinality(Again')
               left == walk.left
               len == Len(walk.shown)
               rows == Cardinality(Rows(walk.shown))
               come == walk.arrived
               size == Len(list)
    <2>1. /\ lost \in Nat /\ again \in Nat /\ left \in Nat /\ len \in Nat /\ rows \in Nat
          /\ come \in Nat /\ size \in Nat
      BY <1>1, WalkFacts
    <2>2. lostNext \in Nat /\ lostNext <= lost /\ againNext \in Nat /\ againNext <= again + 1
      BY <1>14
    <2>3. lost <= left /\ len - rows + again <= come
      BY <1>1 DEF WalkCounts
    <2>4. walk.pc = "fetch" => size <= walk.count + walk.between
      BY <1>1 DEF WalkCounts
    <2>5. Len(list)' = size + 1
      BY <1>7
    <2> HIDE DEF lost, lostNext, again, againNext, left, len, rows, come, size
    <2>6. lostNext <= left /\ len - rows + againNext <= come + 1
      BY <2>1, <2>2, <2>3
    <2>7. walk.pc = "fetch" => size + 1 <= walk.count + (walk.between + 1)
      BY <1>2, <2>1, <2>4
    <2>8. Cardinality(Lost)' <= walk'.left
      BY <1>3, <2>6 DEF lostNext, left
    <2>9. Len(walk.shown)' - Cardinality(Rows(walk.shown))' + Cardinality(Again)' <= walk'.arrived
      BY <1>3, <1>8, <2>6 DEF len, rows, againNext, come
    <2>10. walk'.pc = "fetch" => Len(list)' <= walk'.count + walk'.between
      BY <1>3, <2>5, <2>7
    <2> QED
      BY <2>8, <2>9, <2>10 DEF WalkCounts
  <1>16. PagesComplete'
    BY <1>1, <1>3 DEF PagesComplete
  <1> QED
    BY <1>9, <1>11, <1>15, <1>16 DEF ListingInv

LEMMA InsertStep ==
  ASSUME ListingInv, Insert
  PROVE  ListingInv'
  <1>1. /\ created < MaxRows /\ created' = created + 1 /\ Arrive(created + 1) /\ aside' = aside
        /\ created \in Nat /\ created + 1 \in 1 .. created' /\ created + 1 \notin 1 .. created
        /\ created' \in created .. MaxRows /\ 1 .. created \subseteq (1 .. created') \ {created + 1}
    BY ListingAssumption DEF Insert, ListingInv, WalkTypes
  <1>2. Rows(list) \cup aside \subseteq 1 .. created /\ Rows(list) \cap aside = {}
    BY DEF ListingInv, WalkTypes
  <1>3. /\ created + 1 \in (1 .. created') \ Rows(list)
        /\ aside' \subseteq (1 .. created') \ {created + 1} /\ aside' \cap Rows(list) = {}
    BY <1>1, <1>2
  <1> QED
    BY <1>1, <1>3, ArriveStep

LEMMA EnterStep ==
  ASSUME ListingInv, NEW x \in aside, Enter(x)
  PROVE  ListingInv'
  <1>1. /\ created' = created /\ Arrive(x) /\ aside' = aside \ {x}
        /\ Rows(list) \cup aside \subseteq 1 .. created /\ Rows(list) \cap aside = {}
        /\ created \in 0 .. MaxRows
    BY DEF Enter, ListingInv, WalkTypes
  <1>2. /\ x \in (1 .. created') \ Rows(list) /\ created' \in created .. MaxRows
        /\ aside' \subseteq (1 .. created') \ {x} /\ aside' \cap Rows(list) = {}
    BY <1>1, ListingAssumption
  <1> QED
    BY <1>1, <1>2, ArriveStep

\* What the list is without one of its rows.
LEMMA LeftParts ==
  ASSUME WalkTypes, NEW j \in DOMAIN list, Leave(j), NEW n \in Nat
  PROVE  /\ list' \in Seq(1 .. MaxRows) /\ Apart(list') /\ Rows(list') = Rows(list) \ {list[j]}
         /\ Len(list') = Len(list) - 1 /\ Beyond(list', n) \subseteq Beyond(list, n)
         /\ Upto(list', n) \subseteq Upto(list, n) \cup {list[n + 1]}
         /\ list[j] \in Rows(list) /\ list[j] \in 1 .. MaxRows /\ Rows(list)' = Rows(list')
         /\ created' = created /\ created \in 0 .. MaxRows
         /\ Rows(list)' \cup aside' \subseteq 1 .. created /\ Rows(list)' \cap aside' = {}
  <1> DEFINE numbers == 1 .. MaxRows
  <1>1. /\ list \in Seq(numbers) /\ Apart(list) /\ list' = Without(list, j)
        /\ created' = created /\ aside' = aside \cup {list[j]} /\ created \in 0 .. MaxRows
        /\ Rows(list) \cup aside \subseteq 1 .. created /\ Rows(list) \cap aside = {}
    BY DEF WalkTypes, Leave, Without
  <1>2. list[j] \in Rows(list)
    BY DEF Rows
  <1>3. list[j] \in numbers
    BY <1>1, <1>2, RowsFinite
  <1>4. Rows(list)' = Rows(list')
    BY DEF Rows
  <1>5. /\ list' \in Seq(numbers) /\ Apart(list') /\ Rows(list') = Rows(list) \ {list[j]}
        /\ Len(list') = Len(list) - 1 /\ Beyond(list', n) \subseteq Beyond(list, n)
        /\ Upto(list', n) \subseteq Upto(list, n) \cup {list[n + 1]}
    <2>1. PICK u : u = list'
      OBVIOUS
    <2> HIDE DEF numbers
    <2>2. u = Without(list, j)
      BY <1>1, <2>1
    <2>3. /\ u \in Seq(numbers) /\ Apart(u) /\ Rows(u) = Rows(list) \ {list[j]}
          /\ Len(u) = Len(list) - 1
          /\ Beyond(u, n) \subseteq Beyond(list, n)
          /\ Upto(u, n) \subseteq Upto(list, n) \cup {list[n + 1]}
      BY <1>1, <2>2, RemovedParts
    <2> QED
      BY <2>1, <2>3
  <1> QED
    BY <1>1, <1>2, <1>3, <1>4, <1>5

LEMMA LeaveStep ==
  ASSUME ListingInv, NEW j \in DOMAIN list, Leave(j)
  PROVE  ListingInv'
  <1> DEFINE n == Skip(walk.page)
             gone == walk.gone \cup {list[j]}
             numbers == 1 .. MaxRows
  <1>0. WalkTypes /\ WalkRows /\ WalkCounts
    BY DEF ListingInv
  <1>1. CASE walk.pc = "start"
    <2>1. walk' = walk /\ walk = NoWalk
      BY <1>0, <1>1 DEF Leave, Underway, WalkTypes
    <2>2. /\ list' \in Seq(1 .. MaxRows) /\ Apart(list') /\ created' = created
          /\ created \in 0 .. MaxRows
          /\ Rows(list)' \cup aside' \subseteq 1 .. created /\ Rows(list)' \cap aside' = {}
      <3>1. 0 \in Nat
        OBVIOUS
      <3> QED
        BY <1>0, <3>1, LeftParts
    <2>3. WalkTypes'
      BY <1>0, <2>1, <2>2 DEF WalkTypes, Apart, Rows
    <2> QED
      BY <1>1, <2>1, <2>3 DEF ListingInv, WalkRows, WalkCounts, PagesComplete
  <1>2. CASE walk.pc # "start"
    <2>1. walk.pc \in {"count", "fetch"} /\ walk' = [walk EXCEPT !.gone = gone, !.left = walk.left + 1]
          /\ walk \in Walk
      BY <1>0, <1>2 DEF Leave, Underway, WalkTypes
    <2>2. /\ walk.page \in Nat /\ walk.page >= 1 /\ walk.left \in Nat
          /\ walk.initial \ walk.gone \subseteq Rows(list)
      BY <1>0, <1>2, WalkFacts DEF WalkRows
    <2>3. n \in Nat
      BY <2>2, Skipped
    <2>4. /\ list' \in Seq(1 .. MaxRows) /\ Apart(list') /\ Rows(list') = Rows(list) \ {list[j]}
          /\ Len(list') = Len(list) - 1 /\ Beyond(list', n) \subseteq Beyond(list, n)
          /\ Upto(list', n) \subseteq Upto(list, n) \cup {list[n + 1]}
          /\ list[j] \in Rows(list) /\ list[j] \in 1 .. MaxRows /\ Rows(list)' = Rows(list')
          /\ created' = created /\ created \in 0 .. MaxRows
          /\ Rows(list)' \cup aside' \subseteq 1 .. created /\ Rows(list)' \cap aside' = {}
      <3> HIDE DEF n
      <3> QED
        BY <1>0, <2>3, LeftParts
    <2>5. /\ walk'.pc = walk.pc /\ walk'.page = walk.page /\ walk'.count = walk.count
          /\ walk'.shown = walk.shown /\ walk'.initial = walk.initial /\ walk'.gone = gone
          /\ walk'.left = walk.left + 1 /\ walk'.arrived = walk.arrived
          /\ walk'.between = walk.between /\ walk' \in Walk
      <3>1. gone \subseteq numbers /\ walk.left + 1 \in Nat
        BY <2>1, <2>2, <2>4 DEF Walk
      <3> HIDE DEF gone
      <3> QED
        BY <2>1, <3>1 DEF Walk
    <2> HIDE DEF n, numbers
    <2>6. WalkTypes'
      <3>1. Rows(walk.shown)' = Rows(walk.shown)
        BY <2>5 DEF Rows
      <3> QED
        BY <1>0, <1>2, <2>4, <2>5, <3>1 DEF WalkTypes, Apart
    <2>7. WalkRows'
      BY <2>2, <2>4, <2>5 DEF WalkRows
    <2>8. Skip(walk.page)' = n /\ Rows(walk.shown)' = Rows(walk.shown)
      BY <2>5 DEF Skip, Rows, n
    <2>9. Lost' \subseteq Lost \cup {list[n + 1]}
      <3>1. Lost' = ((walk.initial \ gone) \cap Upto(list', n)) \ Rows(walk.shown)
        BY <2>5, <2>8 DEF Lost, Upto
      <3>2. Lost = ((walk.initial \ walk.gone) \cap Upto(list, n)) \ Rows(walk.shown)
        BY DEF Lost, n
      <3> QED
        BY <2>4, <3>1, <3>2
    <2>10. Again' \subseteq Again
      <3>1. Again' = Rows(walk.shown) \cap Beyond(list', n)
        BY <2>5, <2>8 DEF Again, Beyond
      <3>2. Again = Rows(walk.shown) \cap Beyond(list, n)
        BY DEF Again, n
      <3> QED
        BY <2>4, <3>1, <3>2
    <2>11. /\ Cardinality(Lost') \in Nat /\ Cardinality(Lost') <= Cardinality(Lost) + 1
           /\ Cardinality(Again') \in Nat /\ Cardinality(Again') <= Cardinality(Again)
      <3>1. IsFiniteSet(Lost) /\ IsFiniteSet(Again)
        BY <1>0, WalkFacts
      <3>2. IsFiniteSet(Again') /\ Cardinality(Again') <= Cardinality(Again)
        BY <2>10, <3>1, FS_Subset
      <3> QED
        BY <2>9, <3>1, <3>2, FS_CardinalityType, OneMore
    <2>12. WalkCounts'
      <3> DEFINE lost == Cardinality(Lost)
                 lostNext == Cardinality(Lost')
                 again == Cardinality(Again)
                 againNext == Cardinality(Again')
                 left == walk.left
                 len == Len(walk.shown)
                 rows == Cardinality(Rows(walk.shown))
                 come == walk.arrived
                 size == Len(list)
      <3>1. /\ lost \in Nat /\ again \in Nat /\ left \in Nat /\ len \in Nat /\ rows \in Nat
            /\ come \in Nat /\ size \in Nat /\ walk.count \in Nat /\ walk.between \in Nat
        BY <1>0, WalkFacts
      <3>2. lostNext \in Nat /\ lostNext <= lost + 1 /\ againNext \in Nat /\ againNext <= again
        BY <2>11
      <3>3. lost <= left /\ len - rows + again <= come
        BY <1>0, <2>1 DEF WalkCounts
      <3>4. walk.pc = "fetch" => size <= walk.count + walk.between
        BY <1>0 DEF WalkCounts
      <3>5. Len(list)' = size - 1
        BY <2>4
      <3> HIDE DEF lost, lostNext, again, againNext, left, len, rows, come, size
      <3>6. lostNext <= left + 1 /\ len - rows + againNext <= come
        BY <3>1, <3>2, <3>3
      <3>7. walk.pc = "fetch" => size - 1 <= walk.count + walk.between
        BY <3>1, <3>4
      <3>8. Cardinality(Lost)' <= walk'.left
        BY <2>5, <3>6 DEF lostNext, left
      <3>9. Len(walk.shown)' - Cardinality(Rows(walk.shown))' + Cardinality(Again)' <= walk'.arrived
        BY <2>5, <2>8, <3>6 DEF len, rows, againNext, come
      <3>10. walk'.pc = "fetch" => Len(list)' <= walk'.count + walk'.between
        BY <2>5, <3>5, <3>7
      <3> QED
        BY <3>8, <3>9, <3>10 DEF WalkCounts
    <2>13. PagesComplete'
      BY <2>1, <2>5 DEF PagesComplete
    <2> QED
      BY <2>6, <2>7, <2>12, <2>13 DEF ListingInv
  <1> QED
    BY <1>1, <1>2

\* How many rows a page shows again.
Counted(A, P, B, C) ==
    /\ Cardinality(A \cup P) - Cardinality(P) + Cardinality(A \cap B)
         = Cardinality(A) + Cardinality((A \cup P) \cap C)
    /\ Cardinality(A) \in Nat /\ Cardinality(P) \in Nat /\ Cardinality(A \cup P) \in Nat
    /\ Cardinality(A \cap B) \in Nat /\ Cardinality((A \cup P) \cap C) \in Nat

LEMMA PageCounts ==
  ASSUME NEW A, NEW P, NEW B, NEW C, IsFiniteSet(A), IsFiniteSet(P), B = P \cup C, P \cap C = {}
  PROVE  Counted(A, P, B, C)
  <1>1. (A \cup P) \cap C = A \cap C /\ (A \cap P) \cap (A \cap C) = {}
        /\ A \cap B = (A \cap P) \cup (A \cap C)
    OBVIOUS
  <1>2. IsFiniteSet(A \cap P) /\ IsFiniteSet(A \cap C)
    BY FS_Subset
  <1>3. IsFiniteSet(A \cup P) /\ Cardinality(A \cup P) = Cardinality(A) + Cardinality(P) - Cardinality(A \cap P)
    BY FS_Union
  <1>4. /\ IsFiniteSet(A \cap B)
        /\ Cardinality(A \cap B) = Cardinality(A \cap P) + Cardinality(A \cap C) - Cardinality({})
    BY <1>1, <1>2, FS_Union
  <1>5. /\ Cardinality(A) \in Nat /\ Cardinality(P) \in Nat /\ Cardinality(A \cap P) \in Nat
        /\ Cardinality(A \cap C) \in Nat /\ Cardinality(A \cup P) \in Nat
        /\ Cardinality(A \cap B) \in Nat /\ Cardinality({}) = 0
    BY <1>2, <1>3, <1>4, FS_CardinalityType, FS_EmptySet
  <1>6. Cardinality((A \cup P) \cap C) = Cardinality(A \cap C)
    BY <1>1
  <1> DEFINE a == Cardinality(A)
             p == Cardinality(P)
             u == Cardinality(A \cup P)
             ap == Cardinality(A \cap P)
             ac == Cardinality(A \cap C)
             ab == Cardinality(A \cap B)
  <1>7. /\ a \in Nat /\ p \in Nat /\ u \in Nat /\ ap \in Nat /\ ac \in Nat /\ ab \in Nat
        /\ u = a + p - ap /\ ab = ap + ac - 0
    BY <1>3, <1>4, <1>5
  <1> HIDE DEF a, p, u, ap, ac, ab
  <1>8. u - p + ab = a + ac
    BY <1>7
  <1> QED
    BY <1>5, <1>6, <1>8 DEF a, p, u, ac, ab, Counted

LEMMA FetchStep ==
  ASSUME ListingInv, FetchPage
  PROVE  ListingInv'
  <1> DEFINE n == Skip(walk.page)
             page == PageOf(walk.page)
             shown == walk.shown \o page
             numbers == 1 .. MaxRows
             pc == IF HasNextPage(walk.page, walk.count) THEN "count" ELSE "end"
             C == Beyond(list, n + Limit)
  <1>a. /\ walk.pc = "fetch" /\ WalkTypes /\ WalkRows /\ WalkCounts /\ list' = list
        /\ created' = created /\ aside' = aside
    BY DEF FetchPage, ListingInv
  <1>b. walk \in Walk /\ list \in Seq(numbers) /\ Apart(list) /\ walk.shown \in Seq(numbers)
    BY <1>a, WalkFacts DEF WalkTypes
  <1>c. walk.page \in Nat /\ walk.page >= 1
    BY <1>a, WalkFacts DEF WalkRows
  <1>1. n \in Nat /\ Skip(walk.page + 1) = n + Limit /\ Limit \in Nat
    BY <1>c, Skipped
  <1>2. page = Cut(list, n, Limit)
    BY DEF PageOf, Cut
  <1>3. /\ page \in Seq(numbers) /\ Apart(page)
        /\ Beyond(list, n) = Rows(page) \cup C /\ Rows(page) \cap C = {}
        /\ Upto(list, n + Limit) = Upto(list, n) \cup Rows(page)
    <2> DEFINE e == n + Limit
    <2>1. n \in Nat /\ Limit \in Nat /\ list \in Seq(numbers) /\ Apart(list)
      BY <1>1, <1>b
    <2>2. e = n + Limit /\ C = Beyond(list, e)
      OBVIOUS
    <2> HIDE DEF page, n, numbers, C, e
    <2>3. page \in Seq(numbers) /\ Apart(page)
      BY <1>2, <2>1, <2>2, PageParts
    <2>4. Split(list, n, e, page)
      BY <1>2, <2>1, <2>2, PageParts
    <2> QED
      BY <2>2, <2>3, <2>4 DEF Split
  <1>4. /\ shown \in Seq(numbers) /\ Len(shown) = Len(walk.shown) + Len(page)
        /\ Rows(shown) = Rows(walk.shown) \cup Rows(page)
    <2> HIDE DEF page, numbers
    <2> QED
      BY <1>3, <1>b, Joined
  <1>5. IsFiniteSet(Rows(page)) /\ Cardinality(Rows(page)) = Len(page) /\ Len(page) \in Nat
    <2> HIDE DEF page, numbers
    <2> QED
      BY <1>3, RowsFinite
  <1>6. /\ walk'.pc = pc /\ walk'.page = walk.page + 1 /\ walk'.count = walk.count
        /\ walk'.shown = shown /\ walk'.initial = walk.initial /\ walk'.gone = walk.gone
        /\ walk'.left = walk.left /\ walk'.arrived = walk.arrived
        /\ walk'.between = walk.between /\ walk' \in Walk
    <2>1. walk' = [walk EXCEPT !.shown = shown, !.pc = pc, !.page = walk.page + 1]
      BY DEF FetchPage
    <2>2. pc \in {"count", "end"} /\ walk.page + 1 \in Nat
      BY <1>c
    <2> HIDE DEF shown, pc
    <2> QED
      BY <1>4, <1>b, <2>1, <2>2 DEF Walk
  <1>7. pc = "count" \/ (pc = "end" /\ ~HasNextPage(walk.page, walk.count))
    OBVIOUS
  <1> HIDE DEF n, page, shown, numbers, pc, C
  <1>8. WalkTypes'
    <2>1. Rows(list) = Upto(list, n) \cup Beyond(list, n)
      BY <1>1, <1>a, PartsOfRows DEF WalkTypes
    <2>2. Rows(list) \subseteq 1 .. created /\ Rows(walk.shown) \subseteq 1 .. created
      BY <1>a DEF WalkTypes
    <2>3. Rows(shown) \subseteq 1 .. created
      BY <1>3, <1>4, <2>1, <2>2
    <2>4. Rows(walk.shown)' = Rows(shown) /\ Rows(list)' = Rows(list)
      BY <1>6, <1>a DEF Rows
    <2> QED
      BY <1>6, <1>7, <1>a, <2>3, <2>4 DEF WalkTypes, Apart
  <1>9. WalkRows'
    <2>1. Rows(list)' = Rows(list) /\ walk'.page >= 1
      BY <1>6, <1>a, <1>c DEF Rows
    <2> QED
      BY <1>6, <1>a, <2>1 DEF WalkRows
  <1>10. Skip(walk.page)' = n + Limit /\ Rows(walk.shown)' = Rows(shown)
    BY <1>1, <1>6 DEF Skip, Rows
  <1>11. Lost' \subseteq Lost
    <2>1. Lost' = ((walk.initial \ walk.gone) \cap Upto(list, n + Limit)) \ Rows(shown)
      BY <1>6, <1>10, <1>a DEF Lost, Upto
    <2>2. Lost = ((walk.initial \ walk.gone) \cap Upto(list, n)) \ Rows(walk.shown)
      BY DEF Lost, n
    <2> QED
      BY <1>3, <1>4, <2>1, <2>2
  <1>12. Again = Rows(walk.shown) \cap Beyond(list, n) /\ Again' = Rows(shown) \cap C
    BY <1>6, <1>10, <1>a DEF Again, Beyond, n, C
  <1> DEFINE lost == Cardinality(Lost)
             lostNext == Cardinality(Lost')
             again == Cardinality(Again)
             againNext == Cardinality(Again')
             left == walk.left
             len == Len(walk.shown)
             lenNext == Len(shown)
             more == Len(page)
             rows == Cardinality(Rows(walk.shown))
             rowsNext == Cardinality(Rows(shown))
             come == walk.arrived
             size == Len(list)
  <1>13. /\ lost \in Nat /\ again \in Nat /\ left \in Nat /\ len \in Nat /\ rows \in Nat
         /\ come \in Nat /\ size \in Nat /\ walk.count \in Nat /\ walk.between \in Nat
    BY <1>a, WalkFacts
  <1>14. /\ lostNext \in Nat /\ lostNext <= lost
    <2>1. IsFiniteSet(Lost)
      BY <1>a, WalkFacts
    <2> QED
      BY <1>11, <2>1, FS_Subset, FS_CardinalityType
  <1>15. /\ rowsNext - more + again = rows + againNext
         /\ rowsNext \in Nat /\ more \in Nat /\ againNext \in Nat /\ lenNext = len + more
    <2>1. IsFiniteSet(Rows(walk.shown))
      BY <1>a, WalkFacts
    <2> HIDE DEF lost, lostNext, again, againNext, left, len, lenNext, more, rows, rowsNext, come,
                 size
    <2> DEFINE A == Rows(walk.shown)
               P == Rows(page)
               B == Beyond(list, n)
    <2>2. IsFiniteSet(A) /\ IsFiniteSet(P) /\ B = P \cup C /\ P \cap C = {}
      BY <1>3, <1>5, <2>1
    <2>3. /\ rowsNext = Cardinality(A \cup P) /\ againNext = Cardinality((A \cup P) \cap C)
          /\ again = Cardinality(A \cap B) /\ rows = Cardinality(A) /\ more = Cardinality(P)
          /\ lenNext = len + more /\ more \in Nat
      BY <1>4, <1>5, <1>12 DEF rows, rowsNext, again, againNext, len, lenNext, more
    <2> HIDE DEF A, P, B
    <2>4. Counted(A, P, B, C)
      BY <2>2, PageCounts
    <2> QED
      BY <2>3, <2>4 DEF Counted
  <1>16. lost <= left /\ len - rows + again <= come /\ size <= walk.count + walk.between
    BY <1>a DEF WalkCounts
  <1>17. lostNext <= left /\ lenNext - rowsNext + againNext <= come
    <2> HIDE DEF lost, lostNext, again, againNext, left, len, lenNext, more, rows, rowsNext, come
    <2> QED
      BY <1>13, <1>14, <1>15, <1>16
  <1>18. WalkCounts'
    <2>1. Cardinality(Lost)' <= walk'.left
      BY <1>6, <1>17
    <2>2. Len(walk.shown)' - Cardinality(Rows(walk.shown))' + Cardinality(Again)' <= walk'.arrived
      BY <1>6, <1>10, <1>17
    <2> QED
      BY <1>6, <1>7, <2>1, <2>2 DEF WalkCounts
  <1>19. ASSUME pc = "end" PROVE PagesComplete'
    <2> DEFINE missed == (walk.initial \ walk.gone) \ Rows(shown)
    <2>1. walk.count <= n + Limit
      BY <1>7, <1>13, <1>19, <1>c, LastPage DEF n
    <2>2. size <= (n + Limit) + walk.between /\ n + Limit \in Nat
      <3> HIDE DEF size
      <3> QED
        BY <1>1, <1>13, <1>16, <2>1
    <2>3. /\ IsFiniteSet(C) /\ Cardinality(C) \in Nat /\ Cardinality(C) <= walk.between
      BY <1>13, <1>b, <2>2, RestSmall DEF C
    <2>4. missed \subseteq Lost' \cup C
      <3>1. walk.initial \ walk.gone \subseteq Rows(list)
        BY <1>a DEF WalkRows
      <3>2. Rows(list) = Upto(list, n + Limit) \cup C
        BY <1>b, <2>2, PartsOfRows DEF C
      <3>3. Lost' = ((walk.initial \ walk.gone) \cap Upto(list, n + Limit)) \ Rows(shown)
        BY <1>6, <1>10, <1>a DEF Lost, Upto
      <3> QED
        BY <3>1, <3>2, <3>3
    <2>5. IsFiniteSet(Lost')
      BY <1>11, <1>a, WalkFacts, FS_Subset
    <2>6. Cardinality(missed) \in Nat /\ Cardinality(missed) <= lostNext + Cardinality(C)
      <3>1. /\ IsFiniteSet(Lost' \cup C)
            /\ Cardinality(Lost' \cup C) = lostNext + Cardinality(C) - Cardinality(Lost' \cap C)
        BY <2>3, <2>5, FS_Union
      <3>2. IsFiniteSet(missed) /\ Cardinality(missed) <= Cardinality(Lost' \cup C)
        BY <2>4, <3>1, FS_Subset
      <3>3. /\ Cardinality(missed) \in Nat /\ Cardinality(Lost' \cup C) \in Nat
            /\ Cardinality(Lost' \cap C) \in Nat
        <4>1. IsFiniteSet(Lost' \cap C)
          BY <2>3, FS_Subset
        <4> QED
          BY <3>1, <3>2, <4>1, FS_CardinalityType
      <3> DEFINE a == Cardinality(missed)
                 b == Cardinality(Lost' \cup C)
                 c == Cardinality(Lost' \cap C)
                 d == Cardinality(C)
      <3>4. a \in Nat /\ b \in Nat /\ c \in Nat /\ d \in Nat /\ a <= b /\ b = lostNext + d - c
        BY <2>3, <3>1, <3>2, <3>3
      <3> HIDE DEF a, b, c, d, lostNext, missed
      <3>5. a \in Nat /\ a <= lostNext + d
        BY <1>14, <3>4
      <3> QED
        BY <3>5 DEF a, d
    <2>7. Cardinality(missed) <= left + walk.between
      <3> DEFINE a == Cardinality(missed)
                 d == Cardinality(C)
      <3>1. a \in Nat /\ d \in Nat /\ a <= lostNext + d /\ d <= walk.between
        BY <2>3, <2>6
      <3> HIDE DEF a, d, lostNext, left, missed
      <3>2. a <= left + walk.between
        BY <1>13, <1>14, <1>17, <3>1
      <3> QED
        BY <3>2 DEF a
    <2>8. lenNext - rowsNext <= come
      <3>1. lenNext \in Nat
        BY <1>13, <1>15
      <3> HIDE DEF lenNext, rowsNext, come, againNext
      <3> QED
        BY <1>13, <1>15, <1>17, <3>1
    <2>9. Cardinality((walk.initial \ walk.gone) \ Rows(walk.shown))' = Cardinality(missed)
      BY <1>6, <1>10
    <2> QED
      BY <1>6, <1>10, <2>7, <2>8, <2>9 DEF PagesComplete
  <1>20. PagesComplete'
    BY <1>6, <1>7, <1>19 DEF PagesComplete
  <1> QED
    BY <1>8, <1>9, <1>18, <1>20 DEF ListingInv

LEMMA ListingStepInv == ListingInv /\ [ListingStep]_listingVars => ListingInv'
  <1> SUFFICES ASSUME ListingInv, [ListingStep]_listingVars PROVE ListingInv'
    OBVIOUS
  <1>1. CASE UNCHANGED listingVars
    BY <1>1 DEF listingVars, ListingInv, WalkTypes, WalkRows, WalkCounts, PagesComplete, Apart,
                Rows, Lost, Again, Upto, Beyond, Skip
  <1> QED
    BY <1>1, StartStep, CountRowsStep, InsertStep, EnterStep, LeaveStep, FetchStep DEF ListingStep
-----------------------------------------------------------------------------
(* Tables and the report.                                                  *)

SubStatuses == {"none", "attention", "active", "past_due", "paused", "canceled"}
InvoiceStatuses == {"draft", "open", "paid", "failed", "refunded"}

SubRows == [status : SubStatuses, plan : Plans \cup {NoSub.plan}, created : Int, canceled : Int,
            source : PaymentMethods]

InvoiceRows == [buyer : Buyers, status : InvoiceStatuses, due : Int, paid : Int,
                created : Int, paidAt : Int]

PaymentRows == [status : {"PENDING_BILLING", "SUCCESS", "PAYMENT_FAILED", "REFUND"}, amount : Int,
                plan : Plans, method : PaymentMethods, created : Int, invoice : Nat]

\* A payment is of an invoice, or was received for a trial.
Belongs(p) ==
    p.invoice \in DOMAIN invoices \/ (p.invoice = NoInvoice /\ p.status \in Received)

\* An invoice has a subscription, which has a plan, and a canceled subscription
\* has the time of its cancellation.
Linked ==
    /\ \A i \in DOMAIN invoices : Has(subs[invoices[i].buyer])
    /\ \A k \in DOMAIN payments : Belongs(payments[k])
    /\ \A b \in Buyers : /\ Has(subs[b]) => subs[b].plan \in Plans
                         /\ subs[b].status = "canceled" => subs[b].canceled # NoTime

Stored ==
    /\ subs \in [Buyers -> SubRows] /\ invoices \in Seq(InvoiceRows)
    /\ payments \in Seq(PaymentRows)
    /\ Linked

Columns == {"pc", "from", "to", "at", "invoices", "previous", "customers", "subscriptions",
            "payments"}

ReportMade ==
    /\ report = [f \in Columns |-> report[f]] /\ report.pc \in 0 .. Len(Reads) + 1
    /\ report.from \in Int

DashboardInv == now \in Start .. Horizon /\ Stored /\ ReportMade
-----------------------------------------------------------------------------
LEMMA NoSubType == NoSub \in SubRows /\ ~Has(NoSub)
  <1>1. NoSub = [status |-> "none", plan |-> NoSub.plan, created |-> 0, canceled |-> -1,
                 source |-> "unknown"]
    BY DEF NoSub, NoTime
  <1> QED
    BY <1>1 DEF SubRows, SubStatuses, PaymentMethods, Has

LEMMA NowType == ASSUME now \in Start .. Horizon PROVE now \in Int /\ now # NoTime
  BY DashboardAssumption DEF NoTime

\* Rows may change in place.
LEMMA ChangedRows ==
  ASSUME NEW S, NEW s \in Seq(S), NEW t, DOMAIN t = DOMAIN s, t = [i \in DOMAIN t |-> t[i]],
         \A i \in DOMAIN t : t[i] \in S
  PROVE  t \in Seq(S) /\ Len(t) = Len(s)
  <1>1. Len(s) \in Nat /\ DOMAIN s = 1 .. Len(s)
    BY LenProperties
  <1>2. t \in [1 .. Len(s) -> S]
    BY <1>1
  <1> QED
    BY <1>1, <1>2, LenProperties

LEMMA ReadsTables ==
  /\ Len(Reads) = 5 /\ DOMAIN Reads = 1 .. 5
  /\ Reads[1] = "invoices" /\ Reads[2] = "previous" /\ Reads[3] = "customers"
  /\ Reads[4] = "subscriptions" /\ Reads[5] = "payments"
  /\ \A n \in 1 .. 5 : Reads[n] \in Columns \ {"pc", "from", "to", "at"}
  <1>1. Len(Reads) = 5
    BY DEF Reads
  <1>2. DOMAIN Reads = 1 .. 5
    BY DEF Reads
  <1>3. /\ Reads[1] = "invoices" /\ Reads[2] = "previous" /\ Reads[3] = "customers"
        /\ Reads[4] = "subscriptions" /\ Reads[5] = "payments"
    BY DEF Reads
  <1>4. 1 .. 5 = {1, 2, 3, 4, 5}
    OBVIOUS
  <1>5. \A n \in {1, 2, 3, 4, 5} : Reads[n] \in Columns \ {"pc", "from", "to", "at"}
    BY <1>3 DEF Columns
  <1>6. \A n \in 1 .. 5 : Reads[n] \in Columns \ {"pc", "from", "to", "at"}
    BY <1>4, <1>5
  <1> QED
    BY <1>1, <1>2, <1>3, <1>6

\* One row changes, or one is added.
LEMMA OneReplaced ==
  ASSUME NEW S, NEW s \in Seq(S), NEW i \in DOMAIN s, NEW t \in S, NEW u, u = [s EXCEPT ![i] = t]
  PROVE  /\ u \in Seq(S) /\ DOMAIN u = DOMAIN s
         /\ \A j \in DOMAIN s : u[j] = IF j = i THEN t ELSE s[j]
  <1>1. s = [j \in DOMAIN s |-> s[j]] /\ \A j \in DOMAIN s : s[j] \in S
    BY LenProperties
  <1>2. DOMAIN u = DOMAIN s /\ u = [j \in DOMAIN u |-> u[j]]
        /\ \A j \in DOMAIN s : u[j] = IF j = i THEN t ELSE s[j]
    BY <1>1
  <1> QED
    BY <1>1, <1>2, ChangedRows

LEMMA OneAdded ==
  ASSUME NEW S, NEW s \in Seq(S), NEW t \in S, NEW u, u = Append(s, t)
  PROVE  /\ u \in Seq(S) /\ Len(s) \in Nat /\ DOMAIN u = DOMAIN s \cup {Len(s) + 1}
         /\ Len(s) + 1 \notin DOMAIN s /\ u[Len(s) + 1] = t
         /\ \A j \in DOMAIN s : u[j] = s[j]
  <1>1. /\ u \in Seq(S) /\ Len(u) = Len(s) + 1 /\ u[Len(s) + 1] = t
        /\ \A j \in 1 .. Len(s) : u[j] = s[j]
    BY AppendProperties
  <1>2. Len(s) \in Nat /\ DOMAIN s = 1 .. Len(s) /\ DOMAIN u = 1 .. Len(s) + 1
    BY <1>1, LenProperties
  <1>3. 1 .. Len(s) + 1 = (1 .. Len(s)) \cup {Len(s) + 1} /\ Len(s) + 1 \notin 1 .. Len(s)
    BY <1>2
  <1> QED
    BY <1>1, <1>2, <1>3
-----------------------------------------------------------------------------
(* What a change of the tables may do to their rows.                       *)

SubNext(s, t) ==
    \/ t = s
    \/ /\ ~Has(s) /\ Has(t) /\ t.plan \in Plans /\ t.created = now
       /\ t.canceled = NoTime /\ t.status # "canceled"
    \/ /\ Has(s) /\ Has(t) /\ t.plan = s.plan /\ t.created = s.created
       /\ t.canceled \in {NoTime, s.canceled, now}
       /\ t.status = "canceled" => t.canceled # NoTime

SubsNext == subs' \in [Buyers -> SubRows] /\ \A c \in Buyers : SubNext(subs[c], subs'[c])

InvoiceNext(r, t) ==
    /\ t.buyer = r.buyer /\ t.due = r.due /\ t.created = r.created
    /\ t.paid \in {0, r.paid, r.due}
    /\ t.status = "paid" => t = r \/ (t.paid = r.due /\ t.paidAt = now)

InvoiceNew(t) ==
    /\ Has(subs'[t.buyer]) /\ t.due = PlanOf[subs'[t.buyer].plan].amount /\ t.paid \in {0, t.due}
    /\ t.created = now /\ (t.status = "paid" => t.paid = t.due /\ t.paidAt = now)

InvoicesNext ==
    /\ invoices' \in Seq(InvoiceRows)
    /\ \A i \in DOMAIN invoices : i \in DOMAIN invoices' /\ InvoiceNext(invoices[i], invoices'[i])
    /\ \A i \in DOMAIN invoices' : i \in DOMAIN invoices \/ InvoiceNew(invoices'[i])

PaymentNext(p, t) ==
    /\ t.invoice = p.invoice /\ t.amount = p.amount /\ t.plan = p.plan /\ t.created = p.created
    /\ p.status \in Received => t.status \in Received

PaymentNew(t) ==
    /\ \/ t.invoice \in DOMAIN invoices' /\ t.plan = subs'[invoices'[t.invoice].buyer].plan
       \/ t.invoice = NoInvoice /\ t.status \in Received
    /\ t.amount = PlanOf[t.plan].amount /\ t.created = now

PaymentsNext ==
    /\ payments' \in Seq(PaymentRows)
    /\ \A k \in DOMAIN payments : k \in DOMAIN payments' /\ PaymentNext(payments[k], payments'[k])
    /\ \A k \in DOMAIN payments' : k \in DOMAIN payments \/ PaymentNew(payments'[k])

PaidBy(i) == \E k \in DOMAIN payments : payments[k].invoice = i /\ payments[k].status \in Received

\* What is paid was paid before or has a payment.
Settled ==
    \A i \in DOMAIN invoices' : invoices'[i].status = "paid" =>
        \/ i \in DOMAIN invoices /\ invoices[i].status = "paid"
        \/ PaidBy(i)'

Changed == SubsNext /\ InvoicesNext /\ PaymentsNext /\ Settled
-----------------------------------------------------------------------------
LEMMA StoredRows ==
  ASSUME DashboardInv
  PROVE  /\ \A i \in DOMAIN invoices : /\ invoices[i] \in InvoiceRows /\ i \in Nat
                                       /\ invoices[i].buyer \in Buyers
                                       /\ Has(subs[invoices[i].buyer])
                                       /\ subs[invoices[i].buyer].plan \in Plans
         /\ \A k \in DOMAIN payments : payments[k] \in PaymentRows /\ Belongs(payments[k])
         /\ \A c \in Buyers : subs[c] \in SubRows
         /\ now \in Int /\ now # NoTime
  <1>1. Stored /\ now \in Int /\ now # NoTime
    BY NowType DEF DashboardInv
  <1>2. /\ \A i \in DOMAIN invoices : invoices[i] \in InvoiceRows /\ i \in Nat
        /\ \A k \in DOMAIN payments : payments[k] \in PaymentRows
    BY <1>1, LenProperties DEF Stored
  <1>3. \A i \in DOMAIN invoices : invoices[i].buyer \in Buyers
    BY <1>2 DEF InvoiceRows
  <1> QED
    BY <1>1, <1>2, <1>3 DEF Stored, Linked

LEMMA SameSubs ==
  ASSUME DashboardInv, subs' = subs
  PROVE  SubsNext
  BY DEF DashboardInv, Stored, SubsNext, SubNext

LEMMA SameInvoices ==
  ASSUME DashboardInv, invoices' = invoices
  PROVE  InvoicesNext
  <1>1. \A i \in DOMAIN invoices : InvoiceNext(invoices[i], invoices[i])
    BY DEF InvoiceNext
  <1> QED
    BY <1>1 DEF DashboardInv, Stored, InvoicesNext

LEMMA SamePayments ==
  ASSUME DashboardInv, payments' = payments
  PROVE  PaymentsNext
  BY DEF DashboardInv, Stored, PaymentsNext, PaymentNext

LEMMA SubReplaced ==
  ASSUME DashboardInv, NEW b \in Buyers, NEW t \in SubRows, SubNext(subs[b], t),
         subs' = [subs EXCEPT ![b] = t]
  PROVE  SubsNext /\ subs'[b] = t
  <1>1. subs \in [Buyers -> SubRows]
    BY DEF DashboardInv, Stored
  <1>2. subs' \in [Buyers -> SubRows] /\ \A c \in Buyers : subs'[c] = IF c = b THEN t ELSE subs[c]
    BY <1>1
  <1>3. \A c \in Buyers : SubNext(subs[c], subs[c])
    BY DEF SubNext
  <1> QED
    BY <1>2, <1>3 DEF SubsNext

LEMMA InvoiceReplaced ==
  ASSUME DashboardInv, NEW i \in DOMAIN invoices, NEW t \in InvoiceRows, InvoiceNext(invoices[i], t),
         invoices' = [invoices EXCEPT ![i] = t]
  PROVE  /\ InvoicesNext /\ DOMAIN invoices' = DOMAIN invoices /\ invoices'[i] = t
         /\ \A j \in DOMAIN invoices : j # i => invoices'[j] = invoices[j]
  <1>1. invoices \in Seq(InvoiceRows)
    BY DEF DashboardInv, Stored
  <1>2. /\ invoices' \in Seq(InvoiceRows) /\ DOMAIN invoices' = DOMAIN invoices
        /\ \A j \in DOMAIN invoices : invoices'[j] = IF j = i THEN t ELSE invoices[j]
    BY <1>1, OneReplaced
  <1>3. \A j \in DOMAIN invoices : InvoiceNext(invoices[j], invoices[j])
    BY DEF InvoiceNext
  <1> QED
    BY <1>2, <1>3 DEF InvoicesNext

LEMMA InvoiceAdded ==
  ASSUME DashboardInv, NEW t \in InvoiceRows, InvoiceNew(t), invoices' = Append(invoices, t)
  PROVE  /\ InvoicesNext /\ Len(invoices) + 1 \in DOMAIN invoices' /\ Len(invoices) + 1 \in Nat
         /\ invoices'[Len(invoices) + 1] = t
         /\ \A j \in DOMAIN invoices' : \/ j \in DOMAIN invoices /\ invoices'[j] = invoices[j]
                                        \/ j = Len(invoices) + 1
  <1>1. invoices \in Seq(InvoiceRows)
    BY DEF DashboardInv, Stored
  <1>2. /\ invoices' \in Seq(InvoiceRows) /\ Len(invoices) \in Nat
        /\ DOMAIN invoices' = DOMAIN invoices \cup {Len(invoices) + 1}
        /\ invoices'[Len(invoices) + 1] = t
        /\ \A j \in DOMAIN invoices : invoices'[j] = invoices[j]
    BY <1>1, OneAdded
  <1>3. \A j \in DOMAIN invoices : InvoiceNext(invoices[j], invoices[j])
    BY DEF InvoiceNext
  <1> QED
    BY <1>2, <1>3 DEF InvoicesNext

LEMMA PaymentReplaced ==
  ASSUME DashboardInv, NEW k \in DOMAIN payments, NEW t \in PaymentRows, PaymentNext(payments[k], t),
         payments' = [payments EXCEPT ![k] = t]
  PROVE  PaymentsNext
  <1>1. payments \in Seq(PaymentRows)
    BY DEF DashboardInv, Stored
  <1>2. /\ payments' \in Seq(PaymentRows) /\ DOMAIN payments' = DOMAIN payments
        /\ \A j \in DOMAIN payments : payments'[j] = IF j = k THEN t ELSE payments[j]
    BY <1>1, OneReplaced
  <1>3. \A j \in DOMAIN payments : PaymentNext(payments[j], payments[j])
    BY DEF PaymentNext
  <1> QED
    BY <1>2, <1>3 DEF PaymentsNext

LEMMA PaymentAdded ==
  ASSUME DashboardInv, NEW t \in PaymentRows, PaymentNew(t), payments' = Append(payments, t)
  PROVE  /\ PaymentsNext
         /\ t.status \in Received => PaidBy(t.invoice)'
  <1>1. payments \in Seq(PaymentRows)
    BY DEF DashboardInv, Stored
  <1>2. /\ payments' \in Seq(PaymentRows) /\ DOMAIN payments' = DOMAIN payments \cup {Len(payments) + 1}
        /\ payments'[Len(payments) + 1] = t
        /\ \A j \in DOMAIN payments : payments'[j] = payments[j]
    BY <1>1, OneAdded
  <1>3. \A j \in DOMAIN payments : PaymentNext(payments[j], payments[j])
    BY DEF PaymentNext
  <1>4. PaymentsNext
    BY <1>2, <1>3 DEF PaymentsNext
  <1>5. t.status \in Received => PaidBy(t.invoice)'
    BY <1>2 DEF PaidBy
  <1> QED
    BY <1>4, <1>5

\* Nothing becomes paid.
LEMMA NothingPaid ==
  ASSUME \A i \in DOMAIN invoices' : /\ invoices'[i].status = "paid"
                                     => i \in DOMAIN invoices /\ invoices[i].status = "paid"
  PROVE  Settled
  BY DEF Settled
-----------------------------------------------------------------------------
LEMMA SubscribeChanges ==
  ASSUME DashboardInv, NEW b \in Buyers, NEW p \in Plans, NEW m \in PaymentMethods, Subscribe(b, p, m)
  PROVE  Changed
  <1>1. PICK t : t = Subscription(p, m, IF m = "bank" THEN "active" ELSE "attention")
    OBVIOUS
  <1>2. /\ t = [status |-> IF m = "bank" THEN "active" ELSE "attention", plan |-> p,
                created |-> now, canceled |-> -1, source |-> m]
    BY <1>1 DEF Subscription, NoSub, NoTime
  <1>3. t \in SubRows /\ SubNext(subs[b], t)
    BY <1>2, StoredRows DEF Subscribe, SubRows, SubStatuses, SubNext, Has, NoTime
  <1>4. SubsNext
    BY <1>1, <1>3, SubReplaced DEF Subscribe
  <1>5. invoices' = invoices /\ payments' = payments
    BY DEF Subscribe
  <1> QED
    BY <1>4, <1>5, SameInvoices, SamePayments, NothingPaid DEF Changed

LEMMA NewInvoice ==
  ASSUME DashboardInv, NEW b \in Buyers, NEW p \in Plans, NEW status \in {"draft", "open", "paid"}
  PROVE  Invoice(b, p, status) \in InvoiceRows
  <1>1. now \in Int /\ PlanOf[p].amount \in Int
    BY StoredRows, DashboardAssumption
  <1> QED
    BY <1>1 DEF Invoice, InvoiceRows, InvoiceStatuses, NoTime

LEMMA NewIntent ==
  ASSUME DashboardInv, NEW i \in Nat, NEW p \in Plans, NEW m \in PaymentMethods,
         NEW outcome \in {"PENDING_BILLING", "SUCCESS", "PAYMENT_FAILED"}
  PROVE  Intent(i, p, m, outcome) \in PaymentRows
  <1>1. now \in Int /\ PlanOf[p].amount \in Int
    BY StoredRows, DashboardAssumption
  <1> QED
    BY <1>1 DEF Intent, PaymentRows

\* A checkout's subscription.
LEMMA CheckoutSub ==
  ASSUME DashboardInv, NEW b \in Buyers, NEW p \in Plans, ~Has(subs[b]),
         subs' = [subs EXCEPT ![b] = Subscription(p, "card", "active")]
  PROVE  SubsNext /\ Has(subs'[b]) /\ subs'[b].plan = p
  <1>1. PICK t : t = Subscription(p, "card", "active")
    OBVIOUS
  <1>2. t = [status |-> "active", plan |-> p, created |-> now, canceled |-> -1, source |-> "card"]
    BY <1>1 DEF Subscription, NoSub, NoTime
  <1>3. t \in SubRows /\ SubNext(subs[b], t) /\ Has(t) /\ t.plan = p
    BY <1>2, StoredRows, ReportAssumption
       DEF SubRows, SubStatuses, SubNext, Has, NoTime, PaymentMethods
  <1>4. SubsNext /\ subs'[b] = t
    BY <1>1, <1>3, SubReplaced
  <1> QED
    BY <1>3, <1>4

LEMMA SubscribeTrialChanges ==
  ASSUME DashboardInv, NEW b \in Buyers, NEW p \in Plans, SubscribeTrial(b, p)
  PROVE  Changed
  <1>1. SubsNext
    BY CheckoutSub DEF SubscribeTrial
  <1>2. invoices' = invoices
    BY DEF SubscribeTrial
  <1>3. PICK pay : pay = Intent(NoInvoice, p, "card", "SUCCESS")
    OBVIOUS
  <1>4. /\ pay.invoice = NoInvoice /\ pay.status = "SUCCESS" /\ pay.plan = p
        /\ pay.amount = PlanOf[p].amount /\ pay.created = now
    BY <1>3 DEF Intent
  <1>5. pay \in PaymentRows
    BY <1>3, NewIntent, ReportAssumption DEF NoInvoice, PaymentMethods
  <1>6. PaymentNew(pay)
    BY <1>4 DEF PaymentNew, Received
  <1>7. payments' = Append(payments, pay)
    BY <1>3 DEF SubscribeTrial
  <1>8. PaymentsNext
    BY <1>5, <1>6, <1>7, PaymentAdded
  <1> QED
    BY <1>1, <1>2, <1>8, SameInvoices, NothingPaid DEF Changed

LEMMA SubscribePaidChanges ==
  ASSUME DashboardInv, NEW b \in Buyers, NEW p \in Plans, SubscribePaid(b, p)
  PROVE  Changed
  <1>1. SubsNext /\ Has(subs'[b]) /\ subs'[b].plan = p
    BY CheckoutSub DEF SubscribePaid
  <1>2. PICK row : row = PaidNow(Invoice(b, p, "paid"))
    OBVIOUS
  <1>3. row = [buyer |-> b, status |-> "paid", due |-> PlanOf[p].amount, paid |-> PlanOf[p].amount,
               created |-> now, paidAt |-> now]
    BY <1>2 DEF PaidNow, Invoice
  <1>4. PlanOf[p].amount \in Int /\ now \in Int
    BY StoredRows, DashboardAssumption
  <1>5. row \in InvoiceRows /\ InvoiceNew(row)
    BY <1>1, <1>3, <1>4 DEF InvoiceRows, InvoiceStatuses, InvoiceNew
  <1>6. PICK n : n = Len(invoices) + 1
    OBVIOUS
  <1>7. /\ InvoicesNext /\ n \in DOMAIN invoices' /\ n \in Nat /\ invoices'[n] = row
         /\ \A j \in DOMAIN invoices' : \/ j \in DOMAIN invoices /\ invoices'[j] = invoices[j]
                                        \/ j = n
    BY <1>2, <1>5, <1>6, InvoiceAdded DEF SubscribePaid
  <1>8. PICK pay : pay = Intent(n, p, "card", "SUCCESS")
    OBVIOUS
  <1>9. /\ pay.invoice = n /\ pay.status = "SUCCESS" /\ pay.plan = p
         /\ pay.amount = PlanOf[p].amount /\ pay.created = now
    BY <1>8 DEF Intent
  <1>10. pay \in PaymentRows /\ PaymentNew(pay)
    <2>1. "card" \in PaymentMethods
      BY ReportAssumption DEF PaymentMethods
    <2>2. pay \in PaymentRows
      BY <1>7, <1>8, <2>1, NewIntent
    <2>3. row.buyer = b
      BY <1>3
    <2> QED
      BY <1>1, <1>7, <1>9, <2>2, <2>3 DEF PaymentNew
  <1>11. payments' = Append(payments, pay)
    BY <1>6, <1>8 DEF SubscribePaid
  <1>12. PaymentsNext /\ PaidBy(n)'
    BY <1>9, <1>10, <1>11, PaymentAdded DEF Received
  <1>13. Settled
    BY <1>7, <1>12 DEF Settled
  <1> QED
    BY <1>1, <1>7, <1>12, <1>13 DEF Changed

LEMMA BillChanges ==
  ASSUME DashboardInv, NEW b \in Buyers, NEW status \in {"draft", "open"}, Bill(b, status)
  PROVE  Changed
  <1>1. subs' = subs /\ payments' = payments
    BY DEF Bill
  <1>2. Has(subs[b]) /\ subs[b].plan \in Plans
    BY DEF Bill, DashboardInv, Stored, Linked
  <1>3. PICK row : row = Invoice(b, subs[b].plan, status)
    OBVIOUS
  <1>4. row \in InvoiceRows
    BY <1>2, <1>3, NewInvoice
  <1>5. /\ row.buyer = b /\ row.status = status /\ row.due = PlanOf[subs[b].plan].amount
        /\ row.paid = 0 /\ row.created = now
    BY <1>3 DEF Invoice
  <1>6. InvoiceNew(row)
    BY <1>1, <1>2, <1>5 DEF InvoiceNew
  <1>7. /\ InvoicesNext /\ invoices'[Len(invoices) + 1] = row
        /\ \A j \in DOMAIN invoices' : \/ j \in DOMAIN invoices /\ invoices'[j] = invoices[j]
                                       \/ j = Len(invoices) + 1
    BY <1>3, <1>4, <1>6, InvoiceAdded DEF Bill
  <1>8. Settled
    BY <1>5, <1>7 DEF Settled
  <1> QED
    BY <1>1, <1>7, <1>8, SameSubs, SamePayments DEF Changed

LEMMA StoreInvoiceChanges ==
  ASSUME DashboardInv, NEW i \in DOMAIN invoices, NEW status \in {"open", "failed", "refunded"},
         NEW paid \in {0, invoices[i].paid}, StoreInvoice(i, status, paid)
  PROVE  Changed
  <1>1. subs' = subs /\ payments' = payments
    BY DEF StoreInvoice
  <1>2. invoices[i] \in InvoiceRows
    BY StoredRows
  <1>3. PICK at : at = IF paid = 0 THEN NoTime ELSE invoices[i].paidAt
    OBVIOUS
  <1>4. PICK row : row = [invoices[i] EXCEPT !.status = status, !.paid = paid, !.paidAt = at]
    OBVIOUS
  <1>5. invoices' = [invoices EXCEPT ![i] = row]
    BY <1>3, <1>4 DEF StoreInvoice
  <1>6. at \in Int /\ paid \in Int
    BY <1>2, <1>3 DEF InvoiceRows, NoTime
  <1>7. /\ row \in InvoiceRows /\ row.status = status /\ row.paid = paid
        /\ row.buyer = invoices[i].buyer /\ row.due = invoices[i].due
        /\ row.created = invoices[i].created
    BY <1>2, <1>4, <1>6 DEF InvoiceRows, InvoiceStatuses
  <1>8. InvoiceNext(invoices[i], row)
    BY <1>7 DEF InvoiceNext
  <1>9. /\ InvoicesNext /\ DOMAIN invoices' = DOMAIN invoices /\ invoices'[i] = row
        /\ \A j \in DOMAIN invoices : j # i => invoices'[j] = invoices[j]
    BY <1>5, <1>7, <1>8, InvoiceReplaced
  <1>10. Settled
    BY <1>7, <1>9 DEF Settled
  <1> QED
    BY <1>1, <1>9, <1>10, SameSubs, SamePayments DEF Changed

\* Another status and time of cancellation.
LEMMA SubStatus ==
  ASSUME DashboardInv, NEW b \in Buyers, Has(subs[b]), NEW status \in SubStatuses \ {"none"},
         NEW canceled \in {NoTime, subs[b].canceled, now}, NEW source \in PaymentMethods,
         status = "canceled" => canceled # NoTime, NEW t,
         t = [subs[b] EXCEPT !.status = status, !.canceled = canceled, !.source = source],
         subs' = [subs EXCEPT ![b] = t]
  PROVE  SubsNext /\ subs'[b].plan = subs[b].plan
         /\ \A c \in Buyers : c # b => subs'[c] = subs[c]
  <1>1. subs[b] \in SubRows /\ now \in Int
    BY StoredRows
  <1>2. canceled \in Int
    BY <1>1 DEF SubRows, NoTime
  <1>3. /\ t \in SubRows /\ t.status = status /\ t.canceled = canceled
        /\ t.plan = subs[b].plan /\ t.created = subs[b].created
    BY <1>1, <1>2 DEF SubRows
  <1>4. SubNext(subs[b], t)
    BY <1>3 DEF SubNext, Has
  <1>5. \A c \in Buyers : c # b => subs'[c] = subs[c]
    BY DEF DashboardInv, Stored
  <1> QED
    BY <1>3, <1>4, <1>5, SubReplaced

LEMMA StoreSubscriptionChanges ==
  ASSUME DashboardInv, NEW b \in Buyers, NEW status \in {subs[b].status, "active", "past_due", "paused"},
         NEW canceled \in {NoTime, subs[b].canceled}, StoreSubscription(b, status, canceled)
  PROVE  Changed
  <1>1. invoices' = invoices /\ payments' = payments /\ Has(subs[b]) /\ subs[b] \in SubRows
    BY StoredRows DEF StoreSubscription
  <1>2. status \in SubStatuses \ {"none"} /\ (status = "canceled" => canceled # NoTime)
    BY <1>1 DEF StoreSubscription, SubRows, SubStatuses, Has
  <1>3. PICK t : t = [subs[b] EXCEPT !.status = status, !.canceled = canceled, !.source = subs[b].source]
    OBVIOUS
  <1>4. [subs[b] EXCEPT !.status = status, !.canceled = canceled] = t
    BY <1>1, <1>3 DEF SubRows
  <1>5. subs' = [subs EXCEPT ![b] = t]
    BY <1>4 DEF StoreSubscription
  <1>6. subs[b].source \in PaymentMethods
    BY <1>1 DEF SubRows
  <1>7. SubsNext
    BY <1>1, <1>2, <1>3, <1>5, <1>6, SubStatus
  <1> QED
    BY <1>1, <1>7, SameInvoices, SamePayments, NothingPaid DEF Changed

\* A payment of invoice i.
LEMMA IntentRow ==
  ASSUME DashboardInv, NEW i \in DOMAIN invoices, NEW m \in PaymentMethods,
         NEW outcome \in {"PENDING_BILLING", "SUCCESS", "PAYMENT_FAILED"},
         NEW t, t = Intent(i, PlanPaid(i), m, outcome),
         i \in DOMAIN invoices', invoices'[i].buyer = invoices[i].buyer,
         subs'[invoices[i].buyer].plan = subs[invoices[i].buyer].plan,
         payments' = Append(payments, t)
  PROVE  PaymentsNext /\ (outcome = "SUCCESS" => PaidBy(i)')
  <1>1. PlanPaid(i) \in Plans /\ i \in Nat
    BY StoredRows DEF PlanPaid
  <1>2. t \in PaymentRows
    BY <1>1, NewIntent
  <1>3. /\ t.invoice = i /\ t.status = outcome /\ t.plan = PlanPaid(i)
        /\ t.amount = PlanOf[PlanPaid(i)].amount /\ t.created = now
    BY DEF Intent
  <1>4. PaymentNew(t)
    BY <1>3 DEF PaymentNew, PlanPaid
  <1> QED
    BY <1>2, <1>3, <1>4, PaymentAdded DEF Received

LEMMA StartPaymentChanges ==
  ASSUME DashboardInv, NEW i \in DOMAIN invoices, NEW m \in Methods, StartPayment(i, m)
  PROVE  Changed
  <1>1. subs' = subs /\ invoices' = invoices
    BY DEF StartPayment
  <1>2. PICK t : t = Intent(i, PlanPaid(i), m, "PENDING_BILLING")
    OBVIOUS
  <1>3. payments' = Append(payments, t) /\ m \in PaymentMethods
    BY <1>2 DEF StartPayment, PaymentMethods
  <1>4. PaymentsNext
    BY <1>1, <1>2, <1>3, IntentRow
  <1> QED
    BY <1>1, <1>4, SameSubs, SameInvoices, NothingPaid DEF Changed

\* Another outcome of a payment, which keeps what was received.
LEMMA PaymentStatus ==
  ASSUME DashboardInv, NEW k \in DOMAIN payments,
         NEW status \in {"PENDING_BILLING", "SUCCESS", "PAYMENT_FAILED", "REFUND"},
         payments[k].status \in Received => status \in Received,
         payments' = [payments EXCEPT ![k].status = status]
  PROVE  PaymentsNext
  <1>1. payments[k] \in PaymentRows
    BY StoredRows
  <1>2. PICK t : t = [payments[k] EXCEPT !.status = status]
    OBVIOUS
  <1>3. /\ t \in PaymentRows /\ t.status = status /\ t.invoice = payments[k].invoice
        /\ t.amount = payments[k].amount /\ t.plan = payments[k].plan
        /\ t.created = payments[k].created
    BY <1>1, <1>2 DEF PaymentRows
  <1>4. PaymentNext(payments[k], t)
    BY <1>3 DEF PaymentNext
  <1>5. payments' = [payments EXCEPT ![k] = t]
    BY <1>2
  <1> QED
    BY <1>3, <1>4, <1>5, PaymentReplaced

LEMMA EndPaymentChanges ==
  ASSUME DashboardInv, NEW k \in DOMAIN payments, NEW status \in {"SUCCESS", "PAYMENT_FAILED"},
         EndPayment(k, status)
  PROVE  Changed
  <1>1. subs' = subs /\ invoices' = invoices
    BY DEF EndPayment
  <1>2. PaymentsNext
    BY PaymentStatus DEF EndPayment, Received
  <1> QED
    BY <1>1, <1>2, SameSubs, SameInvoices, NothingPaid DEF Changed

\* Invoice i is paid.
LEMMA InvoicePaid ==
  ASSUME DashboardInv, NEW i \in DOMAIN invoices, invoices' = [invoices EXCEPT ![i] = PaidNow(@)]
  PROVE  /\ InvoicesNext /\ DOMAIN invoices' = DOMAIN invoices
         /\ invoices'[i].buyer = invoices[i].buyer
         /\ PaidBy(i)' => Settled
  <1>1. invoices[i] \in InvoiceRows /\ now \in Int
    BY StoredRows
  <1>2. PICK row : row = PaidNow(invoices[i])
    OBVIOUS
  <1>3. /\ row \in InvoiceRows /\ row.status = "paid" /\ row.paid = invoices[i].due
        /\ row.paidAt = now /\ row.buyer = invoices[i].buyer /\ row.due = invoices[i].due
        /\ row.created = invoices[i].created
    BY <1>1, <1>2 DEF PaidNow, InvoiceRows, InvoiceStatuses
  <1>4. InvoiceNext(invoices[i], row)
    BY <1>3 DEF InvoiceNext
  <1>5. invoices' = [invoices EXCEPT ![i] = row]
    BY <1>2
  <1>6. /\ InvoicesNext /\ DOMAIN invoices' = DOMAIN invoices /\ invoices'[i] = row
        /\ \A j \in DOMAIN invoices : j # i => invoices'[j] = invoices[j]
    BY <1>3, <1>4, <1>5, InvoiceReplaced
  <1>7. PaidBy(i)' => Settled
    BY <1>6 DEF Settled
  <1> QED
    BY <1>3, <1>6, <1>7

LEMMA markInvoicePaidChanges ==
  ASSUME DashboardInv, NEW i \in DOMAIN invoices, markInvoicePaid(i)
  PROVE  Changed
  <1>1. subs' = subs /\ payments' = payments
    BY DEF markInvoicePaid
  <1>2. PaidBy(i)'
    BY <1>1 DEF markInvoicePaid, PaidBy
  <1>3. InvoicesNext /\ Settled
    BY <1>2, InvoicePaid DEF markInvoicePaid
  <1> QED
    BY <1>1, <1>3, SameSubs, SamePayments DEF Changed

LEMMA PaymentSucceededChanges ==
  ASSUME DashboardInv, NEW i \in DOMAIN invoices, PaymentSucceeded(i)
  PROVE  Changed
  <1>1. PICK b \in Buyers : b = invoices[i].buyer
    BY StoredRows
  <1>2. subs[b] \in SubRows /\ Has(subs[b]) /\ "card" \in PaymentMethods
    BY <1>1, StoredRows, ReportAssumption DEF PaymentMethods
  <1>3. PICK t : t = [subs[b] EXCEPT !.status = "active", !.canceled = subs[b].canceled, !.source = "card"]
    OBVIOUS
  <1>4. [subs[b] EXCEPT !.status = "active", !.source = "card"] = t
    BY <1>2, <1>3 DEF SubRows
  <1>5. subs' = [subs EXCEPT ![b] = t]
    BY <1>1, <1>4 DEF PaymentSucceeded
  <1>6. SubsNext /\ subs'[b].plan = subs[b].plan
    BY <1>2, <1>3, <1>5, SubStatus DEF SubStatuses
  <1>7. /\ InvoicesNext /\ DOMAIN invoices' = DOMAIN invoices
        /\ invoices'[i].buyer = invoices[i].buyer
        /\ PaidBy(i)' => Settled
    BY InvoicePaid DEF PaymentSucceeded
  <1>8. PICK pay : pay = Intent(i, PlanPaid(i), "card", "SUCCESS")
    OBVIOUS
  <1>9. payments' = Append(payments, pay)
    BY <1>8 DEF PaymentSucceeded
  <1>10. PaymentsNext /\ PaidBy(i)'
    BY <1>1, <1>2, <1>6, <1>7, <1>8, <1>9, IntentRow
  <1> QED
    BY <1>6, <1>7, <1>10 DEF Changed

\* An invoice of another status than paid.
LEMMA InvoiceStatus ==
  ASSUME DashboardInv, NEW i \in DOMAIN invoices, NEW status \in InvoiceStatuses \ {"paid"},
         invoices' = [invoices EXCEPT ![i].status = status]
  PROVE  /\ InvoicesNext /\ Settled /\ i \in DOMAIN invoices'
         /\ invoices'[i].buyer = invoices[i].buyer
  <1>1. invoices[i] \in InvoiceRows
    BY StoredRows
  <1>2. PICK row : row = [invoices[i] EXCEPT !.status = status]
    OBVIOUS
  <1>3. /\ row \in InvoiceRows /\ row.status = status /\ row.paid = invoices[i].paid
        /\ row.buyer = invoices[i].buyer /\ row.due = invoices[i].due
        /\ row.created = invoices[i].created
    BY <1>1, <1>2 DEF InvoiceRows
  <1>4. InvoiceNext(invoices[i], row)
    BY <1>3 DEF InvoiceNext
  <1>5. invoices' = [invoices EXCEPT ![i] = row]
    BY <1>2
  <1>6. /\ InvoicesNext /\ DOMAIN invoices' = DOMAIN invoices /\ invoices'[i] = row
        /\ \A j \in DOMAIN invoices : j # i => invoices'[j] = invoices[j]
    BY <1>3, <1>4, <1>5, InvoiceReplaced
  <1>7. Settled
    BY <1>3, <1>6 DEF Settled
  <1> QED
    BY <1>3, <1>6, <1>7

LEMMA FailChanges ==
  ASSUME DashboardInv, NEW i \in DOMAIN invoices, Fail(i)
  PROVE  /\ SubsNext /\ InvoicesNext /\ Settled /\ i \in DOMAIN invoices'
         /\ invoices'[i].buyer = invoices[i].buyer
         /\ subs'[invoices[i].buyer].plan = subs[invoices[i].buyer].plan
  <1>1. PICK b \in Buyers : b = invoices[i].buyer
    BY StoredRows
  <1>2. subs[b] \in SubRows /\ Has(subs[b])
    BY <1>1, StoredRows
  <1>3. PICK t : t = [subs[b] EXCEPT !.status = "paused", !.canceled = subs[b].canceled,
                                     !.source = subs[b].source]
    OBVIOUS
  <1>4. [subs[b] EXCEPT !.status = "paused"] = t /\ subs[b].source \in PaymentMethods
    BY <1>2, <1>3 DEF SubRows
  <1>5. subs' = [subs EXCEPT ![b] = t]
    BY <1>1, <1>4 DEF Fail
  <1>6. SubsNext /\ subs'[b].plan = subs[b].plan
    BY <1>2, <1>3, <1>4, <1>5, SubStatus DEF SubStatuses
  <1>7. InvoicesNext /\ Settled /\ i \in DOMAIN invoices' /\ invoices'[i].buyer = invoices[i].buyer
    BY InvoiceStatus DEF Fail, InvoiceStatuses
  <1> QED
    BY <1>1, <1>6, <1>7

LEMMA PaymentFailedChanges ==
  ASSUME DashboardInv, NEW k \in DOMAIN payments, PaymentFailed(k)
  PROVE  Changed
  <1>1. PICK i \in DOMAIN invoices : i = payments[k].invoice
    BY StoredRows DEF PaymentFailed, Belongs, Received
  <1>2. SubsNext /\ InvoicesNext /\ Settled
    BY <1>1, FailChanges DEF PaymentFailed
  <1>3. PaymentsNext
    BY PaymentStatus DEF PaymentFailed, Received
  <1> QED
    BY <1>2, <1>3 DEF Changed

LEMMA CheckoutFailedChanges ==
  ASSUME DashboardInv, NEW i \in DOMAIN invoices, CheckoutFailed(i)
  PROVE  Changed
  <1>1. /\ SubsNext /\ InvoicesNext /\ Settled /\ i \in DOMAIN invoices'
        /\ invoices'[i].buyer = invoices[i].buyer
        /\ subs'[invoices[i].buyer].plan = subs[invoices[i].buyer].plan
    BY FailChanges DEF CheckoutFailed
  <1>2. PICK pay : pay = Intent(i, PlanPaid(i), "unknown", "PAYMENT_FAILED")
    OBVIOUS
  <1>3. payments' = Append(payments, pay) /\ "unknown" \in PaymentMethods
    BY <1>2 DEF CheckoutFailed, PaymentMethods
  <1>4. PaymentsNext
    BY <1>1, <1>2, <1>3, IntentRow
  <1> QED
    BY <1>1, <1>4 DEF Changed

LEMMA RefundChanges ==
  ASSUME DashboardInv, NEW k \in DOMAIN payments, Refund(k)
  PROVE  Changed
  <1>1. ASSUME payments[k].invoice \in DOMAIN invoices PROVE InvoicesNext /\ Settled
    <2>1. PICK i \in DOMAIN invoices : i = payments[k].invoice
      BY <1>1
    <2>2. invoices \in Seq(InvoiceRows)
      BY DEF DashboardInv, Stored
    <2>3. invoices = [j \in DOMAIN invoices |-> invoices[j]]
      BY <2>2
    <2>4. invoices' = [invoices EXCEPT ![i].status = "refunded"]
      BY <2>1, <2>3 DEF Refund
    <2> QED
      BY <2>4, InvoiceStatus DEF InvoiceStatuses
  <1>2. ASSUME payments[k].invoice \notin DOMAIN invoices PROVE InvoicesNext /\ Settled
    <2>1. invoices \in Seq(InvoiceRows)
      BY DEF DashboardInv, Stored
    <2>2. invoices = [j \in DOMAIN invoices |-> invoices[j]]
      BY <2>1
    <2>3. invoices' = invoices
      BY <1>2, <2>2 DEF Refund
    <2> QED
      BY <2>3, SameInvoices, NothingPaid
  <1>3. PaymentsNext
    BY PaymentStatus DEF Refund, Received
  <1>4. subs' = subs
    BY DEF Refund
  <1> QED
    BY <1>1, <1>2, <1>3, <1>4, SameSubs DEF Changed

LEMMA CanceledChanges ==
  ASSUME DashboardInv, NEW b \in Buyers, Has(subs[b]), Canceled(b)
  PROVE  SubsNext
  <1>1. subs[b] \in SubRows /\ now # NoTime
    BY StoredRows
  <1>2. PICK t : t = [subs[b] EXCEPT !.status = "canceled", !.canceled = now,
                                     !.source = subs[b].source]
    OBVIOUS
  <1>3. [subs[b] EXCEPT !.status = "canceled", !.canceled = now] = t
        /\ subs[b].source \in PaymentMethods
    BY <1>1, <1>2 DEF SubRows
  <1>4. subs' = [subs EXCEPT ![b] = t]
    BY <1>3 DEF Canceled
  <1> QED
    BY <1>1, <1>2, <1>3, <1>4, SubStatus DEF SubStatuses

LEMMA CancelChanges ==
  ASSUME DashboardInv, NEW b \in Buyers, Cancel(b)
  PROVE  Changed
  <1>1. SubsNext /\ payments' = payments
    BY CanceledChanges DEF Cancel
  <1>2. PICK u : u = invoices'
    OBVIOUS
  <1>3. DOMAIN u = DOMAIN invoices /\ u = [i \in DOMAIN u |-> u[i]]
    BY <1>2 DEF Cancel
  <1>4. ASSUME NEW i \in DOMAIN invoices
        PROVE  /\ u[i] \in InvoiceRows /\ InvoiceNext(invoices[i], u[i])
               /\ u[i].status = "paid" => invoices[i].status = "paid"
    <2>1. invoices[i] \in InvoiceRows
      BY StoredRows
    <2>2. CASE u[i] = invoices[i]
      BY <2>1, <2>2 DEF InvoiceNext
    <2>3. CASE u[i] # invoices[i]
      <3>1. u[i] = [invoices[i] EXCEPT !.status = "failed"]
        BY <1>2, <2>3 DEF Cancel
      <3>2. /\ u[i] \in InvoiceRows /\ u[i].status = "failed" /\ u[i].paid = invoices[i].paid
            /\ u[i].buyer = invoices[i].buyer /\ u[i].due = invoices[i].due
            /\ u[i].created = invoices[i].created
        BY <2>1, <3>1 DEF InvoiceRows, InvoiceStatuses
      <3> QED
        BY <3>2 DEF InvoiceNext
    <2> QED
      BY <2>2, <2>3
  <1>5. u \in Seq(InvoiceRows)
    <2>1. invoices \in Seq(InvoiceRows)
      BY DEF DashboardInv, Stored
    <2> QED
      BY <1>3, <1>4, <2>1, ChangedRows
  <1>6. InvoicesNext
    BY <1>2, <1>3, <1>4, <1>5 DEF InvoicesNext
  <1>7. Settled
    BY <1>2, <1>3, <1>4, NothingPaid
  <1> QED
    BY <1>1, <1>6, <1>7, SamePayments DEF Changed

LEMMA DeleteMandateChanges ==
  ASSUME DashboardInv, NEW b \in Buyers, DeleteMandate(b)
  PROVE  Changed
  <1>1. SubsNext /\ invoices' = invoices /\ payments' = payments
    BY CanceledChanges DEF DeleteMandate
  <1> QED
    BY <1>1, SameInvoices, SamePayments, NothingPaid DEF Changed

\* The tables change, the clock and the report do not.
LEMMA TablesStep ==
  ASSUME DashboardInv, TablesChange
  PROVE  Changed /\ now' = now /\ report' = report
  <1>1. now' = now /\ report' = report
    BY DEF TablesChange
  <1>2. ASSUME NEW b \in Buyers, BuyerChange(b) PROVE Changed
    BY <1>2, SubscribeChanges, SubscribeTrialChanges, SubscribePaidChanges, BillChanges, StoreSubscriptionChanges,
       CancelChanges, DeleteMandateChanges DEF BuyerChange, PaymentMethods
  <1>3. ASSUME NEW i \in DOMAIN invoices, InvoiceChange(i) PROVE Changed
    BY <1>3, StoreInvoiceChanges, StartPaymentChanges, markInvoicePaidChanges,
       PaymentSucceededChanges, CheckoutFailedChanges DEF InvoiceChange
  <1>4. ASSUME NEW k \in DOMAIN payments, PaymentChange(k) PROVE Changed
    BY <1>4, EndPaymentChanges, PaymentFailedChanges, RefundChanges DEF PaymentChange
  <1> QED
    BY <1>1, <1>2, <1>3, <1>4 DEF TablesChange

LEMMA ChangedStored == ASSUME DashboardInv, Changed PROVE Stored'
  <1>1. ASSUME NEW c \in Buyers PROVE SubNext(subs[c], subs'[c])
    BY DEF Changed, SubsNext
  <1>2. ASSUME NEW i \in DOMAIN invoices' PROVE Has(subs'[invoices'[i].buyer])
    <2>1. CASE i \in DOMAIN invoices
      <3>1. invoices'[i].buyer = invoices[i].buyer
        BY <2>1 DEF Changed, InvoicesNext, InvoiceNext
      <3>2. PICK b \in Buyers : b = invoices[i].buyer
        BY <2>1, StoredRows
      <3>3. Has(subs[b])
        BY <2>1, <3>2, StoredRows
      <3> QED
        BY <1>1, <3>1, <3>2, <3>3 DEF SubNext
    <2>2. CASE i \notin DOMAIN invoices
      BY <2>2 DEF Changed, InvoicesNext, InvoiceNew
    <2> QED
      BY <2>1, <2>2
  <1>3. ASSUME NEW k \in DOMAIN payments' PROVE Belongs(payments[k])'
    <2>1. CASE k \in DOMAIN payments
      <3>1. PaymentNext(payments[k], payments'[k]) /\ Belongs(payments[k])
        BY <2>1, StoredRows DEF Changed, PaymentsNext
      <3> QED
        BY <3>1 DEF Changed, InvoicesNext, PaymentNext, Belongs
    <2>2. CASE k \notin DOMAIN payments
      BY <2>2 DEF Changed, PaymentsNext, PaymentNew, Belongs
    <2> QED
      BY <2>1, <2>2
  <1>4. ASSUME NEW b \in Buyers
        PROVE  /\ Has(subs'[b]) => subs'[b].plan \in Plans
               /\ subs'[b].status = "canceled" => subs'[b].canceled # NoTime
    <2>1. /\ Has(subs[b]) => subs[b].plan \in Plans
          /\ subs[b].status = "canceled" => subs[b].canceled # NoTime
      BY DEF DashboardInv, Stored, Linked
    <2> QED
      BY <1>1, <2>1 DEF SubNext
  <1>5. Linked'
    BY <1>2, <1>3, <1>4 DEF Linked
  <1> QED
    BY <1>5 DEF Changed, SubsNext, InvoicesNext, PaymentsNext, Stored

LEMMA DashboardInitInv == DashboardInit => DashboardInv
  <1> SUFFICES ASSUME DashboardInit PROVE DashboardInv
    OBVIOUS
  <1>1. now \in Start .. Horizon
    BY DashboardAssumption DEF DashboardInit
  <1>2. subs \in [Buyers -> SubRows] /\ \A b \in Buyers : subs[b].status = "none"
    BY NoSubType DEF DashboardInit, Has
  <1>3. /\ invoices \in Seq(InvoiceRows) /\ payments \in Seq(PaymentRows)
        /\ DOMAIN payments = {} /\ DOMAIN invoices = {}
    BY DEF DashboardInit
  <1>4. report = NoReport /\ NoReport = [f \in Columns |-> NoReport[f]]
        /\ NoReport.pc = 0 /\ NoReport.from = 0
    BY DEF DashboardInit, NoReport, Columns
  <1>5. ReportMade
    BY <1>4, ReadsTables DEF ReportMade
  <1>6. Linked
    BY <1>2, <1>3 DEF Linked, Has
  <1> QED
    BY <1>1, <1>2, <1>3, <1>5, <1>6 DEF DashboardInv, Stored

LEMMA PassStep ==
  ASSUME DashboardInv, Pass
  PROVE  DashboardInv'
  <1>1. now' \in Start .. Horizon
    BY DashboardAssumption DEF DashboardInv, Pass
  <1>2. Stored' /\ ReportMade'
    BY DEF DashboardInv, Pass, tables, Stored, Linked, Belongs, ReportMade
  <1> QED
    BY <1>1, <1>2 DEF DashboardInv

LEMMA AskStep ==
  ASSUME DashboardInv, AskReport
  PROVE  DashboardInv'
  <1>1. PICK r : r = [NoReport EXCEPT !.pc = 1, !.from = From(Period[1]), !.to = To(Period[2]),
                                      !.at = now]
    OBVIOUS
  <1>2. r = [f \in Columns |-> r[f]] /\ r.pc = 1 /\ r.from = From(Period[1])
    BY <1>1 DEF NoReport, Columns
  <1>3. report' = r
    BY <1>1 DEF AskReport
  <1>4. From(Period[1]) \in Int
    BY DashboardAssumption DEF From
  <1>5. ReportMade'
    BY <1>2, <1>3, <1>4, ReadsTables DEF ReportMade
  <1>6. now' = now /\ Stored'
    BY DEF DashboardInv, AskReport, tables, Stored, Linked, Belongs
  <1> QED
    BY <1>5, <1>6 DEF DashboardInv

\* A read fills one column.
LEMMA ReadColumn ==
  ASSUME DashboardInv, Read
  PROVE  /\ report.pc \in 1 .. 5 /\ report'.pc = report.pc + 1
         /\ report' = [f \in Columns |-> report'[f]]
         /\ report'[Reads[report.pc]] = Answer(Reads[report.pc], report)
         /\ \A f \in Columns \ {"pc", Reads[report.pc]} : report'[f] = report[f]
  <1>1. ReportMade
    BY DEF DashboardInv
  <1>2. PICK table, rows : table = Reads[report.pc] /\ rows = Answer(table, report)
    OBVIOUS
  <1>3. report.pc \in 1 .. 5 /\ table \in Columns \ {"pc"}
    <2>1. report.pc \in 1 .. 5
      BY ReadsTables DEF Read
    <2> QED
      BY <1>2, <2>1, ReadsTables
  <1>4. PICK r : r = [report EXCEPT ![table] = rows, !.pc = @ + 1]
    OBVIOUS
  <1>5. report' = r
    BY <1>2, <1>4 DEF Read
  <1>6. /\ r = [f \in Columns |-> r[f]] /\ r["pc"] = report.pc + 1 /\ r[table] = rows
        /\ \A f \in Columns \ {"pc", table} : r[f] = report[f]
    BY <1>1, <1>3, <1>4 DEF ReportMade, Columns
  <1> QED
    BY <1>2, <1>3, <1>5, <1>6

LEMMA ReadStep ==
  ASSUME DashboardInv, Read
  PROVE  DashboardInv'
  <1>1. /\ report.pc \in 1 .. 5 /\ report'.pc = report.pc + 1 /\ report'.from = report.from
        /\ report' = [f \in Columns |-> report'[f]]
    BY ReadColumn, ReadsTables DEF Columns
  <1>2. ReportMade'
    BY <1>1, ReadsTables DEF ReportMade, DashboardInv
  <1>3. now' = now /\ Stored'
    BY DEF DashboardInv, Read, tables, Stored, Linked, Belongs
  <1> QED
    BY <1>2, <1>3 DEF DashboardInv

LEMMA DashboardStepInv == DashboardInv /\ [DashboardStep]_dashboardVars => DashboardInv'
  <1> SUFFICES ASSUME DashboardInv, [DashboardStep]_dashboardVars PROVE DashboardInv'
    OBVIOUS
  <1>1. CASE UNCHANGED dashboardVars
    BY <1>1 DEF dashboardVars, tables, DashboardInv, Stored, Linked, Belongs, ReportMade
  <1>2. CASE TablesChange
    BY <1>2, TablesStep, ChangedStored DEF DashboardInv, ReportMade
  <1> QED
    BY <1>1, <1>2, PassStep, AskStep, ReadStep DEF DashboardStep
-----------------------------------------------------------------------------
(* What the reads have in common.                                          *)

\* Invoice r was read, and is still there: its customer and time do not change.
InvoiceKept(r) ==
    /\ r.n \in DOMAIN invoices
    /\ r.row.buyer = invoices[r.n].buyer /\ r.row.created = invoices[r.n].created

InvoicesKept ==
    /\ \A r \in report.invoices : InvoiceKept(r) /\ report.from <= r.row.created
    /\ \A r \in report.previous : InvoiceKept(r) /\ r.row.created <= report.from - 1

Known(r) == r.row.buyer \in report.customers

CustomersKept ==
    /\ report.pc >= 4 => /\ \A r \in report.invoices : Known(r)
                         /\ \A r \in report.previous : Known(r)
    /\ \A c \in report.customers : c \in Buyers /\ Has(subs[c])

SubscriptionsKept ==
    /\ report.pc >= 5 => \A c \in report.customers : \E s \in report.subscriptions : s.n = c
    /\ \A s \in report.subscriptions : s.row.status = "canceled" => s.row.canceled # NoTime

ReportInv == InvoicesKept /\ CustomersKept /\ SubscriptionsKept
-----------------------------------------------------------------------------
\* What a change of the tables keeps: whose an invoice is, of when, and that
\* a customer has a subscription.
RowsKept ==
    \A i \in DOMAIN invoices : /\ i \in DOMAIN invoices'
                               /\ invoices'[i].buyer = invoices[i].buyer
                               /\ invoices'[i].created = invoices[i].created

SubsKept == \A c \in Buyers : Has(subs[c]) => Has(subs'[c])

LEMMA ChangedKept == ASSUME DashboardInv, Changed PROVE RowsKept /\ SubsKept
  <1>1. RowsKept
    BY DEF Changed, InvoicesNext, InvoiceNext, RowsKept
  <1>2. SubsKept
    BY DEF Changed, SubsNext, SubNext, SubsKept
  <1> QED
    BY <1>1, <1>2

\* What was read stays true of the tables.
LEMMA StaysTrue ==
  ASSUME ReportInv, RowsKept, SubsKept, report' = report
  PROVE  ReportInv'
  <1>1. ASSUME NEW r, InvoiceKept(r) PROVE InvoiceKept(r)'
    BY <1>1 DEF InvoiceKept, RowsKept
  <1>2. InvoicesKept'
    BY <1>1 DEF ReportInv, InvoicesKept
  <1>3. CustomersKept'
    BY DEF ReportInv, CustomersKept, SubsKept, Known
  <1>4. SubscriptionsKept'
    BY DEF ReportInv, SubscriptionsKept
  <1> QED
    BY <1>2, <1>3, <1>4 DEF ReportInv

LEMMA TablesReport ==
  ASSUME DashboardInv, ReportInv, TablesChange
  PROVE  ReportInv'
  BY TablesStep, ChangedKept, StaysTrue

LEMMA SameTables ==
  ASSUME ReportInv, UNCHANGED tables
  PROVE  RowsKept /\ SubsKept
  <1>1. subs' = subs /\ invoices' = invoices
    BY DEF tables
  <1> QED
    BY <1>1 DEF RowsKept, SubsKept

LEMMA AskReported ==
  ASSUME ReportInv, AskReport
  PROVE  ReportInv'
  <1>1. PICK r : r = [NoReport EXCEPT !.pc = 1, !.from = From(Period[1]), !.to = To(Period[2]),
                                      !.at = now]
    OBVIOUS
  <1>2. /\ r.pc = 1 /\ r.invoices = {} /\ r.previous = {} /\ r.customers = {}
        /\ r.subscriptions = {}
    BY <1>1 DEF NoReport
  <1>3. report' = r
    BY <1>1 DEF AskReport
  <1> QED
    BY <1>2, <1>3
       DEF ReportInv, InvoicesKept, CustomersKept, SubscriptionsKept

\* The numbered invoices of a period are as they are in the table.
LEMMA CreatedKept ==
  ASSUME NEW from, NEW to, NEW r \in Created(invoices, from, to)
  PROVE  InvoiceKept(r) /\ from <= r.row.created /\ r.row.created <= to
  <1>1. PICK n \in DOMAIN invoices : r = [n |-> n, row |-> invoices[n]]
    BY DEF Created, Numbered
  <1>2. In(r.row.created, from, to)
    BY DEF Created
  <1> QED
    BY <1>1, <1>2 DEF InvoiceKept, In

\* The customers with a subscription, and their subscriptions.
LEMMA SubscriptionsRead ==
  /\ \A c : c \in {s.n : s \in Subscriptions} <=> c \in Buyers /\ Has(subs[c])
  /\ \A s \in Subscriptions : s.n \in Buyers /\ s.row = subs[s.n]
  <1>1. ASSUME NEW s \in Subscriptions
        PROVE  s.n \in Buyers /\ Has(subs[s.n]) /\ s.row = subs[s.n]
    BY DEF Subscriptions
  <1>2. ASSUME NEW c \in Buyers, Has(subs[c]) PROVE \E s \in Subscriptions : s.n = c
    <2>1. [n |-> c, row |-> subs[c]] \in Subscriptions
      BY <1>2 DEF Subscriptions
    <2> QED
      BY <2>1
  <1> QED
    BY <1>1, <1>2

LEMMA ReadReported ==
  ASSUME DashboardInv, ReportInv, Read
  PROVE  ReportInv'
  <1>1. PICK table : table = Reads[report.pc]
    OBVIOUS
  <1>2. /\ report.pc \in 1 .. 5 /\ report'.pc = report.pc + 1
        /\ report'[table] = Answer(table, report)
        /\ \A f \in Columns \ {"pc", table} : report'[f] = report[f]
        /\ table \in Columns \ {"pc", "from", "to", "at"}
    BY <1>1, ReadColumn, ReadsTables
  <1>3. invoices' = invoices /\ subs' = subs
    BY DEF Read, tables
  <1>4. report'.from = report.from /\ report.from \in Int
    BY <1>2 DEF Columns, DashboardInv, ReportMade
  <1>5. ASSUME NEW r PROVE InvoiceKept(r)' <=> InvoiceKept(r)
    BY <1>3 DEF InvoiceKept
  <1>6. /\ table = "invoices" <=> report.pc = 1
        /\ table = "previous" <=> report.pc = 2
        /\ table = "customers" <=> report.pc = 3
        /\ table = "subscriptions" <=> report.pc = 4
    <2>1. report.pc \in {1, 2, 3, 4, 5}
      BY <1>2
    <2> QED
      BY <1>1, <2>1, ReadsTables
  <1>7. InvoicesKept'
    <2>1. ASSUME NEW r \in report'.invoices
          PROVE  InvoiceKept(r) /\ report.from <= r.row.created
      <3>1. CASE table = "invoices"
        <4>1. r \in Created(invoices, report.from, report.to)
          BY <1>2, <3>1 DEF Answer
        <4> QED
          BY <4>1, CreatedKept
      <3>2. CASE table # "invoices"
        BY <1>2, <3>2 DEF Columns, ReportInv, InvoicesKept
      <3> QED
        BY <3>1, <3>2
    <2>2. ASSUME NEW r \in report'.previous
          PROVE  InvoiceKept(r) /\ r.row.created <= report.from - 1
      <3>1. CASE table = "previous"
        <4>1. r \in Created(invoices, PreviousFrom(report), PreviousTo(report))
          BY <1>2, <3>1 DEF Answer
        <4>2. InvoiceKept(r) /\ r.row.created <= PreviousTo(report)
          BY <4>1, CreatedKept
        <4> QED
          BY <4>2 DEF PreviousTo
      <3>2. CASE table # "previous"
        BY <1>2, <3>2 DEF Columns, ReportInv, InvoicesKept
      <3> QED
        BY <3>1, <3>2
    <2> QED
      BY <1>4, <1>5, <2>1, <2>2 DEF InvoicesKept
  <1>8. CustomersKept'
    <2>1. ASSUME NEW c \in report'.customers PROVE c \in Buyers /\ Has(subs[c])
      <3>1. CASE table = "customers"
        <4>1. c \in {s.n : s \in Subscriptions}
          BY <1>2, <3>1 DEF Answer
        <4> QED
          BY <4>1, SubscriptionsRead
      <3>2. CASE table # "customers"
        BY <1>2, <3>2 DEF Columns, ReportInv, CustomersKept
      <3> QED
        BY <3>1, <3>2
    <2>2. ASSUME NEW r, InvoiceKept(r), table = "customers" PROVE r.row.buyer \in report'.customers
      <3>1. report'.customers = {s.n : s \in Subscriptions}
        BY <1>2, <2>2 DEF Answer
      <3>2. r.n \in DOMAIN invoices /\ r.row.buyer = invoices[r.n].buyer
        BY <2>2 DEF InvoiceKept
      <3>3. r.row.buyer \in Buyers /\ Has(subs[r.row.buyer])
        BY <3>2, StoredRows
      <3> QED
        BY <3>1, <3>3, SubscriptionsRead
    <2>3. ASSUME report'.pc >= 4
          PROVE  /\ \A r \in report'.invoices : r.row.buyer \in report'.customers
                 /\ \A r \in report'.previous : r.row.buyer \in report'.customers
      <3>1. CASE table = "customers"
        <4>1. report'.invoices = report.invoices /\ report'.previous = report.previous
          BY <1>2, <3>1 DEF Columns
        <4> QED
          BY <2>2, <3>1, <4>1 DEF ReportInv, InvoicesKept
      <3>2. CASE table # "customers"
        <4>1. report.pc >= 4
          BY <1>2, <1>6, <2>3, <3>2
        <4>2. /\ report'.invoices = report.invoices /\ report'.previous = report.previous
              /\ report'.customers = report.customers
          BY <1>2, <1>6, <3>2, <4>1 DEF Columns
        <4> QED
          BY <4>1, <4>2 DEF ReportInv, CustomersKept, Known
      <3> QED
        BY <3>1, <3>2
    <2> QED
      BY <1>3, <2>1, <2>3 DEF CustomersKept, Known
  <1>9. SubscriptionsKept'
    <2>1. CASE table = "subscriptions"
      <3>1. report'.subscriptions = Subscriptions /\ report'.customers = report.customers
        BY <1>2, <2>1 DEF Answer, Columns
      <3>2. \A c \in report.customers : \E s \in Subscriptions : s.n = c
        BY SubscriptionsRead DEF ReportInv, CustomersKept
      <3>3. \A s \in Subscriptions : s.row.status = "canceled" => s.row.canceled # NoTime
        BY SubscriptionsRead DEF DashboardInv, Stored, Linked
      <3> QED
        BY <3>1, <3>2, <3>3 DEF SubscriptionsKept
    <2>2. CASE table # "subscriptions"
      <3>1. report'.subscriptions = report.subscriptions
        BY <1>2, <2>2 DEF Columns
      <3>2. report'.pc >= 5 => report.pc >= 5
        BY <1>2, <1>6, <2>2
      <3>3. report.pc >= 5 => report'.customers = report.customers
        BY <1>2, <1>6 DEF Columns
      <3> QED
        BY <3>1, <3>2, <3>3 DEF ReportInv, SubscriptionsKept
    <2> QED
      BY <2>1, <2>2
  <1> QED
    BY <1>7, <1>8, <1>9 DEF ReportInv

LEMMA ReportInitInv == DashboardInit => ReportInv
  <1> SUFFICES ASSUME DashboardInit PROVE ReportInv
    OBVIOUS
  <1>1. /\ NoReport.pc = 0 /\ NoReport.invoices = {} /\ NoReport.previous = {}
        /\ NoReport.customers = {} /\ NoReport.subscriptions = {}
    BY DEF NoReport
  <1> QED
    BY <1>1 DEF DashboardInit, ReportInv, InvoicesKept, CustomersKept, SubscriptionsKept

LEMMA ReportStepInv == DashboardInv /\ ReportInv /\ [DashboardStep]_dashboardVars => ReportInv'
  <1> SUFFICES ASSUME DashboardInv, ReportInv, [DashboardStep]_dashboardVars PROVE ReportInv'
    OBVIOUS
  <1>1. CASE UNCHANGED dashboardVars
    BY <1>1, SameTables, StaysTrue DEF dashboardVars
  <1>2. CASE Pass
    BY <1>2, SameTables, StaysTrue DEF Pass
  <1>3. CASE TablesChange
    BY <1>3, TablesReport
  <1>4. CASE AskReport
    BY <1>4, AskReported
  <1>5. CASE Read
    BY <1>5, ReadReported
  <1> QED
    BY <1>1, <1>2, <1>3, <1>4, <1>5 DEF DashboardStep
-----------------------------------------------------------------------------
(* The surfaces together.                                                  *)

EdgesInv ==
    /\ surface \in Surfaces /\ DashboardInv /\ ReportInv
    /\ ListingInv /\ LimiterInv /\ ClientInv

LEMMA EdgesInit == Init => EdgesInv
  BY DashboardInitInv, ReportInitInv, ListingInitInv, LimiterInitInv, ClientInitInv DEF Init, EdgesInv

LEMMA EdgesStep == EdgesInv /\ [Next]_vars => EdgesInv'
  <1> SUFFICES ASSUME EdgesInv, [Next]_vars PROVE EdgesInv'
    OBVIOUS
  <1>1. [LimiterStep]_limiterVars
    BY DEF Next, Reporting, Walking, Limiting, Calling, vars
  <1>2. [ClientStep]_clientVars
    BY DEF Next, Reporting, Walking, Limiting, Calling, vars
  <1>3. [ListingStep]_listingVars
    BY DEF Next, Reporting, Walking, Limiting, Calling, vars
  <1>4. [DashboardStep]_dashboardVars
    BY DEF Next, Reporting, Walking, Limiting, Calling, vars
  <1>5. surface' = surface
    BY DEF Next, Reporting, Walking, Limiting, Calling, vars
  <1> QED
    BY <1>1, <1>2, <1>3, <1>4, <1>5, DashboardStepInv, ReportStepInv, ListingStepInv,
       LimiterStepInv, ClientStepInv DEF EdgesInv

LEMMA EdgesInductive == Spec => []EdgesInv
  BY EdgesInit, EdgesStep, PTL DEF Spec

\* Every row of the tables, the report, a walk, the buckets and the token keep
\* their types: the statuses are the code's, a payment belongs to an invoice
\* that exists, a bucket never holds more than a full one, and the client never
\* takes its token to live longer than the provider does.
THEOREM EdgesTypeCorrect == Spec => []TypeOK
  <1>1. ASSUME EdgesInv PROVE TypeOK
    <2>1. LimiterTypeOK /\ ClientTypeOK
      BY <1>1 DEF EdgesInv, LimiterInv, ClientInv
    <2>2. WalkTypes /\ walk \in Walk
      BY <1>1 DEF EdgesInv, ListingInv, WalkTypes
    <2>3. ListingTypeOK
      BY <2>2 DEF ListingTypeOK, WalkTypes, Walk
    <2>4. DashboardInv
      BY <1>1 DEF EdgesInv
    <2>5. \A b \in Buyers : subs[b].status \in SubStatuses
      BY <2>4 DEF DashboardInv, Stored, SubRows
    <2>6. \A i \in DOMAIN invoices : invoices[i].status \in InvoiceStatuses
      <3>1. invoices \in Seq(InvoiceRows)
        BY <2>4 DEF DashboardInv, Stored
      <3>2. \A i \in DOMAIN invoices : invoices[i] \in InvoiceRows
        BY <3>1, LenProperties
      <3> QED
        BY <3>2 DEF InvoiceRows
    <2>7. DashboardTypeOK
      BY <2>4, <2>5, <2>6
         DEF DashboardTypeOK, DashboardInv, Stored, Linked, Belongs, ReportMade, SubStatuses,
             InvoiceStatuses
    <2> QED
      BY <1>1, <2>1, <2>3, <2>7 DEF EdgesInv, TypeOK
  <1> QED
    BY <1>1, EdgesInductive, PTL

LEMMA ReadsMatchHolds == ASSUME EdgesInv, Ready PROVE ReadsMatch(report)
  <1>1. report.pc = 6
    BY ReadsTables DEF Ready
  <1>2. InvoicesKept /\ CustomersKept /\ SubscriptionsKept /\ ReportMade
    BY DEF EdgesInv, ReportInv, DashboardInv
  <1>3. {i.row.buyer : i \in report.invoices \cup report.previous} \subseteq report.customers
    BY <1>1, <1>2 DEF CustomersKept, Known
  <1>4. report.customers \subseteq {s.n : s \in report.subscriptions}
    BY <1>1, <1>2 DEF SubscriptionsKept
  <1>5. AtRisk(report) = Troubled(report)
    <2>1. Troubled(report) \subseteq report.invoices
      BY DEF Troubled, With
    <2>2. \A i \in report.invoices : \E s \in report.subscriptions : s.n = i.row.buyer
      BY <1>3, <1>4
    <2> QED
      BY <2>1, <2>2 DEF AtRisk
  <1>6. {i.n : i \in report.invoices} \cap {i.n : i \in report.previous} = {}
    <2>1. SUFFICES ASSUME NEW i \in report.invoices, NEW j \in report.previous, i.n = j.n
                   PROVE  FALSE
      OBVIOUS
    <2>2. i.row.created = j.row.created /\ i.n \in DOMAIN invoices
          /\ i.row.created = invoices[i.n].created
      BY <1>2, <2>1 DEF InvoicesKept, InvoiceKept
    <2>3. i.row.created \in Int
      BY <2>2, StoredRows DEF EdgesInv, InvoiceRows
    <2>4. report.from <= i.row.created /\ i.row.created <= report.from - 1 /\ report.from \in Int
      BY <1>2, <2>2 DEF InvoicesKept, ReportMade
    <2> QED
      BY <2>3, <2>4
  <1> QED
    BY <1>2, <1>3, <1>4, <1>5, <1>6 DEF ReadsMatch, SubscriptionsKept

\* However the tables changed between its reads, a report that is made has the
\* customers of its invoices and their subscriptions, so nobody at risk is left
\* out, has no invoice in both periods, and a time of cancellation for all that is
\* canceled (dashboard_analytics.go reads one table after the other, while
\* handlers store whole rows they read before).
THEOREM ReadsMatchCorrect == Spec => [](Ready => ReadsMatch(report))
  <1>1. EdgesInv => (Ready => ReadsMatch(report))
    BY ReadsMatchHolds
  <1> QED
    BY <1>1, EdgesInductive, PTL

\* A client that walks through a list to its end misses a row that matched all
\* the time only because a row left the filter before it or one arrived between
\* the count of the rows and the page (repository.go:259), and is shown a row
\* twice only because one arrived meanwhile, new or not and wherever it stands;
\* whatever the size of a page.
THEOREM PagesCompleteCorrect == Spec => []PagesComplete
  <1>1. EdgesInv => PagesComplete
    BY DEF EdgesInv, ListingInv
  <1> QED
    BY <1>1, EdgesInductive, PTL

\* From whatever moment one counts, a key is let through at most for a full
\* bucket, what flows in, and a full bucket more for each restart; forgetting
\* idle buckets (ratelimit.go:72) gives nothing away.
THEOREM RequestsBoundedCorrect == Spec => []RequestsBounded
  <1>1. EdgesInv => RequestsBounded
    <2> SUFFICES ASSUME EdgesInv, NEW k \in Keys
                 PROVE  allowed[k] * Window <= Full + restarts * Full + (clock - mark) * Burst
      BY DEF RequestsBounded
    <2>1. KeyInv(k) /\ LimiterTypeOK
      BY DEF EdgesInv, LimiterInv
    <2> QED
      BY <2>1, TermsNat, FullNat DEF KeyInv, Supply
  <1> QED
    BY <1>1, EdgesInductive, PTL

\* A call that is refused twice had its refreshed token revoked under it, or
\* was sent after the margin (auth.go:120, client.go:68).
THEOREM TokenUsableCorrect == Spec => []TokenUsable
  <1>1. EdgesInv => TokenUsable
    BY DEF EdgesInv, ClientInv, CallInv, TokenUsable
  <1> QED
    BY <1>1, EdgesInductive, PTL
-----------------------------------------------------------------------------
(* Sums.  A fold over a finite set of rows is the sum of a function: it is *)
(* well defined, and does not depend on the order of the rows.             *)

LEMMA Smallest == ASSUME NEW N \in SUBSET Nat, N # {} PROVE \E n \in N : \A m \in N : n <= m
  <1> DEFINE Less == OpToRel(<, Nat)
  <1>1. IsWellFoundedOn(Less, Nat)
    BY NatLessThanWellFounded
  <1>2. \A x, y \in Nat : x < y => <<x, y>> \in Less
    BY DEF OpToRel
  <1> HIDE DEF Less
  <1>3. PICK x \in N : \A y \in N : ~(<<y, x>> \in Less)
    BY <1>1, WFMin
  <1>4. \A y \in N : ~(y < x)
    BY <1>2, <1>3
  <1> QED
    BY <1>4

\* Induction over the subsets of a finite set: if some are bad, one is bad
\* whose own subsets are not.
LEMMA LeastSubset ==
  ASSUME NEW S, IsFiniteSet(S), NEW Bad \in SUBSET (SUBSET S), Bad # {}
  PROVE  \E T \in Bad : \A U \in SUBSET T : U # T => U \notin Bad
  <1> DEFINE N == {Cardinality(T) : T \in Bad}
  <1>1. \A T \in Bad : IsFiniteSet(T) /\ Cardinality(T) \in Nat
    BY FS_Subset, FS_CardinalityType
  <1>2. N \in SUBSET Nat /\ N # {}
    BY <1>1
  <1>3. PICK n \in N : \A m \in N : n <= m
    BY <1>2, Smallest
  <1>4. PICK T \in Bad : Cardinality(T) = n
    OBVIOUS
  <1>5. ASSUME NEW U \in SUBSET T, U # T, U \in Bad PROVE FALSE
    <2>1. Cardinality(U) <= Cardinality(T) /\ Cardinality(U) # Cardinality(T)
      BY <1>1, <1>5, FS_Subset
    <2>2. Cardinality(T) <= Cardinality(U)
      BY <1>3, <1>4, <1>5
    <2>3. Cardinality(T) \in Nat /\ Cardinality(U) \in Nat
      BY <1>1, <1>5
    <2> QED
      BY <2>1, <2>2, <2>3
  <1> QED
    BY <1>4, <1>5

Pick(s) == CHOOSE x \in s : TRUE

\* h has for each subset of S the sum of f over it.
Summing(h, f, S) ==
    h = [s \in SUBSET S |-> IF s = {} THEN 0 ELSE f[Pick(s)] + h[s \ {Pick(s)}]]

Sum(f, S) == (CHOOSE h : Summing(h, f, S))[S]

LEMMA Picked == ASSUME NEW s, s # {} PROVE Pick(s) \in s
  BY DEF Pick

LEMMA SummingStep ==
  ASSUME NEW S, NEW f, NEW h, Summing(h, f, S), NEW s \in SUBSET S
  PROVE  /\ s = {} => h[s] = 0
         /\ s # {} => h[s] = f[Pick(s)] + h[s \ {Pick(s)}]
  <1>1. h[s] = IF s = {} THEN 0 ELSE f[Pick(s)] + h[s \ {Pick(s)}]
    BY DEF Summing
  <1> QED
    BY <1>1

LEMMA SummingUnique ==
  ASSUME NEW S, IsFiniteSet(S), NEW f, NEW g, NEW h, Summing(g, f, S), Summing(h, f, S)
  PROVE  g = h
  <1> DEFINE Bad == {s \in SUBSET S : g[s] # h[s]}
  <1>1. SUFFICES ASSUME Bad # {} PROVE FALSE
    <2>1. ASSUME Bad = {} PROVE g = h
      <3>1. \A s \in SUBSET S : g[s] = h[s]
        BY <2>1
      <3>2. g = [s \in SUBSET S |-> g[s]] /\ h = [s \in SUBSET S |-> h[s]]
        BY DEF Summing
      <3> QED
        BY <3>1, <3>2
    <2> QED
      BY <2>1
  <1>2. PICK T \in Bad : \A U \in SUBSET T : U # T => U \notin Bad
    <2>1. Bad \in SUBSET (SUBSET S) /\ Bad # {}
      BY <1>1
    <2> HIDE DEF Bad
    <2> QED
      BY <2>1, LeastSubset
  <1>3. T \in SUBSET S /\ g[T] # h[T]
    OBVIOUS
  <1>4. T # {}
    BY <1>3, SummingStep
  <1>5. PICK x \in T : x = Pick(T)
    BY <1>4, Picked
  <1>6. T \ {x} \in SUBSET T /\ T \ {x} # T
    OBVIOUS
  <1>7. g[T \ {x}] = h[T \ {x}]
    BY <1>2, <1>3, <1>6
  <1>8. g[T] = f[x] + g[T \ {x}] /\ h[T] = f[x] + h[T \ {x}]
    BY <1>3, <1>4, <1>5, SummingStep
  <1> QED
    BY <1>3, <1>7, <1>8

\* What sums over S sums over its subsets.
LEMMA SummingPart ==
  ASSUME NEW S, NEW f, NEW h, Summing(h, f, S), NEW T \in SUBSET S
  PROVE  Summing([s \in SUBSET T |-> h[s]], f, T)
  <1> DEFINE k == [s \in SUBSET T |-> h[s]]
  <1>1. ASSUME NEW s \in SUBSET T
        PROVE  k[s] = IF s = {} THEN 0 ELSE f[Pick(s)] + k[s \ {Pick(s)}]
    <2>1. s \in SUBSET S /\ s \ {Pick(s)} \in SUBSET T
      OBVIOUS
    <2>2. k[s] = h[s] /\ k[s \ {Pick(s)}] = h[s \ {Pick(s)}]
      BY <2>1
    <2>3. /\ s = {} => h[s] = 0
          /\ s # {} => h[s] = f[Pick(s)] + h[s \ {Pick(s)}]
      BY <2>1, SummingStep
    <2> HIDE DEF k
    <2> QED
      BY <2>2, <2>3
  <1>2. k = [s \in SUBSET T |-> k[s]]
    OBVIOUS
  <1> HIDE DEF k
  <1>3. Summing(k, f, T)
    BY <1>1, <1>2 DEF Summing
  <1> QED
    BY <1>3 DEF k

LEMMA SummingExists ==
  ASSUME NEW S, IsFiniteSet(S), NEW f
  PROVE  \E h : Summing(h, f, S)
  <1> DEFINE Bad == {T \in SUBSET S : ~\E h : Summing(h, f, T)}
  <1>1. SUFFICES ASSUME Bad # {} PROVE FALSE
    OBVIOUS
  <1>2. PICK T \in Bad : \A U \in SUBSET T : U # T => U \notin Bad
    <2>1. Bad \in SUBSET (SUBSET S) /\ Bad # {}
      BY <1>1
    <2> HIDE DEF Bad
    <2> QED
      BY <2>1, LeastSubset
  <1>3. T \in SUBSET S /\ ~\E h : Summing(h, f, T)
    OBVIOUS
  <1>4. \A U \in SUBSET T : U # T => \E h : Summing(h, f, U)
    BY <1>2, <1>3
  <1> DEFINE part == [U \in (SUBSET T) \ {T} |-> CHOOSE h : Summing(h, f, U)]
             below == [s \in SUBSET T |-> IF s = T THEN 0 ELSE part[s][s]]
             whole == [s \in SUBSET T |-> IF s = T /\ T # {} THEN f[Pick(T)] + below[T \ {Pick(T)}]
                                          ELSE below[s]]
  <1>5. \A U \in SUBSET T : U # T => Summing(part[U], f, U)
    BY <1>4
  <1>6. ASSUME NEW U \in SUBSET T, U # T, NEW s \in SUBSET U PROVE part[U][s] = below[s]
    <2>1. s \in SUBSET T /\ s # T
      BY <1>6
    <2>2. Summing([r \in SUBSET s |-> part[U][r]], f, s)
      BY <1>5, <1>6, SummingPart
    <2>3. Summing(part[s], f, s)
      BY <1>5, <2>1
    <2>4. IsFiniteSet(s)
      BY <1>3, <2>1, FS_Subset
    <2>5. part[s] = [r \in SUBSET s |-> part[U][r]]
      BY <2>2, <2>3, <2>4, SummingUnique
    <2>6. below[s] = part[s][s]
      BY <2>1
    <2> HIDE DEF part, below
    <2> QED
      BY <2>5, <2>6
  <1>7. ASSUME NEW s \in SUBSET T
        PROVE  whole[s] = IF s = {} THEN 0 ELSE f[Pick(s)] + whole[s \ {Pick(s)}]
    <2>1. CASE s = T /\ T # {}
      <3>1. Pick(T) \in T
        BY <2>1, Picked
      <3>2. T \ {Pick(T)} \in SUBSET T /\ T \ {Pick(T)} # T
        BY <3>1
      <3>3. whole[T \ {Pick(T)}] = below[T \ {Pick(T)}]
        BY <3>2
      <3>4. whole[T] = f[Pick(T)] + below[T \ {Pick(T)}]
        BY <2>1
      <3> HIDE DEF whole, below
      <3> QED
        BY <2>1, <3>3, <3>4
    <2>2. CASE s = T /\ T = {}
      BY <2>2
    <2>3. CASE s # T
      <3>1. Summing(part[s], f, s) /\ whole[s] = part[s][s]
        BY <1>5, <2>3
      <3>2. s = {} => part[s][s] = 0
        BY <3>1, SummingStep
      <3>3. ASSUME s # {} PROVE part[s][s] = f[Pick(s)] + below[s \ {Pick(s)}]
        <4>1. part[s][s] = f[Pick(s)] + part[s][s \ {Pick(s)}]
          <5>1. s \in SUBSET s
            OBVIOUS
          <5> HIDE DEF part
          <5> QED
            BY <3>1, <3>3, <5>1, SummingStep
        <4>2. s \ {Pick(s)} \in SUBSET s
          OBVIOUS
        <4>3. part[s][s \ {Pick(s)}] = below[s \ {Pick(s)}]
          BY <1>6, <2>3, <4>2
        <4> HIDE DEF part, below
        <4> QED
          BY <4>1, <4>3
      <3>4. whole[s \ {Pick(s)}] = below[s \ {Pick(s)}]
        <4>1. s \ {Pick(s)} \in SUBSET T /\ s \ {Pick(s)} # T
          BY <2>3
        <4> HIDE DEF below
        <4> QED
          BY <4>1
      <3> HIDE DEF part, below, whole
      <3> QED
        BY <3>1, <3>2, <3>3, <3>4
    <2> QED
      BY <2>1, <2>2, <2>3
  <1>8. Summing(whole, f, T)
    <2>1. whole = [s \in SUBSET T |-> whole[s]]
      OBVIOUS
    <2> HIDE DEF whole
    <2> QED
      BY <1>7, <2>1 DEF Summing
  <1> QED
    BY <1>3, <1>8

LEMMA SummingSum ==
  ASSUME NEW S, IsFiniteSet(S), NEW f, NEW h, Summing(h, f, S)
  PROVE  \A T \in SUBSET S : Sum(f, T) = h[T]
  <1> SUFFICES ASSUME NEW T \in SUBSET S PROVE Sum(f, T) = h[T]
    OBVIOUS
  <1>1. IsFiniteSet(T)
    BY FS_Subset
  <1>2. PICK k : k = CHOOSE g : Summing(g, f, T)
    OBVIOUS
  <1>3. Summing(k, f, T)
    BY <1>1, <1>2, SummingExists
  <1>4. k = [s \in SUBSET T |-> h[s]]
    <2>1. Summing([s \in SUBSET T |-> h[s]], f, T)
      BY SummingPart
    <2> QED
      BY <1>1, <1>3, <2>1, SummingUnique
  <1> QED
    BY <1>2, <1>4 DEF Sum

-----------------------------------------------------------------------------
LEMMA SumEmpty == ASSUME NEW f PROVE Sum(f, {}) = 0
  <1>1. IsFiniteSet({})
    BY FS_EmptySet
  <1>2. PICK h : Summing(h, f, {})
    BY <1>1, SummingExists
  <1>3. Sum(f, {}) = h[{}]
    BY <1>1, <1>2, SummingSum
  <1> QED
    BY <1>2, <1>3, SummingStep

LEMMA SumPick ==
  ASSUME NEW S, IsFiniteSet(S), S # {}, NEW f
  PROVE  Pick(S) \in S /\ Sum(f, S) = f[Pick(S)] + Sum(f, S \ {Pick(S)})
  <1>1. PICK h : Summing(h, f, S)
    BY SummingExists
  <1>2. Pick(S) \in S
    BY Picked
  <1>3. S \in SUBSET S /\ S \ {Pick(S)} \in SUBSET S
    OBVIOUS
  <1>4. Sum(f, S) = h[S] /\ Sum(f, S \ {Pick(S)}) = h[S \ {Pick(S)}]
    BY <1>1, <1>3, SummingSum
  <1>5. h[S] = f[Pick(S)] + h[S \ {Pick(S)}]
    BY <1>1, <1>3, SummingStep
  <1> QED
    BY <1>2, <1>4, <1>5

LEMMA SumInt ==
  ASSUME NEW S, IsFiniteSet(S), NEW f, \A x \in S : f[x] \in Int
  PROVE  Sum(f, S) \in Int
  <1> DEFINE Bad == {T \in SUBSET S : Sum(f, T) \notin Int}
  <1>1. SUFFICES ASSUME Bad # {} PROVE FALSE
    OBVIOUS
  <1>2. PICK T \in Bad : \A U \in SUBSET T : U # T => U \notin Bad
    <2>1. Bad \in SUBSET (SUBSET S) /\ Bad # {}
      BY <1>1
    <2> HIDE DEF Bad
    <2> QED
      BY <2>1, LeastSubset
  <1>3. T \in SUBSET S /\ Sum(f, T) \notin Int /\ IsFiniteSet(T)
    BY FS_Subset
  <1>4. T # {}
    BY <1>3, SumEmpty
  <1>5. PICK x \in T : Sum(f, T) = f[x] + Sum(f, T \ {x})
    BY <1>3, <1>4, SumPick
  <1>6. Sum(f, T \ {x}) \in Int
    <2>1. T \ {x} \in SUBSET T /\ T \ {x} # T /\ T \ {x} \in SUBSET S
      BY <1>3
    <2> QED
      BY <1>2, <2>1
  <1> QED
    BY <1>3, <1>5, <1>6

\* Whichever element is taken out, the sum is the element and the rest.
LEMMA SumRemove ==
  ASSUME NEW S, IsFiniteSet(S), NEW f, \A x \in S : f[x] \in Int, NEW y \in S
  PROVE  Sum(f, S) = f[y] + Sum(f, S \ {y})
  <1> DEFINE Bad == {T \in SUBSET S : \E x \in T : Sum(f, T) # f[x] + Sum(f, T \ {x})}
  <1>1. SUFFICES ASSUME Bad # {} PROVE FALSE
    OBVIOUS
  <1>2. PICK T \in Bad : \A U \in SUBSET T : U # T => U \notin Bad
    <2>1. Bad \in SUBSET (SUBSET S) /\ Bad # {}
      BY <1>1
    <2> HIDE DEF Bad
    <2> QED
      BY <2>1, LeastSubset
  <1>3. T \in SUBSET S /\ IsFiniteSet(T)
    BY FS_Subset
  <1>4. PICK x \in T : Sum(f, T) # f[x] + Sum(f, T \ {x})
    OBVIOUS
  <1>5. ASSUME NEW U \in SUBSET T, U # T, NEW z \in U PROVE Sum(f, U) = f[z] + Sum(f, U \ {z})
    BY <1>2, <1>3, <1>5
  <1> HIDE DEF Bad
  <1>6. PICK p \in T : p = Pick(T) /\ Sum(f, T) = f[p] + Sum(f, T \ {p})
    BY <1>3, <1>4, SumPick
  <1>7. x # p
    BY <1>4, <1>6
  <1>8. PICK rest : rest = (T \ {p}) \ {x}
    OBVIOUS
  <1>9. rest = (T \ {x}) \ {p}
    BY <1>8
  <1>10. Sum(f, T \ {p}) = f[x] + Sum(f, rest)
    <2>1. T \ {p} \in SUBSET T /\ T \ {p} # T /\ x \in T \ {p}
      BY <1>6, <1>7
    <2> QED
      BY <1>5, <1>8, <2>1
  <1>11. Sum(f, T \ {x}) = f[p] + Sum(f, rest)
    <2>1. T \ {x} \in SUBSET T /\ T \ {x} # T /\ p \in T \ {x}
      BY <1>6, <1>7
    <2> QED
      BY <1>5, <1>9, <2>1
  <1>12. f[x] \in Int /\ f[p] \in Int /\ Sum(f, rest) \in Int
    <2>1. rest \in SUBSET S
      BY <1>3, <1>8
    <2>2. IsFiniteSet(rest) /\ \A z \in rest : f[z] \in Int
      BY <2>1, FS_Subset
    <2> QED
      BY <1>3, <1>6, <2>2, SumInt
  <1> QED
    BY <1>4, <1>6, <1>10, <1>11, <1>12

\* Functions that agree on a set have the same sum over it.
LEMMA SumSame ==
  ASSUME NEW S, IsFiniteSet(S), NEW f, NEW g, \A x \in S : f[x] = g[x]
  PROVE  Sum(f, S) = Sum(g, S)
  <1> DEFINE Bad == {T \in SUBSET S : Sum(f, T) # Sum(g, T)}
  <1>1. SUFFICES ASSUME Bad # {} PROVE FALSE
    OBVIOUS
  <1>2. PICK T \in Bad : \A U \in SUBSET T : U # T => U \notin Bad
    <2>1. Bad \in SUBSET (SUBSET S) /\ Bad # {}
      BY <1>1
    <2> HIDE DEF Bad
    <2> QED
      BY <2>1, LeastSubset
  <1>3. T \in SUBSET S /\ Sum(f, T) # Sum(g, T) /\ IsFiniteSet(T)
    BY FS_Subset
  <1>4. T # {}
    BY <1>3, SumEmpty
  <1>5. PICK x \in T : x = Pick(T)
    BY <1>4, Picked
  <1>6. Sum(f, T) = f[x] + Sum(f, T \ {x}) /\ Sum(g, T) = g[x] + Sum(g, T \ {x})
    BY <1>3, <1>4, <1>5, SumPick
  <1>7. Sum(f, T \ {x}) = Sum(g, T \ {x})
    <2>1. T \ {x} \in SUBSET T /\ T \ {x} # T /\ T \ {x} \in SUBSET S
      BY <1>3
    <2> QED
      BY <1>2, <2>1
  <1> QED
    BY <1>3, <1>6, <1>7

\* A multiple of one sum is near a multiple of another as far as the terms are.
LEMMA SumNear ==
  ASSUME NEW S, IsFiniteSet(S), NEW f, NEW g, \A x \in S : f[x] \in Int /\ g[x] \in Int,
         NEW a \in Int, NEW b \in Int, NEW low \in Int, NEW high \in Int,
         \A x \in S : low <= a * f[x] - b * g[x] /\ a * f[x] - b * g[x] <= high
  PROVE  /\ low * Cardinality(S) <= a * Sum(f, S) - b * Sum(g, S)
         /\ a * Sum(f, S) - b * Sum(g, S) <= high * Cardinality(S)
  <1> DEFINE Ok(T) == /\ low * Cardinality(T) <= a * Sum(f, T) - b * Sum(g, T)
                      /\ a * Sum(f, T) - b * Sum(g, T) <= high * Cardinality(T)
             Bad == {T \in SUBSET S : ~Ok(T)}
  <1>1. SUFFICES ASSUME Bad # {} PROVE FALSE
    OBVIOUS
  <1>2. PICK T \in Bad : \A U \in SUBSET T : U # T => U \notin Bad
    <2>1. Bad \in SUBSET (SUBSET S) /\ Bad # {}
      BY <1>1
    <2> HIDE DEF Bad
    <2> QED
      BY <2>1, LeastSubset
  <1>3. T \in SUBSET S /\ ~Ok(T) /\ IsFiniteSet(T)
    BY FS_Subset
  <1>4. ASSUME NEW U \in SUBSET T, U # T PROVE Ok(U)
    BY <1>2, <1>3, <1>4
  <1> HIDE DEF Bad
  <1>5. T # {}
    <2>1. Sum(f, {}) = 0 /\ Sum(g, {}) = 0 /\ Cardinality({}) = 0
      BY SumEmpty, FS_EmptySet
    <2>2. Ok({})
      BY <2>1
    <2> HIDE DEF Ok
    <2> QED
      BY <1>3, <2>2
  <1>6. PICK x \in T : TRUE
    BY <1>5
  <1>7. PICK U : U = T \ {x}
    OBVIOUS
  <1>8. U \in SUBSET T /\ U # T /\ U \in SUBSET S /\ IsFiniteSet(U)
    BY <1>3, <1>7, FS_Subset
  <1>9. Sum(f, T) = f[x] + Sum(f, U) /\ Sum(g, T) = g[x] + Sum(g, U)
    BY <1>3, <1>6, <1>7, SumRemove
  <1>10. Cardinality(T) = Cardinality(U) + 1 /\ Cardinality(U) \in Nat
    BY <1>3, <1>6, <1>7, <1>8, FS_RemoveElement, FS_CardinalityType
  <1>11. Sum(f, U) \in Int /\ Sum(g, U) \in Int
    BY <1>8, SumInt
  <1>12. Ok(U)
    BY <1>4, <1>8
  <1>13. PICK fx \in Int : fx = f[x]
    BY <1>3, <1>6
  <1>18. PICK gx \in Int : gx = g[x]
    BY <1>3, <1>6
  <1>19. PICK c \in Int : c = Cardinality(U)
    BY <1>10
  <1>20. PICK F, G \in Int : F = Sum(f, U) /\ G = Sum(g, U)
    BY <1>11
  <1>14. /\ low <= a * fx - b * gx /\ a * fx - b * gx <= high
         /\ low * c <= a * F - b * G /\ a * F - b * G <= high * c
    BY <1>3, <1>6, <1>12, <1>13, <1>18, <1>19, <1>20
  <1>15. /\ low * (c + 1) = low * c + low /\ high * (c + 1) = high * c + high
         /\ a * (fx + F) = a * fx + a * F /\ b * (gx + G) = b * gx + b * G
    OBVIOUS
  <1>16. low * (c + 1) <= a * (fx + F) - b * (gx + G)
         /\ a * (fx + F) - b * (gx + G) <= high * (c + 1)
    <2>1. PICK p, q, r, s, t, u \in Int : /\ p = a * fx /\ q = b * gx /\ r = a * F /\ s = b * G
                                          /\ t = low * c /\ u = high * c
      OBVIOUS
    <2> QED
      BY <1>14, <1>15, <2>1
  <1>17. Ok(T)
    BY <1>9, <1>10, <1>13, <1>16, <1>18, <1>19, <1>20
  <1> HIDE DEF Ok
  <1> QED
    BY <1>3, <1>17

LEMMA SumMono ==
  ASSUME NEW S, IsFiniteSet(S), NEW f, NEW g, \A x \in S : f[x] \in Int /\ g[x] \in Int /\ f[x] <= g[x]
  PROVE  Sum(f, S) <= Sum(g, S)
  <1> DEFINE Bad == {T \in SUBSET S : ~(Sum(f, T) <= Sum(g, T))}
  <1>1. SUFFICES ASSUME Bad # {} PROVE FALSE
    OBVIOUS
  <1>2. PICK T \in Bad : \A U \in SUBSET T : U # T => U \notin Bad
    <2>1. Bad \in SUBSET (SUBSET S) /\ Bad # {}
      BY <1>1
    <2> HIDE DEF Bad
    <2> QED
      BY <2>1, LeastSubset
  <1>3. T \in SUBSET S /\ ~(Sum(f, T) <= Sum(g, T)) /\ IsFiniteSet(T)
    BY FS_Subset
  <1>4. T # {}
    BY <1>3, SumEmpty
  <1>5. PICK x \in T : TRUE
    BY <1>4
  <1>6. PICK U : U = T \ {x}
    OBVIOUS
  <1>7. U \in SUBSET T /\ U # T /\ U \in SUBSET S /\ IsFiniteSet(U)
    BY <1>3, <1>6, FS_Subset
  <1>8. Sum(f, T) = f[x] + Sum(f, U) /\ Sum(g, T) = g[x] + Sum(g, U)
    BY <1>3, <1>5, <1>6, SumRemove
  <1>9. Sum(f, U) <= Sum(g, U)
    BY <1>2, <1>7
  <1>10. Sum(f, U) \in Int /\ Sum(g, U) \in Int
    BY <1>7, SumInt
  <1> HIDE DEF Bad
  <1> QED
    BY <1>3, <1>5, <1>8, <1>9, <1>10

LEMMA SumUnion ==
  ASSUME NEW S, IsFiniteSet(S), NEW V, IsFiniteSet(V), S \cap V = {}, NEW f,
         \A x \in S \cup V : f[x] \in Int
  PROVE  Sum(f, S \cup V) = Sum(f, S) + Sum(f, V)
  <1> DEFINE Bad == {T \in SUBSET S : Sum(f, T \cup V) # Sum(f, T) + Sum(f, V)}
  <1>1. SUFFICES ASSUME Bad # {} PROVE FALSE
    OBVIOUS
  <1>2. PICK T \in Bad : \A U \in SUBSET T : U # T => U \notin Bad
    <2>1. Bad \in SUBSET (SUBSET S) /\ Bad # {}
      BY <1>1
    <2> HIDE DEF Bad
    <2> QED
      BY <2>1, LeastSubset
  <1>3. T \in SUBSET S /\ Sum(f, T \cup V) # Sum(f, T) + Sum(f, V) /\ IsFiniteSet(T)
    BY FS_Subset
  <1>4. Sum(f, V) \in Int
    BY SumInt
  <1>5. T # {}
    <2>1. {} \cup V = V /\ Sum(f, {}) = 0
      BY SumEmpty
    <2> QED
      BY <1>3, <1>4, <2>1
  <1>6. PICK x \in T : TRUE
    BY <1>5
  <1>7. PICK U : U = T \ {x}
    OBVIOUS
  <1>8. U \in SUBSET T /\ U # T /\ U \in SUBSET S /\ IsFiniteSet(U)
    BY <1>3, <1>7, FS_Subset
  <1>9. Sum(f, U \cup V) = Sum(f, U) + Sum(f, V)
    BY <1>2, <1>8
  <1> HIDE DEF Bad
  <1>10. Sum(f, T) = f[x] + Sum(f, U)
    BY <1>3, <1>6, <1>7, SumRemove
  <1>11. Sum(f, T \cup V) = f[x] + Sum(f, U \cup V)
    <2>1. (T \cup V) \ {x} = U \cup V /\ x \in T \cup V
      BY <1>3, <1>6, <1>7
    <2>2. IsFiniteSet(T \cup V) /\ \A y \in T \cup V : f[y] \in Int
      BY <1>3, FS_Union
    <2>3. PICK W : W = T \cup V
      OBVIOUS
    <2> QED
      BY <2>1, <2>2, <2>3, SumRemove
  <1>12. Sum(f, U) \in Int /\ f[x] \in Int
    BY <1>3, <1>6, <1>8, SumInt
  <1> QED
    BY <1>3, <1>4, <1>9, <1>10, <1>11, <1>12

\* A sum of equal terms is a product.
LEMMA SumConstant ==
  ASSUME NEW S, IsFiniteSet(S), NEW k \in Int, NEW f, \A x \in S : f[x] = k
  PROVE  Sum(f, S) = k * Cardinality(S)
  <1>1. Sum(f, S) \in Int /\ Cardinality(S) \in Nat
    BY SumInt, FS_CardinalityType
  <1>2. PICK one \in Int : one = 1
    OBVIOUS
  <1>3. PICK none \in Int : none = 0
    OBVIOUS
  <1>4. \A x \in S : /\ k <= one * f[x] - none * f[x] /\ one * f[x] - none * f[x] <= k
                     /\ f[x] \in Int
    BY <1>2, <1>3
  <1>5. /\ k * Cardinality(S) <= one * Sum(f, S) - none * Sum(f, S)
        /\ one * Sum(f, S) - none * Sum(f, S) <= k * Cardinality(S)
    BY <1>4, SumNear
  <1>6. PICK p \in Int : p = k * Cardinality(S)
    BY <1>1
  <1> QED
    BY <1>1, <1>2, <1>3, <1>5, <1>6

LEMMA SumZero ==
  ASSUME NEW S, IsFiniteSet(S), NEW f, \A x \in S : f[x] = 0
  PROVE  Sum(f, S) = 0
  <1>1. PICK k \in Int : k = 0
    OBVIOUS
  <1>2. \A x \in S : f[x] = k
    BY <1>1
  <1>3. Sum(f, S) = k * Cardinality(S)
    BY <1>2, SumConstant
  <1> QED
    BY <1>1, <1>3, FS_CardinalityType

LEMMA SumSingle == ASSUME NEW x, NEW f, f[x] \in Int PROVE Sum(f, {x}) = f[x]
  <1>1. IsFiniteSet({x}) /\ {x} \ {x} = {}
    BY FS_Singleton
  <1>2. PICK T : T = {x}
    OBVIOUS
  <1> QED
    BY <1>1, <1>2, SumRemove, SumEmpty

\* A part of a sum of natural numbers is at most the sum.
LEMMA SumPart ==
  ASSUME NEW S, IsFiniteSet(S), NEW f, \A x \in S : f[x] \in Nat, NEW T \in SUBSET S
  PROVE  0 <= Sum(f, T) /\ Sum(f, T) <= Sum(f, S)
  <1> DEFINE zero == [x \in S |-> 0]
  <1>1. ASSUME NEW U \in SUBSET S PROVE IsFiniteSet(U) /\ 0 <= Sum(f, U) /\ Sum(f, U) \in Int
    <2>1. IsFiniteSet(U)
      BY FS_Subset
    <2>2. Sum(zero, U) = 0
      BY <2>1, SumZero
    <2>3. \A x \in U : zero[x] \in Int /\ f[x] \in Int /\ zero[x] <= f[x]
      OBVIOUS
    <2> HIDE DEF zero
    <2>4. Sum(zero, U) <= Sum(f, U)
      BY <2>1, <2>3, SumMono
    <2>5. Sum(f, U) \in Int
      BY <2>1, SumInt
    <2> QED
      BY <2>1, <2>2, <2>4, <2>5
  <1>2. PICK V : V = S \ T
    OBVIOUS
  <1>3. V \in SUBSET S /\ T \cup V = S /\ T \cap V = {}
    BY <1>2
  <1>4. Sum(f, S) = Sum(f, T) + Sum(f, V)
    BY <1>1, <1>3, SumUnion
  <1> QED
    BY <1>1, <1>3, <1>4

\* A sum of ones counts.
LEMMA SumOnes ==
  ASSUME NEW S, IsFiniteSet(S), NEW f, \A x \in S : f[x] = 1
  PROVE  Sum(f, S) = Cardinality(S)
  <1>1. PICK k \in Int : k = 1
    OBVIOUS
  <1>2. \A x \in S : f[x] = k
    BY <1>1
  <1>3. Sum(f, S) = k * Cardinality(S)
    BY <1>2, SumConstant
  <1> QED
    BY <1>1, <1>3, FS_CardinalityType

\* The rows of S with key c.
Fiber(S, key, c) == {x \in S : key[x] = c}

\* Sorted by a key, the sums over the rows of each key add up to the sum.
LEMMA SumFibers ==
  ASSUME NEW S, IsFiniteSet(S), NEW f, \A x \in S : f[x] \in Int,
         NEW K, IsFiniteSet(K), NEW key, \A x \in S : key[x] \in K,
         NEW g, \A c \in K : g[c] = Sum(f, Fiber(S, key, c))
  PROVE  Sum(g, K) = Sum(f, S)
  <1> DEFINE Of(T) == {x \in S : key[x] \in T}
             Bad == {T \in SUBSET K : Sum(g, T) # Sum(f, Of(T))}
  <1>1. SUFFICES ASSUME Bad # {} PROVE FALSE
    <2>1. Of(K) = S
      OBVIOUS
    <2>2. K \in SUBSET K
      OBVIOUS
    <2> HIDE DEF Of
    <2> QED
      BY <2>1, <2>2
  <1>2. PICK T \in Bad : \A U \in SUBSET T : U # T => U \notin Bad
    <2>1. Bad \in SUBSET (SUBSET K) /\ Bad # {}
      BY <1>1
    <2> HIDE DEF Bad
    <2> QED
      BY <2>1, LeastSubset
  <1>3. T \in SUBSET K /\ Sum(g, T) # Sum(f, Of(T)) /\ IsFiniteSet(T)
    BY FS_Subset
  <1>4. ASSUME NEW U \in SUBSET T, U # T PROVE Sum(g, U) = Sum(f, Of(U))
    <2>1. U \in SUBSET K
      BY <1>3
    <2> HIDE DEF Of
    <2> QED
      BY <1>2, <1>4, <2>1
  <1> HIDE DEF Bad
  <1>5. ASSUME NEW U PROVE Of(U) \in SUBSET S /\ IsFiniteSet(Of(U)) /\ \A x \in Of(U) : f[x] \in Int
    <2>1. Of(U) \in SUBSET S
      OBVIOUS
    <2> HIDE DEF Of
    <2> QED
      BY <2>1, FS_Subset
  <1>6. T # {}
    <2>1. Of({}) = {}
      OBVIOUS
    <2>2. Sum(g, {}) = 0 /\ Sum(f, {}) = 0
      BY SumEmpty
    <2> HIDE DEF Of
    <2> QED
      BY <1>3, <2>1, <2>2
  <1>7. PICK c \in T : TRUE
    BY <1>6
  <1>8. PICK U : U = T \ {c}
    OBVIOUS
  <1>9. U \in SUBSET T /\ U # T /\ c \in K
    BY <1>3, <1>7, <1>8
  <1>10. \A k \in K : g[k] = Sum(f, Of({k}))
    <2>1. ASSUME NEW k \in K PROVE g[k] = Sum(f, Of({k}))
      <3>1. Of({k}) = Fiber(S, key, k)
        BY DEF Fiber
      <3> HIDE DEF Of
      <3> QED
        BY <3>1
    <2> HIDE DEF Of
    <2> QED
      BY <2>1
  <1>11. Of(T) = Of({c}) \cup Of(U) /\ Of({c}) \cap Of(U) = {}
    BY <1>3, <1>7, <1>8
  <1> HIDE DEF Of
  <1>12. \A k \in K : g[k] \in Int
    BY <1>5, <1>10, SumInt
  <1>13. Sum(f, Of(T)) = Sum(f, Of({c})) + Sum(f, Of(U))
    <2>1. PICK A, B : A = Of({c}) /\ B = Of(U)
      OBVIOUS
    <2>2. IsFiniteSet(A) /\ IsFiniteSet(B) /\ A \cap B = {} /\ \A x \in A \cup B : f[x] \in Int
      BY <1>5, <1>11, <2>1
    <2>3. Sum(f, A \cup B) = Sum(f, A) + Sum(f, B)
      BY <2>2, SumUnion
    <2> QED
      BY <1>11, <2>1, <2>3
  <1>14. Sum(g, T) = g[c] + Sum(g, U)
    BY <1>3, <1>7, <1>8, <1>12, SumRemove
  <1>15. Sum(g, U) = Sum(f, Of(U)) /\ g[c] = Sum(f, Of({c}))
    BY <1>4, <1>9, <1>10
  <1> QED
    BY <1>3, <1>13, <1>14, <1>15

\* Each row of S has a row of its own in T that is worth as much or more.
LEMMA SumInto ==
  ASSUME NEW S, IsFiniteSet(S), NEW f, \A x \in S : f[x] \in Int,
         NEW T, IsFiniteSet(T), NEW g, \A y \in T : g[y] \in Nat,
         NEW own, \A x \in S : own[x] \in T /\ f[x] <= g[own[x]],
         \A x, y \in S : own[x] = own[y] => x = y
  PROVE  Sum(f, S) <= Sum(g, T)
  <1> DEFINE h == [y \in T |-> Sum(f, Fiber(S, own, y))]
  <1>1. Sum(h, T) = Sum(f, S)
    <2>1. \A y \in T : h[y] = Sum(f, Fiber(S, own, y))
      OBVIOUS
    <2> HIDE DEF h
    <2> QED
      BY <2>1, SumFibers
  <1>2. ASSUME NEW y \in T PROVE h[y] \in Int /\ h[y] <= g[y]
    <2>1. PICK A : A = {x \in S : own[x] = y}
      OBVIOUS
    <2>2. h[y] = Sum(f, A)
      BY <2>1 DEF Fiber
    <2> HIDE DEF h
    <2>3. CASE A = {}
      BY <2>2, <2>3, SumEmpty
    <2>4. CASE A # {}
      <3>1. PICK x \in A : TRUE
        BY <2>4
      <3>2. A = {x}
        BY <2>1, <3>1
      <3>3. x \in S /\ own[x] = y
        BY <2>1, <3>1
      <3> QED
        BY <2>2, <3>2, <3>3, SumSingle
    <2> QED
      BY <2>3, <2>4
  <1> HIDE DEF h
  <1>3. Sum(h, T) <= Sum(g, T)
    BY <1>2, SumMono
  <1> QED
    BY <1>1, <1>3

\* The sums of the model are these.
LEMMA SumFunctionSum ==
  ASSUME NEW f, IsFiniteSet(DOMAIN f)
  PROVE  SumFunction(f) = Sum(f, DOMAIN f)
  <1> DEFINE S == DOMAIN f
             P(h) == h = [s \in SUBSET S |-> IF s = {} THEN 0
                                             ELSE f[CHOOSE x \in s : TRUE]
                                                    + h[s \ {CHOOSE x \in s : TRUE}]]
  <1>1. SumFunction(f) = (CHOOSE h : P(h))[S]
    BY DEF SumFunction, SumFunctionOnSet, FoldFunctionOnSet, MapThenFoldSet
  <1>2. ASSUME NEW h PROVE P(h) <=> Summing(h, f, S)
    BY DEF Summing, Pick
  <1> HIDE DEF P, S
  <1>3. PICK k : k = CHOOSE h : P(h)
    OBVIOUS
  <1>4. IsFiniteSet(S)
    BY DEF S
  <1>5. \E h : P(h)
    BY <1>2, <1>4, SummingExists
  <1>6. Summing(k, f, S)
    BY <1>2, <1>3, <1>5
  <1>7. S \in SUBSET S
    OBVIOUS
  <1>8. Sum(f, S) = k[S]
    BY <1>4, <1>6, <1>7, SummingSum
  <1> QED
    BY <1>1, <1>3, <1>8 DEF S

\* The larger and the smaller of two numbers.
LEMMA MaxTwo ==
  ASSUME NEW a \in Int, NEW b \in Int
  PROVE  Max({a, b}) = IF a >= b THEN a ELSE b
  BY DEF Max

LEMMA MinTwo ==
  ASSUME NEW a \in Int, NEW b \in Int
  PROVE  Min({a, b}) = IF a <= b THEN a ELSE b
  BY DEF Min

\* The parts of a set, counted one by one.
LEMMA CountFibers ==
  ASSUME NEW S, IsFiniteSet(S), NEW K, IsFiniteSet(K), NEW key, \A x \in S : key[x] \in K,
         NEW g, \A c \in K : g[c] = Cardinality(Fiber(S, key, c))
  PROVE  Sum(g, K) = Cardinality(S)
  <1> DEFINE f == [x \in S |-> 1]
  <1>1. \A x \in S : f[x] = 1 /\ f[x] \in Int
    OBVIOUS
  <1>2. ASSUME NEW c \in K PROVE g[c] = Sum(f, Fiber(S, key, c))
    <2>1. Fiber(S, key, c) \subseteq S
      BY DEF Fiber
    <2>2. IsFiniteSet(Fiber(S, key, c)) /\ \A x \in Fiber(S, key, c) : f[x] = 1
      BY <2>1, <1>1, FS_Subset
    <2> HIDE DEF f
    <2> QED
      BY <2>2, SumOnes
  <1> HIDE DEF f
  <1>3. Sum(g, K) = Sum(f, S)
    BY <1>1, <1>2, SumFibers
  <1> QED
    BY <1>1, <1>3, SumOnes

\* The sum of a function of the model, told by another that has its values.
LEMMA SumOver ==
  ASSUME NEW f, NEW S, DOMAIN f = S, IsFiniteSet(S), NEW g, \A x \in S : f[x] = g[x]
  PROVE  SumFunction(f) = Sum(g, S)
  BY SumFunctionSum, SumSame

\* Division rounds down.
LEMMA Divided ==
  ASSUME NEW a \in Int, NEW d \in Nat, d > 0
  PROVE  /\ a \div d \in Int /\ (a \div d) * d \in Int
         /\ (a \div d) * d <= a /\ a < (a \div d) * d + d
  OBVIOUS

LEMMA DividedBelow ==
  ASSUME NEW a \in Int, NEW d \in Nat, d > 0, NEW b \in Int
  PROVE  /\ a < b * d => a \div d < b
         /\ b * d <= a => b <= a \div d
         /\ (b * d) \div d = b
  <1>1. PICK q \in Int : q = a \div d
    BY Divided
  <1>2. q * d <= a /\ a < q * d + d /\ q * d \in Int /\ b * d \in Int
    BY <1>1, Divided
  <1>3. ASSUME a < b * d, ~(q < b) PROVE FALSE
    <2>1. b * d <= q * d
      <3>1. PICK e \in Nat : q = b + e
        BY <1>3
      <3>2. e * d \in Nat /\ q * d = b * d + e * d
        BY <3>1
      <3> QED
        BY <3>2, <1>2
    <2> QED
      BY <1>2, <1>3, <2>1
  <1>4. ASSUME b * d <= a, ~(b <= q) PROVE FALSE
    <2>1. q * d + d <= b * d
      <3>1. PICK e \in Nat : b = q + 1 + e
        BY <1>4
      <3>2. e * d \in Nat /\ b * d = q * d + d + e * d
        BY <3>1
      <3> QED
        BY <3>2, <1>2
    <2> QED
      BY <1>2, <1>4, <2>1
  <1>5. (b * d) \div d = b
    OBVIOUS
  <1> QED
    BY <1>1, <1>3, <1>4, <1>5
-----------------------------------------------------------------------------
(* The books: what the rows of the tables and of the report say of each    *)
(* other.                                                                  *)

\* An invoice asks for something, and its payment is stored in full or not at
\* all; a paid one has it, and its time.
InvoiceBooked(i) ==
    /\ i \in InvoiceRows /\ i.due \in Nat /\ i.due > 0 /\ i.paid \in {0, i.due}
    /\ i.status = "paid" => i.paid = i.due /\ i.paidAt # NoTime

PaymentBooked(p) == p \in PaymentRows /\ p.amount \in Nat /\ p.amount > 0

SubBooked(s) == s \in SubRows /\ Has(s) /\ s.plan \in Plans

\* Invoice i asks for the price of its plan; if it is paid, a payment was received.
InvoiceFits(i) ==
    /\ InvoiceBooked(invoices[i]) /\ invoices[i].created <= now
    /\ invoices[i].due = PlanOf[subs[invoices[i].buyer].plan].amount
    /\ invoices[i].status = "paid" => PaidBy(i)

\* Payment k is of its invoice's amount and not older, if it has one.
PaymentFits(k) ==
    LET p == payments[k]
        i == invoices[p.invoice]
    IN  /\ PaymentBooked(p) /\ p.created <= now
        /\ p.invoice \in DOMAIN invoices => p.amount = i.due /\ i.created <= p.created

SubFits(b) == Has(subs[b]) => SubBooked(subs[b]) /\ subs[b].canceled <= now

Booked ==
    /\ \A i \in DOMAIN invoices : InvoiceFits(i)
    /\ \A k \in DOMAIN payments : PaymentFits(k)
    /\ \A b \in Buyers : SubFits(b)

\* The period and the time of the report, once one was asked for.
PeriodMade == report.pc # 0 => /\ report.from = From(Period[1]) /\ report.to = To(Period[2])
                               /\ report.at \in Int

Unique(rows) == IsFiniteSet(rows) /\ \A r, s \in rows : r.n = s.n => r = s

InvoicesRead ==
    /\ Unique(report.invoices) /\ Unique(report.previous)
    /\ \A r \in report.invoices \cup report.previous : InvoiceBooked(r.row)
    /\ \A r \in report.invoices : In(r.row.created, report.from, report.to)

SubscriptionsBooked ==
    /\ Unique(report.subscriptions)
    /\ \A s \in report.subscriptions : s.n \in Buyers /\ SubBooked(s.row) /\ s.row.canceled <= now

PaymentsRead ==
    /\ Unique(report.payments)
    /\ \A p \in report.payments : PaymentBooked(p.row) /\ In(p.row.created, report.from, report.to)

\* Payment p is one of invoice r that succeeded.
PaysFor(p, r) ==
    /\ p.invoice = r.n /\ p.status \in Received /\ p.amount = r.row.due
    /\ r.row.created <= p.created /\ p.created <= now

\* What was read as paid has a payment, in the report too if none is younger.
PaidRead ==
    \A r \in report.invoices : r.row.status = "paid" =>
        /\ \E k \in DOMAIN payments : PaysFor(payments[k], r)
        /\ report.pc = 6 /\ now <= report.to => \E p \in report.payments : PaysFor(p.row, r)

BooksInv ==
    Booked /\ PeriodMade /\ InvoicesRead /\ SubscriptionsBooked /\ PaymentsRead /\ PaidRead
-----------------------------------------------------------------------------
LEMMA StoredNow ==
  ASSUME Stored
  PROVE  /\ \A i \in DOMAIN invoices : invoices[i] \in InvoiceRows /\ i \in Nat
         /\ \A k \in DOMAIN payments : payments[k] \in PaymentRows /\ Belongs(payments[k])
         /\ \A c \in Buyers : subs[c] \in SubRows
         /\ Len(invoices) \in Nat /\ DOMAIN invoices = 1 .. Len(invoices)
         /\ Len(payments) \in Nat /\ DOMAIN payments = 1 .. Len(payments)
  <1>1. invoices \in Seq(InvoiceRows) /\ payments \in Seq(PaymentRows)
    BY DEF Stored, Linked
  <1>2. /\ Len(invoices) \in Nat /\ DOMAIN invoices = 1 .. Len(invoices)
        /\ Len(payments) \in Nat /\ DOMAIN payments = 1 .. Len(payments)
        /\ \A i \in DOMAIN invoices : invoices[i] \in InvoiceRows
        /\ \A k \in DOMAIN payments : payments[k] \in PaymentRows
    BY <1>1, LenProperties
  <1>3. \A k \in DOMAIN payments : Belongs(payments[k])
    BY DEF Stored, Linked
  <1>4. \A c \in Buyers : subs[c] \in SubRows
    BY DEF Stored, Linked
  <1> QED
    BY <1>2, <1>3, <1>4

LEMMA StoredNext ==
  ASSUME Stored'
  PROVE  /\ \A i \in DOMAIN invoices' : invoices'[i] \in InvoiceRows
         /\ \A k \in DOMAIN payments' : payments'[k] \in PaymentRows /\ Belongs(payments[k])'
         /\ NoInvoice \notin DOMAIN invoices'
         /\ \A c \in Buyers : subs'[c] \in SubRows
  <1>1. invoices' \in Seq(InvoiceRows) /\ payments' \in Seq(PaymentRows)
    BY DEF Stored, Linked
  <1>2. /\ \A i \in DOMAIN invoices' : invoices'[i] \in InvoiceRows
        /\ \A k \in DOMAIN payments' : payments'[k] \in PaymentRows
        /\ NoInvoice \notin DOMAIN invoices'
    BY <1>1, LenProperties DEF NoInvoice
  <1>3. \A k \in DOMAIN payments' : Belongs(payments[k])'
    BY DEF Stored, Linked
  <1>4. \A c \in Buyers : subs'[c] \in SubRows
    BY DEF Stored, Linked
  <1> QED
    BY <1>2, <1>3, <1>4

\* Fields of rows are numbers and names.
LEMMA RowFields ==
  /\ \A i \in InvoiceRows : /\ i.buyer \in Buyers /\ i.due \in Int /\ i.paid \in Int
                            /\ i.created \in Int /\ i.paidAt \in Int /\ i.status \in InvoiceStatuses
  /\ \A p \in PaymentRows : /\ p.amount \in Int /\ p.method \in PaymentMethods /\ p.created \in Int
                            /\ p.status \in {"PENDING_BILLING", "SUCCESS", "PAYMENT_FAILED", "REFUND"}
                            /\ p.invoice \in Nat /\ p.plan \in Plans
  /\ \A s \in SubRows : /\ s.status \in SubStatuses /\ s.created \in Int /\ s.canceled \in Int
                        /\ s.source \in PaymentMethods
  BY DEF InvoiceRows, PaymentRows, SubRows

\* What a change keeps of payments.
PaymentsKept ==
    \A k \in DOMAIN payments :
        /\ k \in DOMAIN payments' /\ payments'[k].invoice = payments[k].invoice
        /\ payments'[k].amount = payments[k].amount /\ payments'[k].created = payments[k].created
        /\ payments[k].status \in Received => payments'[k].status \in Received

LEMMA PaidStays ==
  ASSUME PaymentsKept, NEW i, PaidBy(i)
  PROVE  PaidBy(i)'
  BY DEF PaymentsKept, PaidBy

LEMMA InvoicesStayBooked ==
  ASSUME DashboardInv, Booked, Changed, now' = now, NEW i \in DOMAIN invoices'
  PROVE  InvoiceFits(i)'
  <1>1. Stored' /\ now \in Int /\ now # NoTime
    BY ChangedStored, StoredRows
  <1>2. invoices'[i] \in InvoiceRows
    BY <1>1, StoredNext
  <1>3. invoices'[i].status = "paid" => PaidBy(i)'
    <2>1. SUFFICES ASSUME invoices'[i].status = "paid", i \in DOMAIN invoices, invoices[i].status = "paid"
                   PROVE  PaidBy(i)'
      BY DEF Changed, Settled
    <2>2. PaidBy(i)
      BY <2>1 DEF Booked, InvoiceFits
    <2>3. PaymentsKept
      BY DEF Changed, PaymentsNext, PaymentNext, PaymentsKept
    <2> QED
      BY <2>2, <2>3, PaidStays
  <1>4. CASE i \in DOMAIN invoices
    <2>1. PICK b \in Buyers : b = invoices[i].buyer
      BY <1>4, StoredRows
    <2>2. Has(subs[b]) /\ SubNext(subs[b], subs'[b])
      BY <1>4, <2>1, StoredRows DEF Changed, SubsNext
    <2>3. subs'[b].plan = subs[b].plan
      BY <2>2 DEF SubNext
    <2>4. InvoiceNext(invoices[i], invoices'[i]) /\ InvoiceFits(i)
      BY <1>4 DEF Changed, InvoicesNext, Booked
    <2>5. invoices'[i].due = PlanOf[subs'[invoices'[i].buyer].plan].amount
      BY <2>1, <2>3, <2>4 DEF InvoiceNext, InvoiceFits
    <2>6. InvoiceBooked(invoices'[i]) /\ invoices'[i].created <= now
      BY <1>1, <1>2, <2>4 DEF InvoiceNext, InvoiceFits, InvoiceBooked
    <2> QED
      BY <1>3, <2>5, <2>6 DEF InvoiceFits
  <1>5. CASE i \notin DOMAIN invoices
    <2>1. InvoiceNew(invoices'[i])
      BY <1>5 DEF Changed, InvoicesNext
    <2>2. PICK p \in Plans : p = subs'[invoices'[i].buyer].plan
      BY <1>1, <1>2, <2>1, RowFields DEF Stored, Linked, InvoiceNew
    <2>3. invoices'[i].due = PlanOf[p].amount /\ PlanOf[p].amount \in Nat /\ PlanOf[p].amount > 0
      BY <2>1, <2>2, DashboardAssumption, ReportAssumption DEF InvoiceNew
    <2>4. InvoiceBooked(invoices'[i]) /\ invoices'[i].created <= now
      BY <1>1, <1>2, <2>1, <2>3 DEF InvoiceNew, InvoiceBooked
    <2> QED
      BY <1>3, <2>2, <2>3, <2>4 DEF InvoiceFits
  <1> QED
    BY <1>4, <1>5

LEMMA PaymentsStayBooked ==
  ASSUME DashboardInv, Booked, Changed, now' = now, NEW k \in DOMAIN payments'
  PROVE  PaymentFits(k)'
  <1>1. Stored' /\ now \in Int
    BY ChangedStored, StoredRows
  <1>2. /\ payments'[k] \in PaymentRows /\ Belongs(payments[k])'
        /\ NoInvoice \notin DOMAIN invoices'
    BY <1>1, StoredNext
  <1>3. CASE k \in DOMAIN payments /\ payments[k].invoice \notin DOMAIN invoices
    <2>1. PaymentNext(payments[k], payments'[k]) /\ PaymentFits(k) /\ payments[k].invoice = NoInvoice
      BY <1>3, StoredRows DEF Changed, PaymentsNext, Booked, Belongs
    <2> QED
      BY <1>2, <2>1 DEF PaymentNext, PaymentFits, PaymentBooked
  <1>4. CASE k \in DOMAIN payments /\ payments[k].invoice \in DOMAIN invoices
    <2>1. PICK i \in DOMAIN invoices : i = payments[k].invoice
      BY <1>4
    <2>2. InvoiceNext(invoices[i], invoices'[i]) /\ PaymentNext(payments[k], payments'[k])
          /\ PaymentFits(k)
      BY <1>4 DEF Changed, InvoicesNext, PaymentsNext, Booked
    <2>3. invoices'[i].due = invoices[i].due /\ invoices'[i].created = invoices[i].created
          /\ payments'[k].invoice = i /\ payments'[k].amount = payments[k].amount
          /\ payments'[k].created = payments[k].created
      BY <2>1, <2>2 DEF InvoiceNext, PaymentNext
    <2> QED
      BY <1>2, <2>1, <2>2, <2>3 DEF PaymentFits, PaymentBooked
  <1>5. CASE k \notin DOMAIN payments /\ payments'[k].invoice \notin DOMAIN invoices'
    <2>1. PaymentNew(payments'[k])
      BY <1>5 DEF Changed, PaymentsNext
    <2>2. PICK p \in Plans : p = payments'[k].plan
      BY <1>2, RowFields
    <2>3. PlanOf[p].amount \in Nat /\ PlanOf[p].amount > 0
      BY DashboardAssumption, ReportAssumption
    <2> QED
      BY <1>1, <1>2, <1>5, <2>1, <2>2, <2>3 DEF PaymentNew, PaymentFits, PaymentBooked
  <1>6. CASE k \notin DOMAIN payments /\ payments'[k].invoice \in DOMAIN invoices'
    <2>1. PaymentNew(payments'[k])
      BY <1>6 DEF Changed, PaymentsNext
    <2>2. PICK i \in DOMAIN invoices' : i = payments'[k].invoice
      BY <1>6
    <2>3. InvoiceFits(i)'
      BY InvoicesStayBooked
    <2>4. /\ invoices'[i].due \in Nat /\ invoices'[i].due > 0 /\ invoices'[i].created <= now
          /\ invoices'[i].due = PlanOf[subs'[invoices'[i].buyer].plan].amount
      BY <2>3 DEF InvoiceFits, InvoiceBooked
    <2>5. payments'[k].amount = invoices'[i].due /\ payments'[k].created = now
      BY <1>2, <2>1, <2>2, <2>4 DEF PaymentNew
    <2> QED
      BY <1>1, <1>2, <2>2, <2>4, <2>5 DEF PaymentFits, PaymentBooked
  <1> QED
    BY <1>4, <1>6, <1>5, <1>3

LEMMA ChangedBooked ==
  ASSUME DashboardInv, Booked, Changed, now' = now
  PROVE  Booked' /\ PaymentsKept
  <1>1. ASSUME NEW b \in Buyers, Has(subs'[b]) PROVE SubBooked(subs'[b]) /\ subs'[b].canceled <= now
    <2>1. SubNext(subs[b], subs'[b]) /\ SubFits(b) /\ subs'[b] \in SubRows
      BY DEF Changed, SubsNext, Booked
    <2>2. now \in Int /\ NoTime <= now
      BY DashboardAssumption DEF DashboardInv, NoTime
    <2>3. subs'[b].canceled <= now
      BY <1>1, <2>1, <2>2 DEF SubNext, SubFits
    <2>4. subs'[b].plan \in Plans
      BY <1>1, <2>1 DEF SubNext, SubFits, SubBooked
    <2> QED
      BY <1>1, <2>1, <2>3, <2>4 DEF SubBooked
  <1>2. PaymentsKept
    BY DEF Changed, PaymentsNext, PaymentNext, PaymentsKept
  <1>3. Booked'
    BY <1>1, InvoicesStayBooked, PaymentsStayBooked DEF Booked, SubFits
  <1> QED
    BY <1>2, <1>3

\* The rows of a list are a finite set, each with its number.
LEMMA NumberedRows ==
  ASSUME NEW rows, NEW n \in Nat, DOMAIN rows = 1 .. n
  PROVE  /\ Unique(Numbered(rows))
         /\ \A r \in Numbered(rows) : r.n \in DOMAIN rows /\ r.row = rows[r.n]
         /\ \A k \in DOMAIN rows : \E r \in Numbered(rows) : r.n = k /\ r.row = rows[k]
  <1>1. \A r \in Numbered(rows) : r.n \in DOMAIN rows /\ r.row = rows[r.n]
    BY DEF Numbered
  <1>2. \A k \in DOMAIN rows : [n |-> k, row |-> rows[k]] \in Numbered(rows)
    BY DEF Numbered
  <1>3. \A r, s \in Numbered(rows) : r.n = s.n => r = s
    BY DEF Numbered
  <1>4. IsFiniteSet(Numbered(rows))
    <2>1. IsFiniteSet(DOMAIN rows)
      BY FS_Interval
    <2>2. PICK f : f = [k \in DOMAIN rows |-> [n |-> k, row |-> rows[k]]]
      OBVIOUS
    <2>3. f \in Surjection(DOMAIN rows, Numbered(rows))
      <3>1. f \in [DOMAIN rows -> Numbered(rows)]
        BY <1>2, <2>2
      <3>2. \A r \in Numbered(rows) : \E k \in DOMAIN rows : f[k] = r
        BY <2>2 DEF Numbered
      <3> QED
        BY <3>1, <3>2 DEF Surjection
    <2> QED
      BY <2>1, <2>3, FS_Surjection
  <1>5. \A k \in DOMAIN rows : \E r \in Numbered(rows) : r.n = k /\ r.row = rows[k]
    <2>1. ASSUME NEW k \in DOMAIN rows PROVE \E r \in Numbered(rows) : r.n = k /\ r.row = rows[k]
      <3>1. PICK r : r = [n |-> k, row |-> rows[k]]
        OBVIOUS
      <3>2. r \in Numbered(rows) /\ r.n = k /\ r.row = rows[k]
        BY <1>2, <3>1
      <3> QED
        BY <3>2
    <2> QED
      BY <2>1
  <1> QED
    BY <1>1, <1>3, <1>4, <1>5 DEF Unique

LEMMA CreatedRows ==
  ASSUME NEW rows, NEW n \in Nat, DOMAIN rows = 1 .. n, NEW from, NEW to
  PROVE  /\ Unique(Created(rows, from, to))
         /\ \A r \in Created(rows, from, to) :
               r.n \in DOMAIN rows /\ r.row = rows[r.n] /\ In(r.row.created, from, to)
         /\ \A k \in DOMAIN rows : In(rows[k].created, from, to)
               => \E r \in Created(rows, from, to) : r.n = k /\ r.row = rows[k]
  <1>1. Created(rows, from, to) \subseteq Numbered(rows)
    BY DEF Created
  <1>2. Unique(Created(rows, from, to))
    BY <1>1, NumberedRows, FS_Subset DEF Unique
  <1>3. \A r \in Created(rows, from, to) : In(r.row.created, from, to)
    BY DEF Created
  <1>4. ASSUME NEW k \in DOMAIN rows, In(rows[k].created, from, to)
        PROVE  \E r \in Created(rows, from, to) : r.n = k /\ r.row = rows[k]
    <2>1. PICK r \in Numbered(rows) : r.n = k /\ r.row = rows[k]
      BY NumberedRows
    <2>2. r \in Created(rows, from, to)
      BY <1>4, <2>1 DEF Created
    <2> QED
      BY <2>1, <2>2
  <1> QED
    BY <1>1, <1>2, <1>3, <1>4, NumberedRows

\* The subscriptions of the table.
LEMMA SubscriptionsRows ==
  ASSUME DashboardInv, Booked, IsFiniteSet(Buyers)
  PROVE  /\ Unique(Subscriptions)
         /\ \A s \in Subscriptions : s.n \in Buyers /\ s.row = subs[s.n] /\ SubBooked(s.row)
                                  /\ s.row.canceled <= now
         /\ \A b \in Buyers : Has(subs[b]) => \E s \in Subscriptions : s.n = b /\ s.row = subs[b]
  <1>1. \A s \in Subscriptions : s.n \in Buyers /\ s.row = subs[s.n] /\ Has(subs[s.n])
    BY DEF Subscriptions
  <1>2. \A b \in Buyers : Has(subs[b]) => [n |-> b, row |-> subs[b]] \in Subscriptions
    BY DEF Subscriptions
  <1>3. \A r, s \in Subscriptions : r.n = s.n => r = s
    BY DEF Subscriptions
  <1>4. IsFiniteSet(Subscriptions)
    <2>1. PICK H \in SUBSET Buyers : H = {c \in Buyers : Has(subs[c])}
      OBVIOUS
    <2>2. PICK f : f = [b \in H |-> [n |-> b, row |-> subs[b]]]
      OBVIOUS
    <2>3. f \in Surjection(H, Subscriptions)
      <3>1. f \in [H -> Subscriptions]
        BY <1>2, <2>1, <2>2
      <3>2. \A s \in Subscriptions : \E b \in H : f[b] = s
        BY <2>1, <2>2 DEF Subscriptions
      <3> QED
        BY <3>1, <3>2 DEF Surjection
    <2>4. IsFiniteSet(H)
      BY FS_Subset
    <2> QED
      BY <2>3, <2>4, FS_Surjection
  <1>5. \A s \in Subscriptions : SubBooked(s.row) /\ s.row.canceled <= now
    BY <1>1 DEF Booked, SubFits
  <1>6. ASSUME NEW b \in Buyers, Has(subs[b]) PROVE \E s \in Subscriptions : s.n = b /\ s.row = subs[b]
    <2>1. PICK r : r = [n |-> b, row |-> subs[b]]
      OBVIOUS
    <2>2. r \in Subscriptions /\ r.n = b /\ r.row = subs[b]
      BY <1>2, <1>6, <2>1
    <2> QED
      BY <2>2
  <1> QED
    BY <1>1, <1>3, <1>4, <1>5, <1>6 DEF Unique
-----------------------------------------------------------------------------
LEMMA BooksInit == IsFiniteSet(Buyers) /\ DashboardInit => BooksInv
  <1> SUFFICES ASSUME IsFiniteSet(Buyers), DashboardInit PROVE BooksInv
    OBVIOUS
  <1>1. /\ NoReport.pc = 0 /\ NoReport.invoices = {} /\ NoReport.previous = {}
        /\ NoReport.payments = {} /\ NoReport.subscriptions = {}
    BY DEF NoReport
  <1>2. NoSub.status = "none"
    BY DEF NoSub
  <1>3. DOMAIN invoices = {} /\ DOMAIN payments = {}
    BY DEF DashboardInit
  <1>4. \A b \in Buyers : ~Has(subs[b])
    BY <1>2 DEF DashboardInit, Has
  <1>5. Booked
    BY <1>3, <1>4 DEF Booked, SubFits
  <1>6. report = NoReport
    BY DEF DashboardInit
  <1>7. Unique({})
    BY FS_EmptySet DEF Unique
  <1>8. InvoicesRead /\ SubscriptionsBooked /\ PaymentsRead /\ PeriodMade /\ PaidRead
    BY <1>1, <1>6, <1>7 DEF InvoicesRead, SubscriptionsBooked, PaymentsRead, PeriodMade, PaidRead
  <1> QED
    BY <1>5, <1>8 DEF BooksInv

\* What was read does not change with the tables.
LEMMA ReadKept ==
  ASSUME BooksInv, report' = report, now \in Int, now' \in Int, now <= now'
  PROVE  PeriodMade' /\ InvoicesRead' /\ SubscriptionsBooked' /\ PaymentsRead'
  <1>1. PeriodMade' /\ InvoicesRead' /\ PaymentsRead'
    BY DEF BooksInv, PeriodMade, InvoicesRead, PaymentsRead
  <1>2. ASSUME NEW s \in report.subscriptions PROVE s.row.canceled <= now'
    BY RowFields DEF BooksInv, SubscriptionsBooked, SubBooked
  <1>3. SubscriptionsBooked'
    BY <1>2 DEF BooksInv, SubscriptionsBooked
  <1> QED
    BY <1>1, <1>3

LEMMA PaidReadKept ==
  ASSUME BooksInv, report' = report, PaymentsKept, now \in Int, now' \in Int, now <= now',
         report.pc = 6 => now' = now, \A p \in report.payments : p.row.created \in Int,
         \A k \in DOMAIN payments : payments[k].created \in Int
  PROVE  PaidRead'
  <1>1. ASSUME NEW r \in report.invoices, r.row.status = "paid"
        PROVE  \E k \in DOMAIN payments' : PaysFor(payments[k], r)'
    <2>1. PICK k \in DOMAIN payments : PaysFor(payments[k], r)
      BY <1>1 DEF BooksInv, PaidRead
    <2>2. /\ k \in DOMAIN payments' /\ payments'[k].invoice = payments[k].invoice
          /\ payments'[k].amount = payments[k].amount /\ payments'[k].created = payments[k].created
          /\ payments'[k].status \in Received
      BY <2>1 DEF PaymentsKept, PaysFor
    <2>3. payments[k].created <= now'
      BY <2>1 DEF PaysFor
    <2> QED
      BY <2>1, <2>2, <2>3 DEF PaysFor
  <1>2. ASSUME NEW r \in report.invoices, r.row.status = "paid", report.pc = 6, now' <= report.to
        PROVE  \E p \in report.payments : PaysFor(p.row, r)'
    <2>1. PICK p \in report.payments : PaysFor(p.row, r)
      BY <1>2 DEF BooksInv, PaidRead
    <2> QED
      BY <1>2, <2>1 DEF PaysFor
  <1> QED
    BY <1>1, <1>2 DEF PaidRead

LEMMA TablesBooks ==
  ASSUME DashboardInv, BooksInv, TablesChange
  PROVE  BooksInv'
  <1>1. Changed /\ report' = report /\ now' = now /\ now \in Int
    BY TablesStep, StoredRows
  <1>2. Booked' /\ PaymentsKept
    BY <1>1, ChangedBooked DEF BooksInv
  <1>3. /\ \A p \in report.payments : p.row.created \in Int
        /\ \A k \in DOMAIN payments : payments[k].created \in Int
    BY StoredRows, RowFields DEF BooksInv, PaymentsRead, PaymentBooked
  <1>4. PaidRead'
    BY <1>1, <1>2, <1>3, PaidReadKept
  <1> QED
    BY <1>1, <1>2, <1>4, ReadKept DEF BooksInv

LEMMA PassBooks ==
  ASSUME DashboardInv, BooksInv, Pass
  PROVE  BooksInv'
  <1>1. /\ report.pc = 0 /\ report' = report /\ now' = now + 1 /\ now \in Int
        /\ subs' = subs /\ invoices' = invoices /\ payments' = payments
    BY StoredRows DEF Pass, tables
  <1>2. /\ \A p \in report.payments : p.row.created \in Int
        /\ \A k \in DOMAIN payments : payments[k].created \in Int
        /\ \A i \in DOMAIN invoices : invoices[i].created \in Int
        /\ \A b \in Buyers : subs[b].canceled \in Int
    BY StoredRows, RowFields DEF BooksInv, PaymentsRead, PaymentBooked
  <1>3. Booked'
    <2>1. \A k \in DOMAIN payments : PaymentFits(k)'
      BY <1>1, <1>2 DEF BooksInv, Booked, PaymentFits
    <2>2. \A b \in Buyers : SubFits(b)'
      BY <1>1, <1>2 DEF BooksInv, Booked, SubFits
    <2>3. \A i \in DOMAIN invoices : InvoiceFits(i)'
      BY <1>1, <1>2 DEF BooksInv, Booked, InvoiceFits, PaidBy
    <2> QED
      BY <1>1, <2>1, <2>2, <2>3 DEF Booked
  <1>4. PaymentsKept
    BY <1>1 DEF PaymentsKept
  <1>5. PaidRead'
    BY <1>1, <1>2, <1>4, PaidReadKept
  <1> QED
    BY <1>1, <1>3, <1>5, ReadKept DEF BooksInv

\* The rows say the same of each other as long as they do not change.
LEMMA SameBooked ==
  ASSUME Booked, now' = now, subs' = subs, invoices' = invoices, payments' = payments
  PROVE  Booked'
  BY DEF Booked, InvoiceFits, PaidBy, PaymentFits, SubFits

LEMMA SameBooks ==
  ASSUME DashboardInv, BooksInv, UNCHANGED dashboardVars
  PROVE  BooksInv'
  <1>1. /\ report' = report /\ now' = now /\ subs' = subs /\ invoices' = invoices
        /\ payments' = payments /\ now \in Int
    BY StoredRows DEF dashboardVars, tables
  <1>2. PaidRead'
    BY <1>1 DEF BooksInv, PaidRead, PaysFor
  <1> QED
    BY <1>1, <1>2, SameBooked, ReadKept DEF BooksInv

LEMMA AskBooks ==
  ASSUME DashboardInv, BooksInv, AskReport
  PROVE  BooksInv'
  <1>1. /\ now' = now /\ subs' = subs /\ invoices' = invoices
        /\ payments' = payments
    BY DEF AskReport, tables
  <1>2. PICK r : r = [NoReport EXCEPT !.pc = 1, !.from = From(Period[1]), !.to = To(Period[2]),
                                      !.at = now]
    OBVIOUS
  <1>3. /\ r.pc = 1 /\ r.invoices = {} /\ r.previous = {} /\ r.payments = {}
        /\ r.subscriptions = {} /\ r.from = From(Period[1]) /\ r.to = To(Period[2])
        /\ r.at = now /\ now \in Int
    BY <1>2, StoredRows DEF NoReport
  <1>4. report' = r
    BY <1>2 DEF AskReport
  <1>5. Booked'
    BY <1>1, SameBooked DEF BooksInv
  <1>6. Unique({})
    BY FS_EmptySet DEF Unique
  <1>7. InvoicesRead' /\ SubscriptionsBooked' /\ PaymentsRead' /\ PeriodMade' /\ PaidRead'
    BY <1>3, <1>4, <1>6 DEF InvoicesRead, SubscriptionsBooked, PaymentsRead, PeriodMade, PaidRead
  <1> QED
    BY <1>5, <1>7 DEF BooksInv
-----------------------------------------------------------------------------
(* The reads.                                                              *)

\* Nothing but the report changes.
LEMMA ReadChanges ==
  ASSUME DashboardInv, Read
  PROVE  /\ now' = now /\ subs' = subs /\ invoices' = invoices /\ payments' = payments
         /\ report.pc \in 1 .. 5 /\ report'.pc = report.pc + 1
         /\ report'.from = report.from /\ report'.to = report.to /\ report'.at = report.at
         /\ report'.invoices = IF report.pc = 1 THEN Created(invoices, report.from, report.to)
                               ELSE report.invoices
         /\ report'.previous = IF report.pc = 2 THEN Created(invoices, PreviousFrom(report), PreviousTo(report))
                               ELSE report.previous
         /\ report'.subscriptions = IF report.pc = 4 THEN Subscriptions ELSE report.subscriptions
         /\ report'.payments = IF report.pc = 5 THEN Created(payments, report.from, report.to)
                               ELSE report.payments
  <1>1. now' = now /\ subs' = subs /\ invoices' = invoices /\ payments' = payments
    BY DEF Read, tables
  <1>2. PICK table : table = Reads[report.pc]
    OBVIOUS
  <1>3. /\ report.pc \in 1 .. 5 /\ report'.pc = report.pc + 1
        /\ report'[table] = Answer(table, report)
        /\ \A f \in Columns \ {"pc", table} : report'[f] = report[f]
        /\ table \in Columns \ {"pc", "from", "to", "at"}
    BY <1>2, ReadColumn, ReadsTables
  <1>4. /\ table = "invoices" <=> report.pc = 1
        /\ table = "previous" <=> report.pc = 2
        /\ table = "subscriptions" <=> report.pc = 4
        /\ table = "payments" <=> report.pc = 5
    <2>1. report.pc \in {1, 2, 3, 4, 5}
      BY <1>3
    <2> QED
      BY <1>2, <2>1, ReadsTables
  <1>5. report'.from = report.from /\ report'.to = report.to /\ report'.at = report.at
    BY <1>3 DEF Columns
  <1>6. report'.invoices = IF report.pc = 1 THEN Created(invoices, report.from, report.to)
                           ELSE report.invoices
    <2>1. CASE table = "invoices"
      BY <1>3, <1>4, <2>1 DEF Answer
    <2>2. CASE table # "invoices"
      BY <1>3, <1>4, <2>2 DEF Columns
    <2> QED
      BY <2>1, <2>2
  <1>7. report'.previous = IF report.pc = 2 THEN Created(invoices, PreviousFrom(report), PreviousTo(report))
                           ELSE report.previous
    <2>1. CASE table = "previous"
      BY <1>3, <1>4, <2>1 DEF Answer
    <2>2. CASE table # "previous"
      BY <1>3, <1>4, <2>2 DEF Columns
    <2> QED
      BY <2>1, <2>2
  <1>8. report'.subscriptions = IF report.pc = 4 THEN Subscriptions ELSE report.subscriptions
    <2>1. CASE table = "subscriptions"
      BY <1>3, <1>4, <2>1 DEF Answer
    <2>2. CASE table # "subscriptions"
      BY <1>3, <1>4, <2>2 DEF Columns
    <2> QED
      BY <2>1, <2>2
  <1>9. report'.payments = IF report.pc = 5 THEN Created(payments, report.from, report.to)
                           ELSE report.payments
    <2>1. CASE table = "payments"
      BY <1>3, <1>4, <2>1 DEF Answer
    <2>2. CASE table # "payments"
      BY <1>3, <1>4, <2>2 DEF Columns
    <2> QED
      BY <2>1, <2>2
  <1> QED
    BY <1>1, <1>3, <1>5, <1>6, <1>7, <1>8, <1>9

LEMMA ReadBooks ==
  ASSUME DashboardInv, BooksInv, Read
  PROVE  BooksInv'
  <1>1. /\ now' = now /\ subs' = subs /\ invoices' = invoices /\ payments' = payments
        /\ report.pc \in 1 .. 5 /\ report'.pc = report.pc + 1
        /\ report'.from = report.from /\ report'.to = report.to /\ report'.at = report.at
    BY ReadChanges
  <1>2. Booked'
    BY <1>1, SameBooked DEF BooksInv
  <1>3. Booked /\ Stored
    BY DEF BooksInv, DashboardInv
  <1>4. PeriodMade'
    BY <1>1 DEF BooksInv, PeriodMade
  <1>5. ASSUME NEW from, NEW to
        PROVE  /\ Unique(Created(invoices, from, to))
               /\ \A r \in Created(invoices, from, to) :
                    /\ r.n \in DOMAIN invoices /\ r.row = invoices[r.n] /\ InvoiceBooked(r.row)
                    /\ In(r.row.created, from, to)
               /\ \A i \in DOMAIN invoices : In(invoices[i].created, from, to)
                     => \E r \in Created(invoices, from, to) : r.n = i /\ r.row = invoices[i]
    <2>1. PICK n \in Nat : DOMAIN invoices = 1 .. n
      BY <1>3, StoredNow
    <2>2. /\ Unique(Created(invoices, from, to))
          /\ \A r \in Created(invoices, from, to) :
               r.n \in DOMAIN invoices /\ r.row = invoices[r.n] /\ In(r.row.created, from, to)
          /\ \A k \in DOMAIN invoices : In(invoices[k].created, from, to)
               => \E r \in Created(invoices, from, to) : r.n = k /\ r.row = invoices[k]
      BY <2>1, CreatedRows
    <2> QED
      BY <1>3, <2>2 DEF Booked, InvoiceFits
  <1>6. InvoicesRead'
    <2>1. CASE report.pc = 1
      <3>1. report'.invoices = Created(invoices, report.from, report.to)
            /\ report'.previous = report.previous
        BY <2>1, ReadChanges
      <3>2. Unique(report'.invoices) /\ \A r \in report'.invoices : InvoiceBooked(r.row)
                                           /\ In(r.row.created, report.from, report.to)
        BY <1>5, <3>1
      <3> QED
        BY <1>1, <3>1, <3>2 DEF InvoicesRead, BooksInv
    <2>2. CASE report.pc = 2
      <3>1. report'.invoices = report.invoices
            /\ report'.previous = Created(invoices, PreviousFrom(report), PreviousTo(report))
        BY <2>2, ReadChanges
      <3>2. Unique(report'.previous) /\ \A r \in report'.previous : InvoiceBooked(r.row)
        BY <1>5, <3>1
      <3> QED
        BY <1>1, <3>1, <3>2 DEF InvoicesRead, BooksInv
    <2>3. CASE report.pc \notin {1, 2}
      <3>1. report'.invoices = report.invoices /\ report'.previous = report.previous
        BY <2>3, ReadChanges
      <3> QED
        BY <1>1, <3>1 DEF InvoicesRead, BooksInv
    <2> QED
      BY <2>1, <2>2, <2>3
  <1>7. SubscriptionsBooked'
    <2>1. CASE report.pc = 4
      <3>1. report'.subscriptions = Subscriptions
        BY <2>1, ReadChanges
      <3> QED
        BY <1>1, <1>3, <3>1, SubscriptionsRows, ReportAssumption DEF SubscriptionsBooked
    <2>2. CASE report.pc # 4
      <3>1. report'.subscriptions = report.subscriptions
        BY <2>2, ReadChanges
      <3> QED
        BY <1>1, <3>1 DEF BooksInv, SubscriptionsBooked
    <2> QED
      BY <2>1, <2>2
  <1>8. /\ Unique(Created(payments, report.from, report.to))
        /\ \A p \in Created(payments, report.from, report.to) :
             /\ p.n \in DOMAIN payments /\ p.row = payments[p.n] /\ PaymentBooked(p.row)
             /\ In(p.row.created, report.from, report.to)
        /\ \A k \in DOMAIN payments : In(payments[k].created, report.from, report.to)
              => \E p \in Created(payments, report.from, report.to) : p.n = k /\ p.row = payments[k]
    <2>1. PICK n \in Nat : DOMAIN payments = 1 .. n
      BY <1>3, StoredNow
    <2>2. PICK from, to : from = report.from /\ to = report.to
      OBVIOUS
    <2>3. /\ Unique(Created(payments, from, to))
          /\ \A r \in Created(payments, from, to) :
               r.n \in DOMAIN payments /\ r.row = payments[r.n] /\ In(r.row.created, from, to)
          /\ \A k \in DOMAIN payments : In(payments[k].created, from, to)
               => \E r \in Created(payments, from, to) : r.n = k /\ r.row = payments[k]
      BY <2>1, CreatedRows
    <2> QED
      BY <1>3, <2>2, <2>3 DEF Booked, PaymentFits
  <1>9. PaymentsRead'
    <2>1. CASE report.pc = 5
      <3>1. report'.payments = Created(payments, report.from, report.to)
        BY <2>1, ReadChanges
      <3> QED
        BY <1>1, <1>8, <3>1 DEF PaymentsRead
    <2>2. CASE report.pc # 5
      <3>1. report'.payments = report.payments
        BY <2>2, ReadChanges
      <3> QED
        BY <1>1, <3>1 DEF BooksInv, PaymentsRead
    <2> QED
      BY <2>1, <2>2
  <1>10. PaidRead'
    <2>1. ASSUME NEW r \in report'.invoices, r.row.status = "paid"
          PROVE  \E k \in DOMAIN payments : PaysFor(payments[k], r)
      <3>1. CASE report.pc = 1
        <4>1. r \in Created(invoices, report.from, report.to)
          BY <2>1, <3>1, ReadChanges
        <4>2. r.n \in DOMAIN invoices /\ r.row = invoices[r.n]
          BY <1>5, <4>1
        <4>3. PICK k \in DOMAIN payments : payments[k].status \in Received /\ payments[k].invoice = r.n
          BY <1>3, <2>1, <4>2 DEF Booked, InvoiceFits, PaidBy
        <4>4. PaymentFits(k)
          BY <1>3 DEF Booked
        <4> QED
          BY <4>2, <4>3, <4>4 DEF PaymentFits, PaysFor
      <3>2. CASE report.pc # 1
        <4>1. r \in report.invoices
          BY <2>1, <3>2, ReadChanges
        <4> QED
          BY <2>1, <4>1 DEF BooksInv, PaidRead
      <3> QED
        BY <3>1, <3>2
    <2>2. ASSUME NEW r \in report'.invoices, r.row.status = "paid", report'.pc = 6, now <= report.to
          PROVE  \E p \in report'.payments : PaysFor(p.row, r)
      <3>1. report.pc = 5
        BY <1>1, <2>2
      <3>2. report'.payments = Created(payments, report.from, report.to)
            /\ report'.invoices = report.invoices
        BY <3>1, ReadChanges
      <3>3. PICK k \in DOMAIN payments : PaysFor(payments[k], r)
        BY <2>1, <2>2
      <3>4. In(payments[k].created, report.from, report.to)
        <4>1. report.from <= r.row.created /\ r.row.created \in Int
          BY <2>2, <3>2, RowFields DEF BooksInv, InvoicesRead, InvoiceBooked, In
        <4>2. payments[k].created \in Int /\ now \in Int /\ report.from \in Int
          BY <1>3, StoredNow, RowFields, StoredRows DEF DashboardInv, ReportMade
        <4>3. report.to \in Int
          BY <1>1, DashboardAssumption DEF BooksInv, PeriodMade, To
        <4> QED
          BY <2>2, <3>3, <4>1, <4>2, <4>3 DEF In, PaysFor
      <3> QED
        BY <1>8, <3>2, <3>3, <3>4
    <2> QED
      BY <1>1, <2>1, <2>2 DEF PaidRead, PaysFor
  <1> QED
    BY <1>2, <1>4, <1>6, <1>7, <1>9, <1>10 DEF BooksInv

LEMMA BooksStep == DashboardInv /\ BooksInv /\ [DashboardStep]_dashboardVars => BooksInv'
  BY SameBooks, TablesBooks, PassBooks, AskBooks, ReadBooks DEF DashboardStep

LEMMA BooksInductive == Spec => [](EdgesInv /\ BooksInv)
  <1>1. Init => EdgesInv /\ BooksInv
    BY EdgesInit, BooksInit, ReportAssumption DEF Init
  <1>2. EdgesInv /\ BooksInv /\ [Next]_vars => (EdgesInv /\ BooksInv)'
    <2> SUFFICES ASSUME EdgesInv, BooksInv, [Next]_vars PROVE (EdgesInv /\ BooksInv)'
      OBVIOUS
    <2>1. EdgesInv'
      BY EdgesStep
    <2>2. [DashboardStep]_dashboardVars
      BY DEF Next, Reporting, Walking, Limiting, Calling, vars
    <2>3. BooksInv'
      BY <2>2, BooksStep DEF EdgesInv
    <2> QED
      BY <2>1, <2>3
  <1> QED
    BY <1>1, <1>2, PTL DEF Spec
-----------------------------------------------------------------------------
(* Fees and rates.                                                         *)

\* The fee is five percent, to half a unit; a larger amount has no smaller fee
\* and leaves no less.
LEMMA FeeNear ==
  ASSUME NEW a \in Nat
  PROVE  /\ fee(a) \in Nat /\ 200 * fee(a) <= 10 * a + 100 /\ 10 * a + 100 < 200 * fee(a) + 200
         /\ -50 <= 100 * fee(a) - 5 * a /\ 100 * fee(a) - 5 * a <= 50
  <1>1. fee(a) = (2 * (5 * a) + 100) \div (2 * 100)
    BY DEF fee, RoundDiv
  <1>2. PICK n \in Nat : n = 2 * (5 * a) + 100
    OBVIOUS
  <1>3. PICK q : q = n \div 200
    OBVIOUS
  <1>4. q \in Int /\ q * 200 <= n /\ n < q * 200 + 200
    BY <1>2, <1>3
  <1>5. fee(a) = q
    BY <1>1, <1>2, <1>3
  <1> QED
    BY <1>2, <1>4, <1>5

LEMMA FeeGrows ==
  ASSUME NEW a \in Nat, NEW b \in Nat, a <= b
  PROVE  fee(a) <= fee(b) /\ a - fee(a) <= b - fee(b)
  <1>1. PICK x \in Nat : x = fee(a)
    BY FeeNear
  <1>2. PICK y \in Nat : y = fee(b)
    BY FeeNear
  <1>3. /\ 200 * x <= 10 * a + 100 /\ 10 * a + 100 < 200 * x + 200
        /\ 200 * y <= 10 * b + 100 /\ 10 * b + 100 < 200 * y + 200
    BY <1>1, <1>2, FeeNear
  <1>4. a = b => x = y
    BY <1>1, <1>2
  <1>5. x <= y /\ a - x <= b - y
    BY <1>3, <1>4
  <1> QED
    BY <1>1, <1>2, <1>5

\* A share of a total.
LEMMA RateQuotient ==
  ASSUME NEW p \in Nat, NEW t \in Nat, t > 0, NEW d \in Nat, d = 2 * t
  PROVE  /\ rate(p, t) \in Int /\ rate(p, t) * d \in Int
         /\ rate(p, t) * d <= 2000 * p + t /\ 2000 * p + t < rate(p, t) * d + d
  <1>1. PICK n \in Nat : n = 2000 * p + t
    OBVIOUS
  <1>2. PICK a \in Nat : a = 1000 * p
    OBVIOUS
  <1>3. rate(p, t) = n \div d
    <2>1. rate(p, t) = RoundDiv(a, t)
      BY <1>2 DEF rate
    <2>2. a >= 0 /\ 2 * a + t = n
      BY <1>1, <1>2
    <2>3. RoundDiv(a, t) = (2 * a + t) \div (2 * t)
      BY <2>2 DEF RoundDiv
    <2>4. 2 * a + t = n /\ 2 * t = d
      BY <2>2
    <2> QED
      BY <2>1, <2>3, <2>4
  <1>4. d > 0
    OBVIOUS
  <1>5. n \div d \in Int /\ (n \div d) * d \in Int /\ (n \div d) * d <= n /\ n < (n \div d) * d + d
    BY <1>4, Divided
  <1> QED
    BY <1>1, <1>3, <1>5

LEMMA RateBounded ==
  ASSUME NEW p \in Nat, NEW t \in Nat, p <= t
  PROVE  rate(p, t) \in 0 .. 1000
  <1>1. CASE t = 0
    BY <1>1 DEF rate
  <1>2. CASE t > 0
    <2> PICK d \in Nat : d = 2 * t
      OBVIOUS
    <2>1. /\ d = 2 * t /\ rate(p, t) \in Int /\ rate(p, t) * d \in Int
          /\ rate(p, t) * d <= 2000 * p + t /\ 2000 * p + t < rate(p, t) * d + d
      BY <1>2, RateQuotient
    <2>2. PICK q \in Int : q = rate(p, t)
      BY <2>1
    <2>3. PICK m \in Int : m = q * d
      BY <2>1, <2>2
    <2>4. d > 0 /\ m <= 2000 * p + t /\ 2000 * p + t < m + d
      BY <1>2, <2>1, <2>2, <2>3
    <2>5. m < 1001 * d /\ m > -d
      BY <2>1, <2>4
    <2>6. q < 1001
      BY <2>3, <2>4, <2>5
    <2>7. q > -1
      BY <2>3, <2>4, <2>5
    <2> QED
      BY <2>2, <2>6, <2>7
  <1> QED
    BY <1>1, <1>2

LEMMA RateEnds ==
  ASSUME NEW t \in Nat, t > 0
  PROVE  rate(0, t) = 0 /\ rate(t, t) = 1000
  <1> PICK d \in Nat : d = 2 * t
    OBVIOUS
  <1>1. PICK x \in Int : x = rate(0, t)
    BY RateQuotient
  <1>2. PICK y \in Int : y = rate(t, t)
    BY RateQuotient
  <1>3. x * d <= t /\ t < x * d + d /\ x * d \in Int
    BY <1>1, RateQuotient
  <1>4. y * d <= 2001 * t /\ 2001 * t < y * d + d /\ y * d \in Int
    BY <1>2, RateQuotient
  <1>5. x < 1 /\ x > -1
    BY <1>3
  <1>6. y < 1001 /\ y > 999
    BY <1>4
  <1> QED
    BY <1>1, <1>2, <1>5, <1>6

LEMMA TwoRates ==
  ASSUME NEW p \in Nat, NEW q \in Nat, NEW t \in Nat, p + q <= t
  PROVE  rate(p, t) + rate(q, t) <= 1001
  <1>1. CASE t = 0
    BY <1>1 DEF rate
  <1>2. CASE t > 0
    <2> PICK d \in Nat : d = 2 * t
      OBVIOUS
    <2>1. /\ d = 2 * t /\ rate(p, t) \in Int /\ rate(p, t) * d \in Int
          /\ rate(p, t) * d <= 2000 * p + t /\ 2000 * p + t < rate(p, t) * d + d
      BY <1>2, RateQuotient
    <2>2. /\ rate(q, t) \in Int /\ rate(q, t) * d \in Int
          /\ rate(q, t) * d <= 2000 * q + t /\ 2000 * q + t < rate(q, t) * d + d
      BY <1>2, RateQuotient
    <2>3. PICK x \in Int : x = rate(p, t)
      BY <2>1
    <2>4. PICK y \in Int : y = rate(q, t)
      BY <2>2
    <2>5. PICK z \in Int : z = x + y
      OBVIOUS
    <2>6. z * d = x * d + y * d
      BY <2>5
    <2>7. z * d <= 1001 * d
      BY <2>1, <2>2, <2>3, <2>4, <2>6
    <2>8. z <= 1001
      BY <1>2, <2>1, <2>7
    <2> QED
      BY <2>3, <2>4, <2>5, <2>8
  <1> QED
    BY <1>1, <1>2

\* Growth has the sign of the change, or is none.
LEMMA GrowthSign ==
  ASSUME NEW c \in Nat, NEW p \in Nat
  PROVE  /\ growthPercent(c, p) > 0 => c > p
         /\ growthPercent(c, p) < 0 => c < p
  <1>1. CASE p = 0
    BY <1>1 DEF growthPercent
  <1>2. CASE p > 0
    <2>1. growthPercent(c, p) = RoundDiv(1000 * (c - p), p)
      BY <1>2 DEF growthPercent
    <2>2. PICK a \in Int : a = 1000 * (c - p)
      OBVIOUS
    <2>3. PICK d \in Nat : d = 2 * p /\ d > 0
      BY <1>2
    <2>4. ASSUME a >= 0
          PROVE  /\ RoundDiv(a, p) \in Int /\ RoundDiv(a, p) >= 0
                 /\ a = 0 => RoundDiv(a, p) = 0
      <3>1. PICK n \in Nat : n = 2 * a + p
        BY <2>4
      <3>2. RoundDiv(a, p) = n \div d
        BY <2>3, <2>4, <3>1 DEF RoundDiv
      <3>3. PICK q \in Int : q = n \div d
        BY <2>3, Divided
      <3>4. q * d <= n /\ n < q * d + d
        BY <2>3, <3>3, Divided
      <3>5. q > -1
        BY <2>3, <3>1, <3>4
      <3>6. ASSUME a = 0 PROVE q < 1
        <4>1. n < d
          BY <1>2, <2>3, <3>1, <3>6
        <4> QED
          BY <2>3, <3>4, <4>1
      <3> QED
        BY <3>2, <3>3, <3>5, <3>6
    <2>5. ASSUME a < 0 PROVE RoundDiv(a, p) \in Int /\ RoundDiv(a, p) <= 0
      <3>1. PICK n \in Nat : n = p - 2 * a
        BY <2>5
      <3>2. RoundDiv(a, p) = -(n \div d)
        BY <2>3, <2>5, <3>1 DEF RoundDiv
      <3>3. PICK q \in Int : q = n \div d
        BY <2>3, Divided
      <3>4. q * d <= n /\ n < q * d + d
        BY <2>3, <3>3, Divided
      <3>5. q > -1
        BY <2>3, <3>1, <3>4
      <3> QED
        BY <3>2, <3>3, <3>5
    <2> QED
      BY <2>1, <2>2, <2>4, <2>5
  <1> QED
    BY <1>1, <1>2
-----------------------------------------------------------------------------
(* Rows of invoices.                                                       *)

InvoicesBooked(rows) == IsFiniteSet(rows) /\ \A i \in rows : InvoiceBooked(i.row)

\* What invoices ask for.
DueOf(rows) == [i \in rows |-> i.row.due]

LEMMA InvoiceAmounts ==
  ASSUME NEW i, InvoiceBooked(i.row)
  PROVE  /\ i.row.due \in Nat /\ i.row.due > 0 /\ i.row.status \in InvoiceStatuses
         /\ i.row.buyer \in Buyers /\ i.row.created \in Int
         /\ i.row.status = "paid" => PaidAmount(i) = i.row.due /\ i.row.paid = i.row.due
         /\ Owed(i) = i.row.due
  <1>1. i.row \in InvoiceRows /\ i.row.due \in Nat /\ i.row.due > 0
    BY DEF InvoiceBooked
  <1>2. i.row.status = "paid" => i.row.paid = i.row.due
    BY DEF InvoiceBooked
  <1>3. i.row.paid \in {0, i.row.due}
    BY DEF InvoiceBooked
  <1>4. i.row.status \in InvoiceStatuses /\ i.row.buyer \in Buyers /\ i.row.created \in Int
    BY <1>1, RowFields
  <1>5. i.row.status = "paid" => PaidAmount(i) = i.row.due
    BY <1>1, <1>2 DEF PaidAmount
  <1>6. Owed(i) = i.row.due
    BY <1>1, <1>3 DEF Owed
  <1> QED
    BY <1>1, <1>2, <1>4, <1>5, <1>6

LEMMA PartBooked ==
  ASSUME NEW rows, InvoicesBooked(rows), NEW part \in SUBSET rows
  PROVE  InvoicesBooked(part) /\ IsFiniteSet(part)
  BY FS_Subset DEF InvoicesBooked

LEMMA WithPart == ASSUME NEW status, NEW rows PROVE With(status, rows) \in SUBSET rows
  BY DEF With

\* Revenue is what the paid invoices ask for.
LEMMA PaidSum ==
  ASSUME NEW rows, InvoicesBooked(rows), NEW f, \A i \in rows : f[i] = i.row.due
  PROVE  sumPaidInvoices(rows) = Sum(f, With("paid", rows))
  <1>1. With("paid", rows) \in SUBSET rows /\ IsFiniteSet(With("paid", rows))
    BY WithPart, PartBooked
  <1>2. PICK S : S = With("paid", rows)
    OBVIOUS
  <1>3. PICK h : h = [i \in S |-> PaidAmount(i)]
    OBVIOUS
  <1>4. ASSUME NEW i \in S PROVE h[i] = f[i]
    <2>1. i \in rows /\ i.row.status = "paid" /\ InvoiceBooked(i.row)
      BY <1>2 DEF With, InvoicesBooked
    <2>2. PaidAmount(i) = f[i]
      BY <2>1, InvoiceAmounts
    <2> QED
      BY <1>3, <2>2
  <1>5. DOMAIN h = S /\ IsFiniteSet(S)
    BY <1>1, <1>2, <1>3
  <1>6. SumFunction(h) = Sum(f, S)
    BY <1>4, <1>5, SumOver
  <1> QED
    BY <1>2, <1>3, <1>6 DEF sumPaidInvoices

LEMMA DueType ==
  ASSUME NEW rows, InvoicesBooked(rows), NEW f, \A i \in rows : f[i] = i.row.due,
         NEW part \in SUBSET rows
  PROVE  /\ IsFiniteSet(part) /\ \A i \in part : f[i] \in Nat /\ f[i] \in Int
         /\ Sum(f, part) \in Nat /\ Sum(f, part) <= Sum(f, rows)
  <1>1. IsFiniteSet(part) /\ IsFiniteSet(rows) /\ \A i \in rows : f[i] \in Nat /\ f[i] \in Int
    BY PartBooked, InvoiceAmounts DEF InvoicesBooked
  <1>2. Sum(f, part) \in Int
    BY <1>1, SumInt
  <1>3. 0 <= Sum(f, part) /\ Sum(f, part) <= Sum(f, rows)
    BY <1>1, SumPart
  <1> QED
    BY <1>1, <1>2, <1>3

\* Every invoice is revenue, outstanding or aside.
LEMMA RevenueParts ==
  ASSUME NEW rows, InvoicesBooked(rows)
  PROVE  sumPaidInvoices(rows) + outstandingInvoices(rows).amount
           + SumFunction([i \in With("draft", rows) \cup With("refunded", rows) |-> Due(i)])
           = SumFunction([i \in rows |-> Due(i)])
  <1>1. PICK f : f = DueOf(rows)
    OBVIOUS
  <1>2. IsFiniteSet(rows) /\ \A i \in rows : f[i] = i.row.due
    BY <1>1 DEF DueOf, InvoicesBooked
  <1>3. PICK A : A = With("paid", rows)
    OBVIOUS
  <1>4. PICK B : B = With("open", rows) \cup With("failed", rows)
    OBVIOUS
  <1>5. PICK C : C = With("draft", rows) \cup With("refunded", rows)
    OBVIOUS
  <1>6. A \in SUBSET rows /\ B \in SUBSET rows /\ C \in SUBSET rows
    BY <1>3, <1>4, <1>5 DEF With
  <1>7. IsFiniteSet(A) /\ IsFiniteSet(B) /\ IsFiniteSet(C)
    BY <1>6, PartBooked
  <1>8. A \cap B = {} /\ (A \cup B) \cap C = {}
    BY <1>3, <1>4, <1>5 DEF With
  <1>9. rows = (A \cup B) \cup C
    <2>1. \A i \in rows : i.row.status \in InvoiceStatuses
      BY InvoiceAmounts DEF InvoicesBooked
    <2> QED
      BY <2>1, <1>3, <1>4, <1>5 DEF With, InvoiceStatuses
  <1>10. Sum(f, rows) = Sum(f, A) + Sum(f, B) + Sum(f, C)
    <2>1. PICK D : D = A \cup B
      OBVIOUS
    <2>2. IsFiniteSet(D)
      BY <1>7, <2>1, FS_Union
    <2>3. \A i \in A \cup B : f[i] \in Int
      BY <1>2, <1>6, DueType
    <2>4. Sum(f, D) = Sum(f, A) + Sum(f, B)
      BY <1>7, <1>8, <2>1, <2>3, SumUnion
    <2>5. \A i \in D \cup C : f[i] \in Int
      BY <1>2, <1>6, <2>1, DueType
    <2>6. D \cap C = {} /\ rows = D \cup C
      BY <1>8, <1>9, <2>1
    <2>7. Sum(f, D \cup C) = Sum(f, D) + Sum(f, C)
      BY <1>7, <2>2, <2>5, <2>6, SumUnion
    <2> QED
      BY <2>4, <2>6, <2>7
  <1>11. sumPaidInvoices(rows) = Sum(f, A)
    BY <1>2, <1>3, PaidSum
  <1>12. outstandingInvoices(rows).amount = Sum(f, B)
    <2>1. PICK h : h = [r \in B |-> Owed(r)]
      OBVIOUS
    <2>2. ASSUME NEW i \in B PROVE h[i] = f[i]
      <3>1. i \in rows /\ InvoiceBooked(i.row)
        BY <1>4 DEF With, InvoicesBooked
      <3>2. Owed(i) = f[i]
        BY <1>2, <3>1, InvoiceAmounts
      <3> QED
        BY <2>1, <3>2
    <2>3. DOMAIN h = B
      BY <2>1
    <2>4. SumFunction(h) = Sum(f, B)
      BY <1>7, <2>2, <2>3, SumOver
    <2> QED
      BY <1>4, <2>1, <2>4 DEF outstandingInvoices
  <1>13. SumFunction([i \in With("draft", rows) \cup With("refunded", rows) |-> Due(i)]) = Sum(f, C)
    <2>1. PICK h : h = [i \in C |-> Due(i)]
      OBVIOUS
    <2>2. DOMAIN h = C /\ \A i \in C : h[i] = f[i]
      BY <1>2, <1>6, <2>1 DEF Due
    <2>3. SumFunction(h) = Sum(f, C)
      BY <1>7, <2>2, SumOver
    <2> QED
      BY <1>5, <2>1, <2>3
  <1>14. SumFunction([i \in rows |-> Due(i)]) = Sum(f, rows)
    <2>1. PICK h : h = [i \in rows |-> Due(i)]
      OBVIOUS
    <2>2. DOMAIN h = rows /\ \A i \in rows : h[i] = f[i]
      BY <1>2, <2>1 DEF Due
    <2>3. SumFunction(h) = Sum(f, rows)
      BY <1>2, <2>2, SumOver
    <2> QED
      BY <2>1, <2>3
  <1> QED
    BY <1>10, <1>11, <1>12, <1>13, <1>14
-----------------------------------------------------------------------------
(* The points of the trend.                                                *)

LEMMA ReadyFacts ==
  ASSUME DashboardInv, BooksInv, Ready
  PROVE  /\ report.pc = 6 /\ InvoicesBooked(report.invoices) /\ InvoicesBooked(report.previous)
         /\ Period[1] \in Nat /\ Period[2] \in Nat /\ Period[1] <= Period[2]
         /\ Day \in Nat /\ Day > 0 /\ Behind \in Nat /\ Behind < Day
         /\ report.from = Period[1] * Day /\ report.to = Period[2] * Day + Day - 1
         /\ report.from \in Int /\ report.to \in Int
         /\ \A i \in report.invoices : report.from <= i.row.created /\ i.row.created <= report.to
  <1>1. report.pc = 6
    BY ReadsTables DEF Ready
  <1>2. InvoicesBooked(report.invoices) /\ InvoicesBooked(report.previous)
    BY DEF BooksInv, InvoicesRead, Unique, InvoicesBooked
  <1>3. /\ Period[1] \in Nat /\ Period[2] \in Nat /\ Period[1] <= Period[2]
        /\ Day \in Nat /\ Day > 0 /\ Behind \in Nat /\ Behind < Day
    BY DashboardAssumption
  <1>4. report.from = Period[1] * Day /\ report.to = Period[2] * Day + Day - 1
    BY <1>1 DEF BooksInv, PeriodMade, From, To
  <1>5. report.from \in Int /\ report.to \in Int
    BY <1>3, <1>4
  <1>6. \A i \in report.invoices : report.from <= i.row.created /\ i.row.created <= report.to
    BY DEF BooksInv, InvoicesRead, In
  <1> QED
    BY <1>1, <1>2, <1>3, <1>4, <1>5, <1>6

\* The points are the days of the request.
LEMMA PointsDays ==
  ASSUME DashboardInv, BooksInv, Ready
  PROVE  /\ Points(report) = Period[1] .. Period[2] /\ IsFiniteSet(Points(report))
  <1>1. PICK p \in Nat : p = Period[1]
    BY ReadyFacts
  <1>2. PICK q \in Nat : q = Period[2]
    BY ReadyFacts
  <1>3. Day \in Nat /\ Day > 0
    BY ReadyFacts
  <1>4. PICK t \in Int : t = q * Day + Day - 1
    BY <1>3
  <1>5. (p * Day) \div Day = p
    BY <1>3, DividedBelow
  <1>6. t \div Day = q
    <2>1. q * Day \in Int /\ q * Day <= t
      BY <1>3, <1>4
    <2>2. PICK s \in Int : s = q + 1
      OBVIOUS
    <2>3. s * Day = q * Day + Day
      BY <1>3, <2>2
    <2>4. t < s * Day
      BY <1>3, <1>4, <2>1, <2>3
    <2>5. q <= t \div Day
      BY <1>3, <2>1, DividedBelow
    <2>6. t \div Day < s
      BY <1>3, <2>4, DividedBelow
    <2>7. t \div Day \in Int
      BY <1>3, Divided
    <2> QED
      BY <2>2, <2>5, <2>6, <2>7
  <1>7. report.from = p * Day /\ report.to = t
    BY <1>1, <1>2, <1>4, ReadyFacts
  <1>8. Points(report) = p .. q
    BY <1>5, <1>6, <1>7 DEF Points
  <1>9. IsFiniteSet(p .. q)
    BY FS_Interval
  <1> QED
    BY <1>1, <1>2, <1>8, <1>9

\* A time of the period has a point unless it is of the first hours.
LEMMA PointOf ==
  ASSUME DashboardInv, BooksInv, Ready, NEW t \in Int, report.from <= t, t <= report.to
  PROVE  RowDay(t) \in Points(report) <=> ~(t < report.from + Behind)
  <1>1. PICK p \in Nat : p = Period[1]
    BY ReadyFacts
  <1>2. PICK q \in Nat : q = Period[2]
    BY ReadyFacts
  <1>3. Day \in Nat /\ Day > 0 /\ Behind \in Nat
    BY ReadyFacts
  <1>4. PICK s \in Int : s = t - Behind
    BY <1>3
  <1>5. PICK d \in Int : d = s \div Day
    BY <1>3, Divided
  <1>6. RowDay(t) = d /\ Points(report) = p .. q
    BY <1>1, <1>2, <1>4, <1>5, PointsDays DEF RowDay
  <1>7. report.from = p * Day /\ p * Day \in Int
    BY <1>1, <1>3, ReadyFacts
  <1>8. d <= q
    <2>1. PICK e \in Int : e = q + 1
      OBVIOUS
    <2>2. e * Day = q * Day + Day /\ q * Day \in Int
      BY <1>3, <2>1
    <2>3. s < e * Day
      BY <1>2, <1>3, <1>4, <2>2, ReadyFacts
    <2>4. d < e
      BY <1>3, <1>5, <2>3, DividedBelow
    <2> QED
      BY <2>1, <2>4
  <1>9. ASSUME t < report.from + Behind PROVE d < p
    <2>1. s < p * Day
      BY <1>3, <1>4, <1>7, <1>9
    <2> QED
      BY <1>3, <1>5, <2>1, DividedBelow
  <1>10. ASSUME ~(t < report.from + Behind) PROVE p <= d
    <2>1. p * Day <= s
      BY <1>3, <1>4, <1>7, <1>10
    <2> QED
      BY <1>3, <1>5, <2>1, DividedBelow
  <1> QED
    BY <1>6, <1>8, <1>9, <1>10

\* What has a point is not before the period.
LEMMA PointSince ==
  ASSUME DashboardInv, BooksInv, Ready, NEW t \in Int, RowDay(t) \in Points(report)
  PROVE  report.from <= t
  <1>1. PICK p \in Nat : p = Period[1]
    BY ReadyFacts
  <1>2. Day \in Nat /\ Day > 0 /\ Behind \in Nat
    BY ReadyFacts
  <1>3. PICK s \in Int : s = t - Behind
    BY <1>2
  <1>4. PICK d \in Int : d = s \div Day
    BY <1>2, Divided
  <1>5. p <= d
    BY <1>1, <1>3, <1>4, PointsDays, ReadyFacts DEF RowDay
  <1>6. report.from = p * Day /\ p * Day \in Int
    BY <1>1, <1>2, ReadyFacts
  <1>7. ~(s < p * Day)
    <2>1. SUFFICES ASSUME s < p * Day PROVE FALSE
      OBVIOUS
    <2>2. d < p
      BY <1>2, <1>4, <2>1, DividedBelow
    <2> QED
      BY <1>5, <2>2
  <1> QED
    BY <1>2, <1>3, <1>6, <1>7

\* The rows of a set on a day, and those after the first hours.
OnDay(S, d) == {x \in S : RowDay(x.row.created) = d}
Late(S) == {x \in S : ~(x.row.created < report.from + Behind)}

LEMMA TrendSum ==
  ASSUME DashboardInv, BooksInv, Ready, NEW S, IsFiniteSet(S),
         \A x \in S : /\ x.row.created \in Int /\ report.from <= x.row.created
                      /\ x.row.created <= report.to,
         NEW f, \A x \in S : f[x] \in Int,
         NEW g, \A d \in Points(report) : g[d] = Sum(f, OnDay(S, d))
  PROVE  Sum(g, Points(report)) = Sum(f, Late(S))
  <1>1. PICK L : L = Late(S)
    OBVIOUS
  <1>2. PICK key : key = [x \in L |-> RowDay(x.row.created)]
    OBVIOUS
  <1>3. L \in SUBSET S /\ IsFiniteSet(L)
    BY <1>1, FS_Subset DEF Late
  <1>4. \A x \in S : RowDay(x.row.created) \in Points(report) <=> x \in L
    BY <1>1, PointOf DEF Late
  <1>5. \A x \in L : key[x] \in Points(report) /\ f[x] \in Int
    BY <1>2, <1>3, <1>4
  <1>6. ASSUME NEW d \in Points(report) PROVE g[d] = Sum(f, Fiber(L, key, d))
    <2>1. OnDay(S, d) = Fiber(L, key, d)
      BY <1>2, <1>3, <1>4 DEF OnDay, Fiber
    <2> QED
      BY <2>1
  <1>7. IsFiniteSet(Points(report))
    BY PointsDays
  <1>8. PICK K : K = Points(report)
    OBVIOUS
  <1>9. IsFiniteSet(K) /\ (\A x \in L : key[x] \in K /\ f[x] \in Int)
        /\ \A d \in K : g[d] = Sum(f, Fiber(L, key, d))
    BY <1>5, <1>6, <1>7, <1>8
  <1>10. Sum(g, K) = Sum(f, L)
    BY <1>3, <1>9, SumFibers
  <1> QED
    BY <1>1, <1>8, <1>10
-----------------------------------------------------------------------------
(* Revenue.                                                                *)

\* The revenue of the points, and the fees of their invoices.
LEMMA TrendRevenue ==
  ASSUME DashboardInv, BooksInv, Ready, NEW f, f = DueOf(report.invoices),
         NEW S, S = With("paid", report.invoices)
  PROVE  /\ SumFunction([d \in Points(report) |-> TrendGross(d, report)]) = Sum(f, Late(S))
         /\ \A h : (\A x \in S : h[x] = fee(f[x])) =>
              SumFunction([d \in Points(report) |-> TrendFees(d, report)]) = Sum(h, Late(S))
  <1>1. InvoicesBooked(report.invoices) /\ S \in SUBSET report.invoices /\ IsFiniteSet(S)
    BY ReadyFacts, WithPart, PartBooked
  <1>2. \A x \in S : /\ x.row.created \in Int /\ report.from <= x.row.created
                     /\ x.row.created <= report.to /\ InvoiceBooked(x.row)
                     /\ x.row.status = "paid" /\ f[x] = x.row.due
    <2>1. \A x \in S : x \in report.invoices /\ InvoiceBooked(x.row) /\ x.row.status = "paid"
      BY <1>1 DEF InvoicesBooked, With
    <2>2. \A x \in S : f[x] = x.row.due
      BY <2>1 DEF DueOf
    <2> QED
      BY <2>1, <2>2, ReadyFacts, InvoiceAmounts
  <1>3. \A x \in S : PaidAmount(x) = f[x] /\ f[x] \in Nat
    BY <1>2, InvoiceAmounts
  <1>4. \A d : PaidOn(d, report) = OnDay(S, d) /\ IsFiniteSet(OnDay(S, d))
               /\ OnDay(S, d) \in SUBSET S
    BY <1>1, FS_Subset DEF PaidOn, OnDay
  <1>5. IsFiniteSet(Points(report))
    BY PointsDays
  <1>6. SumFunction([d \in Points(report) |-> TrendGross(d, report)]) = Sum(f, Late(S))
    <2>1. PICK g : g = [d \in Points(report) |-> TrendGross(d, report)]
      OBVIOUS
    <2>2. ASSUME NEW d \in Points(report) PROVE g[d] = Sum(f, OnDay(S, d))
      <3>1. PICK h : h = [i \in PaidOn(d, report) |-> PaidAmount(i)]
        OBVIOUS
      <3>2. DOMAIN h = OnDay(S, d) /\ \A i \in OnDay(S, d) : h[i] = f[i]
        BY <1>3, <1>4, <3>1
      <3>3. SumFunction(h) = Sum(f, OnDay(S, d))
        BY <1>4, <3>2, SumOver
      <3> QED
        BY <2>1, <3>1, <3>3 DEF TrendGross
    <2>3. DOMAIN g = Points(report)
      BY <2>1
    <2>4. SumFunction(g) = Sum(g, Points(report))
      BY <1>5, <2>3, SumFunctionSum
    <2>5. \A x \in S : f[x] \in Int
      BY <1>3
    <2>6. Sum(g, Points(report)) = Sum(f, Late(S))
      BY <1>1, <1>2, <2>2, <2>5, TrendSum
    <2> QED
      BY <2>1, <2>4, <2>6
  <1>7. ASSUME NEW e, \A x \in S : e[x] = fee(f[x])
        PROVE  SumFunction([d \in Points(report) |-> TrendFees(d, report)]) = Sum(e, Late(S))
    <2>1. PICK g : g = [d \in Points(report) |-> TrendFees(d, report)]
      OBVIOUS
    <2>2. ASSUME NEW d \in Points(report) PROVE g[d] = Sum(e, OnDay(S, d))
      <3>1. PICK h : h = [i \in PaidOn(d, report) |-> InvoiceFee(i)]
        OBVIOUS
      <3>2. ASSUME NEW i \in OnDay(S, d) PROVE h[i] = e[i]
        <4>1. i \in S /\ h[i] = fee(PaidAmount(i))
          BY <1>4, <3>1 DEF InvoiceFee
        <4> QED
          BY <1>3, <1>7, <4>1
      <3>3. DOMAIN h = OnDay(S, d)
        BY <1>4, <3>1
      <3>4. SumFunction(h) = Sum(e, OnDay(S, d))
        BY <1>4, <3>2, <3>3, SumOver
      <3> QED
        BY <2>1, <3>1, <3>4 DEF TrendFees
    <2>3. DOMAIN g = Points(report)
      BY <2>1
    <2>4. SumFunction(g) = Sum(g, Points(report))
      BY <1>5, <2>3, SumFunctionSum
    <2>5. \A x \in S : e[x] \in Int
      BY <1>3, <1>7, FeeNear
    <2>6. Sum(g, Points(report)) = Sum(e, Late(S))
      BY <1>1, <1>2, <2>2, <2>5, TrendSum
    <2> QED
      BY <2>1, <2>4, <2>6
  <1> QED
    BY <1>6, <1>7

\* Rounding fees one by one moves their sum by at most half a unit each.
LEMMA FeesNear ==
  ASSUME NEW S, IsFiniteSet(S), NEW f, NEW e, \A x \in S : f[x] \in Nat /\ e[x] = fee(f[x])
  PROVE  /\ Sum(f, S) \in Nat /\ Sum(e, S) \in Int
         /\ 2 * (Sum(e, S) - fee(Sum(f, S))) \in -Cardinality(S) - 1 .. Cardinality(S) + 1
  <1>1. \A x \in S : f[x] \in Int /\ e[x] \in Int
    BY FeeNear
  <1>2. PICK total \in Int : total = Sum(f, S)
    BY <1>1, SumInt
  <1>3. PICK fees \in Int : fees = Sum(e, S)
    BY <1>1, SumInt
  <1>4. total \in Nat
    <2>1. S \in SUBSET S
      OBVIOUS
    <2>2. 0 <= Sum(f, S)
      BY <2>1, SumPart
    <2> QED
      BY <1>2, <2>2
  <1>5. PICK n \in Nat : n = Cardinality(S)
    BY FS_CardinalityType
  <1>6. PICK a \in Int : a = 100
    OBVIOUS
  <1>7. PICK b \in Int : b = 5
    OBVIOUS
  <1>8. PICK low \in Int : low = -50
    OBVIOUS
  <1>9. PICK high \in Int : high = 50
    OBVIOUS
  <1>10. ASSUME NEW x \in S
         PROVE  low <= a * e[x] - b * f[x] /\ a * e[x] - b * f[x] <= high
    <2>1. PICK v \in Nat : v = f[x]
      OBVIOUS
    <2>2. PICK w \in Nat : w = fee(v)
      BY FeeNear
    <2>3. -50 <= 100 * w - 5 * v /\ 100 * w - 5 * v <= 50
      BY <2>2, FeeNear
    <2>4. e[x] = w
      BY <2>1, <2>2
    <2> QED
      BY <1>6, <1>7, <1>8, <1>9, <2>1, <2>3, <2>4
  <1>11. /\ low * Cardinality(S) <= a * Sum(e, S) - b * Sum(f, S)
         /\ a * Sum(e, S) - b * Sum(f, S) <= high * Cardinality(S)
    BY <1>1, <1>10, SumNear
  <1>12. -50 * n <= 100 * fees - 5 * total /\ 100 * fees - 5 * total <= 50 * n
    BY <1>2, <1>3, <1>5, <1>6, <1>7, <1>8, <1>9, <1>11
  <1>13. PICK w \in Nat : w = fee(total)
    BY <1>4, FeeNear
  <1>14. -50 <= 100 * w - 5 * total /\ 100 * w - 5 * total <= 50
    BY <1>4, <1>13, FeeNear
  <1>15. 2 * (fees - w) \in -n - 1 .. n + 1
    BY <1>12, <1>14
  <1> QED
    BY <1>2, <1>3, <1>4, <1>5, <1>13, <1>15

\* The trend misses the revenue of the first hours.
LEMMA TrendMisses ==
  ASSUME DashboardInv, BooksInv, Ready,
         NEW early, early = {i \in report.invoices : i.row.created < report.from + Behind}
  PROVE  /\ SumFunction([d \in Points(report) |-> TrendGross(d, report)])
              = Gross(report) - sumPaidInvoices(early)
         /\ early = {} => 2 * (SumFunction([d \in Points(report) |-> TrendFees(d, report)])
                                 - fee(Gross(report)))
                            \in -Cardinality(With("paid", report.invoices)) - 1
                                  .. Cardinality(With("paid", report.invoices)) + 1
  <1>1. PICK f : f = DueOf(report.invoices)
    OBVIOUS
  <1>2. PICK S : S = With("paid", report.invoices)
    OBVIOUS
  <1>3. InvoicesBooked(report.invoices) /\ \A i \in report.invoices : f[i] = i.row.due
    BY <1>1, ReadyFacts DEF DueOf
  <1>4. S \in SUBSET report.invoices /\ IsFiniteSet(S)
    BY <1>2, <1>3, WithPart, PartBooked
  <1>5. \A x \in S : f[x] \in Nat /\ f[x] \in Int
    BY <1>3, <1>4, DueType
  <1>6. Gross(report) = Sum(f, S)
    BY <1>2, <1>3, PaidSum DEF Gross
  <1>7. PICK L : L = Late(S)
    OBVIOUS
  <1>8. PICK E : E = With("paid", early)
    OBVIOUS
  <1>9. S = L \cup E /\ L \cap E = {} /\ L \in SUBSET S /\ E \in SUBSET S
    BY <1>2, <1>7, <1>8 DEF Late, With
  <1>10. IsFiniteSet(L) /\ IsFiniteSet(E)
    BY <1>4, <1>9, FS_Subset
  <1>11. Sum(f, S) = Sum(f, L) + Sum(f, E)
    BY <1>5, <1>9, <1>10, SumUnion
  <1>12. Sum(f, L) \in Int /\ Sum(f, E) \in Int
    BY <1>5, <1>9, <1>10, SumInt
  <1>13. sumPaidInvoices(early) = Sum(f, E)
    <2>1. early \in SUBSET report.invoices
      OBVIOUS
    <2>2. InvoicesBooked(early) /\ \A i \in early : f[i] = i.row.due
      BY <1>3, <2>1, PartBooked
    <2> QED
      BY <1>8, <2>2, PaidSum
  <1>14. SumFunction([d \in Points(report) |-> TrendGross(d, report)]) = Sum(f, L)
    BY <1>1, <1>2, <1>7, TrendRevenue
  <1>15. SumFunction([d \in Points(report) |-> TrendGross(d, report)])
           = Gross(report) - sumPaidInvoices(early)
    BY <1>6, <1>11, <1>12, <1>13, <1>14
  <1>16. ASSUME early = {}
         PROVE  2 * (SumFunction([d \in Points(report) |-> TrendFees(d, report)]) - fee(Gross(report)))
                  \in -Cardinality(S) - 1 .. Cardinality(S) + 1
    <2>1. E = {} /\ L = S
      BY <1>8, <1>9, <1>16 DEF With
    <2>2. PICK e : e = [x \in S |-> fee(f[x])]
      OBVIOUS
    <2>3. \A x \in S : e[x] = fee(f[x])
      BY <2>2
    <2>4. SumFunction([d \in Points(report) |-> TrendFees(d, report)]) = Sum(e, S)
      BY <1>1, <1>2, <1>7, <2>1, <2>3, TrendRevenue
    <2>5. \A x \in S : f[x] \in Nat /\ e[x] = fee(f[x])
      BY <1>5, <2>3
    <2>6. 2 * (Sum(e, S) - fee(Sum(f, S))) \in -Cardinality(S) - 1 .. Cardinality(S) + 1
      BY <1>4, <2>5, FeesNear
    <2> QED
      BY <1>6, <2>4, <2>6
  <1> QED
    BY <1>2, <1>15, <1>16

AmountOf(rows) == [p \in rows |-> p.row.amount]

LEMMA PaymentAmounts ==
  ASSUME NEW p, PaymentBooked(p.row)
  PROVE  /\ p.row.amount \in Nat /\ p.row.amount > 0 /\ p.row.plan \in Plans
         /\ p.row.method \in PaymentMethods /\ p.row.created \in Int /\ Amount(p) = p.row.amount
  <1>1. p.row \in PaymentRows
    BY DEF PaymentBooked
  <1> QED
    BY <1>1, RowFields DEF PaymentBooked, Amount

\* The amounts of some payments.
LEMMA AmountSum ==
  ASSUME NEW rows, IsFiniteSet(rows), \A p \in rows : PaymentBooked(p.row),
         NEW f, f = AmountOf(rows), NEW S \in SUBSET rows
  PROVE  /\ IsFiniteSet(S) /\ (\A p \in S : f[p] \in Nat /\ f[p] \in Int /\ f[p] > 0)
         /\ SumFunction([p \in S |-> Amount(p)]) = Sum(f, S)
         /\ Sum(f, S) \in Nat
  <1>1. IsFiniteSet(S) /\ S \in SUBSET S
    BY FS_Subset
  <1>2. \A p \in S : f[p] = p.row.amount /\ Amount(p) = f[p] /\ f[p] \in Nat /\ f[p] \in Int /\ f[p] > 0
    BY PaymentAmounts DEF AmountOf
  <1>3. PICK h : h = [p \in S |-> Amount(p)]
    OBVIOUS
  <1>4. DOMAIN h = S /\ \A p \in S : h[p] = f[p]
    BY <1>2, <1>3
  <1>5. SumFunction(h) = Sum(f, S)
    BY <1>1, <1>4, SumOver
  <1>6. Sum(f, S) \in Int
    BY <1>1, <1>2, SumInt
  <1>7. 0 <= Sum(f, S)
    BY <1>1, <1>2, SumPart
  <1> QED
    BY <1>1, <1>2, <1>3, <1>5, <1>6, <1>7

\* What is revenue has a payment in the report.
LEMMA RevenueReceived ==
  ASSUME DashboardInv, BooksInv, Ready, now <= report.to,
         NEW received,
         received = {p \in report.payments : p.row.status \in Received}
  PROVE  Gross(report) <= SumFunction([p \in received |-> Amount(p)])
  <1>1. PICK f : f = DueOf(report.invoices)
    OBVIOUS
  <1>2. PICK S : S = With("paid", report.invoices)
    OBVIOUS
  <1>3. InvoicesBooked(report.invoices) /\ \A i \in report.invoices : f[i] = i.row.due
    BY <1>1, ReadyFacts DEF DueOf
  <1>4. S \in SUBSET report.invoices /\ IsFiniteSet(S)
    BY <1>2, <1>3, WithPart, PartBooked
  <1>5. \A x \in S : f[x] \in Int /\ f[x] = x.row.due
    BY <1>3, <1>4, DueType
  <1>6. Gross(report) = Sum(f, S)
    BY <1>2, <1>3, PaidSum DEF Gross
  <1>7. IsFiniteSet(report.payments) /\ \A p \in report.payments : PaymentBooked(p.row)
    BY DEF BooksInv, PaymentsRead, Unique
  <1>8. PICK g : g = AmountOf(report.payments)
    OBVIOUS
  <1>9. received \in SUBSET report.payments
    OBVIOUS
  <1>10. /\ IsFiniteSet(received) /\ \A p \in received : g[p] \in Nat
         /\ SumFunction([p \in received |-> Amount(p)]) = Sum(g, received)
    BY <1>7, <1>8, <1>9, AmountSum
  <1>11. PICK own : own = [x \in S |-> CHOOSE p \in report.payments : PaysFor(p.row, x)]
    OBVIOUS
  <1>12. ASSUME NEW x \in S
         PROVE  own[x] \in received /\ f[x] <= g[own[x]] /\ own[x].row.invoice = x.n
    <2>1. x \in report.invoices /\ x.row.status = "paid" /\ report.pc = 6
      BY <1>2, ReadyFacts DEF With
    <2>2. \E p \in report.payments : PaysFor(p.row, x)
      BY <2>1 DEF BooksInv, PaidRead
    <2>3. own[x] \in report.payments /\ PaysFor(own[x].row, x)
      BY <1>11, <2>2
    <2>4. /\ own[x].row.invoice = x.n /\ own[x].row.amount = x.row.due
          /\ own[x].row.status \in Received
      BY <2>3 DEF PaysFor
    <2>5. own[x] \in received
      BY <2>3, <2>4
    <2>6. g[own[x]] = f[x] /\ f[x] \in Int
      BY <1>5, <1>8, <2>3, <2>4 DEF AmountOf
    <2> QED
      BY <2>4, <2>5, <2>6
  <1>13. \A x, y \in S : own[x] = own[y] => x = y
    <2>1. \A x, y \in S : x.n = y.n => x = y
      BY <1>4 DEF BooksInv, InvoicesRead, Unique
    <2> QED
      BY <1>12, <2>1
  <1>14. Sum(f, S) <= Sum(g, received)
    BY <1>4, <1>5, <1>10, <1>12, <1>13, SumInto
  <1> QED
    BY <1>6, <1>10, <1>14

\* What plans earn is what comes by the methods.
LEMMA PlansAndMethods ==
  ASSUME BooksInv, IsFiniteSet(Plans), IsFiniteSet(PaymentMethods)
  PROVE  /\ SumFunction([p \in Plans |-> PlanRevenue(p, report.payments)])
              = SumFunction([p \in With("SUCCESS", report.payments) |-> Amount(p)])
         /\ SumFunction([m \in PaymentMethods |-> MethodStats(m, report.payments).amount])
              = SumFunction([p \in With("SUCCESS", report.payments) |-> Amount(p)])
  <1>1. PICK rows : rows = report.payments
    OBVIOUS
  <1>2. IsFiniteSet(rows) /\ \A p \in rows : PaymentBooked(p.row)
    BY <1>1 DEF BooksInv, PaymentsRead, Unique
  <1>3. PICK f : f = AmountOf(rows)
    OBVIOUS
  <1>4. PICK S : S = With("SUCCESS", rows)
    OBVIOUS
  <1>5. S \in SUBSET rows
    BY <1>4, WithPart
  <1>6. /\ IsFiniteSet(S) /\ (\A p \in S : f[p] \in Nat /\ f[p] \in Int /\ f[p] > 0)
        /\ SumFunction([p \in S |-> Amount(p)]) = Sum(f, S)
    BY <1>2, <1>3, <1>5, AmountSum
  <1>7. \A p \in S : p.row.plan \in Plans /\ p.row.method \in PaymentMethods
    BY <1>2, <1>5, PaymentAmounts
  <1>8. SumFunction([p \in Plans |-> PlanRevenue(p, rows)]) = Sum(f, S)
    <2>1. PICK key : key = [p \in S |-> p.row.plan]
      OBVIOUS
    <2>2. PICK g : g = [p \in Plans |-> PlanRevenue(p, rows)]
      OBVIOUS
    <2>3. ASSUME NEW c \in Plans PROVE g[c] = Sum(f, Fiber(S, key, c))
      <3>1. PICK T : T = Fiber(S, key, c)
        OBVIOUS
      <3>2. T = With("SUCCESS", {q \in rows : q.row.plan = c})
        BY <1>4, <2>1, <3>1 DEF Fiber, With
      <3>3. T \in SUBSET rows
        BY <3>2 DEF With
      <3>4. SumFunction([p \in T |-> Amount(p)]) = Sum(f, T)
        BY <1>2, <1>3, <3>3, AmountSum
      <3> QED
        BY <2>2, <3>1, <3>2, <3>4 DEF PlanRevenue
    <2>4. \A p \in S : key[p] \in Plans
      BY <1>7, <2>1
    <2>5. Sum(g, Plans) = Sum(f, S)
      BY <1>6, <2>3, <2>4, SumFibers
    <2>6. SumFunction(g) = Sum(g, Plans)
      BY <2>2, SumFunctionSum
    <2> QED
      BY <2>2, <2>5, <2>6
  <1>9. SumFunction([m \in PaymentMethods |-> MethodStats(m, rows).amount]) = Sum(f, S)
    <2>1. PICK key : key = [p \in S |-> p.row.method]
      OBVIOUS
    <2>2. PICK g : g = [m \in PaymentMethods |-> MethodStats(m, rows).amount]
      OBVIOUS
    <2>3. ASSUME NEW c \in PaymentMethods PROVE g[c] = Sum(f, Fiber(S, key, c))
      <3>1. PICK T : T = Fiber(S, key, c)
        OBVIOUS
      <3>2. T = With("SUCCESS", {r \in rows : r.row.method = c})
        BY <1>4, <2>1, <3>1 DEF Fiber, With
      <3>3. T \in SUBSET rows
        BY <3>2 DEF With
      <3>4. SumFunction([p \in T |-> Amount(p)]) = Sum(f, T)
        BY <1>2, <1>3, <3>3, AmountSum
      <3>5. MethodStats(c, rows).amount = SumFunction([p \in T |-> Amount(p)])
        BY <3>2 DEF MethodStats
      <3> QED
        BY <2>2, <3>1, <3>4, <3>5
    <2>4. \A p \in S : key[p] \in PaymentMethods
      BY <1>7, <2>1
    <2>5. Sum(g, PaymentMethods) = Sum(f, S)
      BY <1>6, <2>3, <2>4, SumFibers
    <2>6. SumFunction(g) = Sum(g, PaymentMethods)
      BY <2>2, SumFunctionSum
    <2> QED
      BY <2>2, <2>5, <2>6
  <1> QED
    BY <1>1, <1>4, <1>6, <1>8, <1>9

LEMMA RevenueHolds ==
  ASSUME DashboardInv, BooksInv, Ready, IsFiniteSet(Plans), IsFiniteSet(PaymentMethods)
  PROVE  RevenueAddsUp(report)
  <1>1. Gross(report) + outstandingInvoices(report.invoices).amount
          + SumFunction([i \in Aside(report) |-> Due(i)])
          = SumFunction([i \in report.invoices |-> Due(i)])
    BY ReadyFacts, RevenueParts DEF Gross, Aside
  <1>2. PICK early : early = {i \in report.invoices : i.row.created < report.from + Behind}
    OBVIOUS
  <1>3. PICK received : received = {p \in report.payments : p.row.status \in Received}
    OBVIOUS
  <1>4. /\ SumFunction([d \in Points(report) |-> TrendGross(d, report)])
             = Gross(report) - sumPaidInvoices(early)
        /\ early = {} => 2 * (SumFunction([d \in Points(report) |-> TrendFees(d, report)])
                                - fee(Gross(report)))
                           \in -Cardinality(With("paid", report.invoices)) - 1
                                 .. Cardinality(With("paid", report.invoices)) + 1
    BY <1>2, TrendMisses
  <1>5. now <= report.to => Gross(report) <= SumFunction([p \in received |-> Amount(p)])
    BY <1>3, RevenueReceived
  <1>6. SumFunction([p \in Plans |-> PlanRevenue(p, report.payments)])
          = SumFunction([m \in PaymentMethods |-> MethodStats(m, report.payments).amount])
    BY PlansAndMethods
  <1> QED
    BY <1>1, <1>2, <1>3, <1>4, <1>5, <1>6 DEF RevenueAddsUp
-----------------------------------------------------------------------------
(* Customers.                                                              *)

\* The revenue of a customer, and of all who have one.
LEMMA RevenueOf ==
  ASSUME DashboardInv, BooksInv, Ready, NEW f, f = DueOf(report.invoices),
         NEW S, S = With("paid", report.invoices), NEW key, key = [i \in S |-> i.row.buyer], NEW c
  PROVE  /\ CustomerRevenue(c, report) = Sum(f, Fiber(S, key, c))
         /\ \A i \in S : i.row.buyer = c => CustomerRevenue(c, report) > 0
  <1>1. PICK rows : rows = {i \in report.invoices : i.row.buyer = c}
    OBVIOUS
  <1>2. InvoicesBooked(report.invoices) /\ \A i \in report.invoices : f[i] = i.row.due
    BY ReadyFacts DEF DueOf
  <1>3. rows \in SUBSET report.invoices
    BY <1>1
  <1>4. InvoicesBooked(rows) /\ \A i \in rows : f[i] = i.row.due
    BY <1>2, <1>3, PartBooked
  <1>5. PICK T : T = Fiber(S, key, c)
    OBVIOUS
  <1>6. T = With("paid", rows)
    BY <1>1, <1>5 DEF Fiber, With
  <1>7. CustomerRevenue(c, report) = Sum(f, T)
    BY <1>1, <1>4, <1>6, PaidSum DEF CustomerRevenue
  <1>8. ASSUME NEW i \in S, i.row.buyer = c PROVE Sum(f, T) > 0
    <2>1. i \in T /\ T \in SUBSET report.invoices
      BY <1>1, <1>6, <1>8 DEF With
    <2>2. f[i] \in Nat /\ f[i] > 0 /\ f[i] \in Int
      BY <1>2, <2>1, InvoiceAmounts DEF InvoicesBooked
    <2>3. IsFiniteSet(T) /\ \A x \in T : f[x] \in Nat
      BY <1>2, <2>1, DueType
    <2>4. PICK U : U = {i}
      OBVIOUS
    <2>5. U \in SUBSET T /\ T \in SUBSET T
      BY <2>1, <2>4
    <2>6. Sum(f, U) <= Sum(f, T) /\ Sum(f, T) \in Nat
      <3>1. Sum(f, U) <= Sum(f, T)
        BY <2>3, <2>5, SumPart
      <3>2. Sum(f, T) \in Nat
        BY <1>2, <2>1, DueType
      <3> QED
        BY <3>1, <3>2
    <2>7. Sum(f, U) = f[i]
      BY <2>2, <2>4, SumSingle
    <2> QED
      BY <2>2, <2>6, <2>7
  <1> QED
    BY <1>5, <1>7, <1>8

LEMMA RankedFinite ==
  ASSUME EdgesInv, BooksInv, Ready, IsFiniteSet(Buyers)
  PROVE  /\ IsFiniteSet(Ranked(report)) /\ Ranked(report) \in SUBSET Buyers
         /\ IsFiniteSet(report.subscriptions)
  <1>1. report.customers \subseteq {s.n : s \in report.subscriptions}
    BY ReadsMatchHolds DEF ReadsMatch
  <1>2. \A s \in report.subscriptions : s.n \in Buyers
    BY DEF BooksInv, SubscriptionsBooked
  <1>3. Ranked(report) \in SUBSET Buyers
    BY <1>1, <1>2 DEF Ranked
  <1> QED
    BY <1>3, FS_Subset DEF BooksInv, SubscriptionsBooked, Unique

LEMMA ReadsFitHolds ==
  ASSUME EdgesInv, BooksInv, Ready, IsFiniteSet(Buyers)
  PROVE  ReadsFit(report)
  <1> SUFFICES ASSUME NEW t \in TopCustomers(report), Cardinality(Ranked(report)) <= Listed
               PROVE  SumFunction([c \in t |-> CustomerRevenue(c, report)]) = Gross(report)
    BY DEF ReadsFit
  <1>1. DashboardInv /\ InvoicesBooked(report.invoices)
    BY ReadyFacts DEF EdgesInv
  <1>2. PICK R : R = Ranked(report)
    OBVIOUS
  <1>3. IsFiniteSet(R) /\ Listed \in Nat
    BY <1>2, RankedFinite, DashboardAssumption
  <1>4. t = R
    <2>1. t \in SUBSET R /\ Cardinality(t) = Min({Listed, Cardinality(R)})
      BY <1>2 DEF TopCustomers
    <2>2. PICK n \in Nat : n = Cardinality(R)
      BY <1>3, FS_CardinalityType
    <2>3. Min({Listed, n}) = IF Listed <= n THEN Listed ELSE n
      BY <1>3, <2>2, MinTwo
    <2>4. Cardinality(t) = Cardinality(R)
      BY <1>2, <1>3, <2>1, <2>2, <2>3
    <2> QED
      BY <1>3, <2>1, <2>4, FS_Subset
  <1>5. PICK f : f = DueOf(report.invoices)
    OBVIOUS
  <1>6. PICK S : S = With("paid", report.invoices)
    OBVIOUS
  <1>7. PICK key : key = [i \in S |-> i.row.buyer]
    OBVIOUS
  <1>8. PICK g : g = [c \in R |-> CustomerRevenue(c, report)]
    OBVIOUS
  <1>9. S \in SUBSET report.invoices /\ IsFiniteSet(S) /\ \A x \in S : f[x] \in Int
    <2>1. S \in SUBSET report.invoices /\ \A i \in report.invoices : f[i] = i.row.due
      BY <1>5, <1>6, WithPart DEF DueOf
    <2> QED
      BY <1>1, <2>1, DueType
  <1>10. \A c \in R : g[c] = Sum(f, Fiber(S, key, c))
    BY <1>1, <1>5, <1>6, <1>7, <1>8, RevenueOf
  <1>11. ASSUME NEW x \in S PROVE key[x] \in R
    <2>1. x.row.buyer \in report.customers
      BY <1>9, ReadsMatchHolds DEF ReadsMatch
    <2>2. CustomerRevenue(x.row.buyer, report) > 0
      BY <1>1, <1>5, <1>6, <1>7, RevenueOf
    <2> QED
      BY <1>2, <1>7, <2>1, <2>2 DEF Ranked
  <1>12. Sum(g, R) = Sum(f, S)
    BY <1>3, <1>9, <1>10, <1>11, SumFibers
  <1>13. SumFunction(g) = Sum(g, R)
    BY <1>3, <1>8, SumFunctionSum
  <1>14. Gross(report) = Sum(f, S)
    <2>1. \A i \in report.invoices : f[i] = i.row.due
      BY <1>5 DEF DueOf
    <2> QED
      BY <1>1, <1>6, <2>1, PaidSum DEF Gross
  <1> QED
    BY <1>4, <1>8, <1>12, <1>13, <1>14
-----------------------------------------------------------------------------
(* Counts.                                                                 *)

LEMMA CountInto ==
  ASSUME NEW S, NEW T, IsFiniteSet(T), NEW own, \A x \in S : own[x] \in T,
         \A x, y \in S : own[x] = own[y] => x = y
  PROVE  IsFiniteSet(S) /\ Cardinality(S) <= Cardinality(T)
  <1>1. PICK f : f = [x \in S |-> own[x]]
    OBVIOUS
  <1>2. f \in Injection(S, T)
    BY <1>1 DEF Injection, IsInjective
  <1> QED
    BY <1>2, FS_Injection

LEMMA CountUnion ==
  ASSUME NEW S, NEW T, IsFiniteSet(S), IsFiniteSet(T)
  PROVE  /\ IsFiniteSet(S \cup T) /\ Cardinality(S \cup T) \in Nat
         /\ Cardinality(S) \in Nat /\ Cardinality(T) \in Nat
         /\ Cardinality(S \cup T) <= Cardinality(S) + Cardinality(T)
         /\ S \cap T = {} => Cardinality(S \cup T) = Cardinality(S) + Cardinality(T)
  <1>1. IsFiniteSet(S \cup T) /\ IsFiniteSet(S \cap T)
    BY FS_Union, FS_Subset
  <1>2. /\ Cardinality(S \cup T) \in Nat /\ Cardinality(S) \in Nat /\ Cardinality(T) \in Nat
        /\ Cardinality(S \cap T) \in Nat
    BY <1>1, FS_CardinalityType
  <1>3. Cardinality(S \cup T) = Cardinality(S) + Cardinality(T) - Cardinality(S \cap T)
    BY FS_Union
  <1>4. S \cap T = {} => Cardinality(S \cap T) = 0
    BY FS_EmptySet
  <1> QED
    BY <1>1, <1>2, <1>3, <1>4

LEMMA CountPart ==
  ASSUME NEW S, IsFiniteSet(S), NEW T \in SUBSET S
  PROVE  /\ IsFiniteSet(T) /\ Cardinality(T) \in Nat /\ Cardinality(S) \in Nat
         /\ Cardinality(T) <= Cardinality(S)
  BY FS_Subset, FS_CardinalityType

\* The subscriptions of a report.
LEMMA ReportSubscriptions ==
  ASSUME BooksInv
  PROVE  /\ IsFiniteSet(report.subscriptions)
         /\ \A r, s \in report.subscriptions : r.n = s.n => r = s
         /\ \A s \in report.subscriptions :
               /\ s.n \in Buyers /\ s.row.plan \in Plans /\ s.row.created \in Int
               /\ s.row.canceled \in Int /\ s.row.canceled <= now
               /\ s.row.status \in {"attention", "active", "past_due", "paused", "canceled"}
               /\ s.row.source \in PaymentMethods
  <1>1. Unique(report.subscriptions)
        /\ \A s \in report.subscriptions : s.n \in Buyers /\ SubBooked(s.row) /\ s.row.canceled <= now
    BY DEF BooksInv, SubscriptionsBooked
  <1>2. ASSUME NEW s \in report.subscriptions
        PROVE  /\ s.row.plan \in Plans /\ s.row.created \in Int
               /\ s.row.canceled \in Int /\ s.row.canceled <= now
               /\ s.row.status \in {"attention", "active", "past_due", "paused", "canceled"}
               /\ s.row.source \in PaymentMethods
    <2>1. s.row \in SubRows /\ s.row.plan \in Plans /\ s.row.status # "none"
      BY <1>1 DEF SubBooked, Has
    <2>2. /\ s.row.created \in Int /\ s.row.canceled \in Int
          /\ s.row.status \in SubStatuses /\ s.row.source \in PaymentMethods
      BY <2>1 DEF SubRows
    <2> QED
      BY <1>1, <2>1, <2>2 DEF SubStatuses
  <1> QED
    BY <1>1, <1>2 DEF Unique

\* Each is in one group.
LEMMA GroupsCounted ==
  ASSUME BooksInv
  PROVE  SumFunction([g \in DOMAIN StatusGroups |-> SubscriptionCount(g, report.subscriptions)])
           = Cardinality(report.subscriptions)
  <1>1. PICK R : R = report.subscriptions
    OBVIOUS
  <1>2. PICK K : K = DOMAIN StatusGroups
    OBVIOUS
  <1>3. /\ IsFiniteSet(R)
        /\ \A s \in R : s.row.status \in {"attention", "active", "past_due", "paused", "canceled"}
    BY <1>1, ReportSubscriptions
  <1>4. K = {"active", "pastDue", "paused", "canceled"}
    BY <1>2 DEF StatusGroups
  <1>5. IsFiniteSet(K)
    <2>1. IsFiniteSet({"active"})
      BY FS_Singleton
    <2>2. IsFiniteSet({"active"} \cup {"pastDue"})
      BY <2>1, FS_AddElement
    <2>3. IsFiniteSet(({"active"} \cup {"pastDue"}) \cup {"paused"})
      BY <2>2, FS_AddElement
    <2>4. IsFiniteSet((({"active"} \cup {"pastDue"}) \cup {"paused"}) \cup {"canceled"})
      BY <2>3, FS_AddElement
    <2>5. K = (({"active"} \cup {"pastDue"}) \cup {"paused"}) \cup {"canceled"}
      BY <1>4
    <2> QED
      BY <2>4, <2>5
  <1>6. PICK key : key = [s \in R |-> IF s.row.status \in {"past_due", "attention"} THEN "pastDue"
                                      ELSE s.row.status]
    OBVIOUS
  <1>7. \A s \in R : key[s] \in K
    BY <1>3, <1>4, <1>6
  <1>8. PICK g : g = [c \in K |-> SubscriptionCount(c, R)]
    OBVIOUS
  <1>9. ASSUME NEW c \in K PROVE g[c] = Cardinality(Fiber(R, key, c))
    <2>1. /\ StatusGroups["active"] = {"active"} /\ StatusGroups["paused"] = {"paused"}
          /\ StatusGroups["pastDue"] = {"past_due", "attention"}
          /\ StatusGroups["canceled"] = {"canceled", "expired"}
      BY DEF StatusGroups
    <2>2. ASSUME NEW s \in R PROVE s.row.status \in StatusGroups[c] <=> key[s] = c
      <3>1. s.row.status \in {"attention", "active", "past_due", "paused", "canceled"}
        BY <1>3
      <3>2. key[s] = IF s.row.status \in {"past_due", "attention"} THEN "pastDue" ELSE s.row.status
        BY <1>6
      <3>3. CASE c = "active"
        BY <2>1, <3>1, <3>2, <3>3
      <3>4. CASE c = "pastDue"
        BY <2>1, <3>1, <3>2, <3>4
      <3>5. CASE c = "paused"
        BY <2>1, <3>1, <3>2, <3>5
      <3>6. CASE c = "canceled"
        BY <2>1, <3>1, <3>2, <3>6
      <3> QED
        BY <1>4, <3>3, <3>4, <3>5, <3>6
    <2>3. {s \in R : s.row.status \in StatusGroups[c]} = Fiber(R, key, c)
      BY <2>2 DEF Fiber
    <2> QED
      BY <1>8, <2>3 DEF SubscriptionCount
  <1>10. Sum(g, K) = Cardinality(R)
    BY <1>3, <1>5, <1>7, <1>9, CountFibers
  <1>11. DOMAIN g = K
    BY <1>8
  <1>12. SumFunction(g) = Sum(g, K)
    BY <1>5, <1>11, SumFunctionSum
  <1> QED
    BY <1>1, <1>2, <1>8, <1>10, <1>12

\* Each has one source, and each attempt one method.
LEMMA SourcesCounted ==
  ASSUME BooksInv
  PROVE  SumFunction(paymentSourceBreakdown(report.subscriptions)) = Cardinality(report.subscriptions)
  <1>1. PICK R : R = report.subscriptions
    OBVIOUS
  <1>2. IsFiniteSet(R) /\ \A s \in R : s.row.source \in SubscriptionSources
    BY <1>1, ReportSubscriptions, ReportAssumption DEF SubscriptionSources, PaymentMethods
  <1>3. IsFiniteSet(SubscriptionSources)
    <2>1. IsFiniteSet({"card"})
      BY FS_Singleton
    <2>2. IsFiniteSet({"card"} \cup {"bank"})
      BY <2>1, FS_AddElement
    <2>3. IsFiniteSet(({"card"} \cup {"bank"}) \cup {"unknown"})
      BY <2>2, FS_AddElement
    <2>4. SubscriptionSources = ({"card"} \cup {"bank"}) \cup {"unknown"}
      BY DEF SubscriptionSources
    <2> QED
      BY <2>3, <2>4
  <1>4. PICK key : key = [s \in R |-> s.row.source]
    OBVIOUS
  <1>5. PICK g : g = paymentSourceBreakdown(R)
    OBVIOUS
  <1>6. DOMAIN g = SubscriptionSources
    BY <1>5 DEF paymentSourceBreakdown
  <1>7. ASSUME NEW c \in SubscriptionSources PROVE g[c] = Cardinality(Fiber(R, key, c))
    <2>1. g[c] = Cardinality({s \in R : s.row.source = c})
      BY <1>5 DEF paymentSourceBreakdown
    <2>2. {s \in R : s.row.source = c} = Fiber(R, key, c)
      BY <1>4 DEF Fiber
    <2> QED
      BY <2>1, <2>2
  <1>8. \A s \in R : key[s] \in SubscriptionSources
    BY <1>2, <1>4
  <1>9. PICK K : K = SubscriptionSources
    OBVIOUS
  <1>10. Sum(g, K) = Cardinality(R)
    BY <1>2, <1>3, <1>7, <1>8, <1>9, CountFibers
  <1>11. SumFunction(g) = Sum(g, K)
    BY <1>3, <1>6, <1>9, SumFunctionSum
  <1> QED
    BY <1>1, <1>5, <1>10, <1>11

LEMMA AttemptsCounted ==
  ASSUME BooksInv, IsFiniteSet(PaymentMethods)
  PROVE  SumFunction([m \in PaymentMethods |-> MethodStats(m, report.payments).attempts])
           = Cardinality(report.payments)
  <1>1. PICK R : R = report.payments
    OBVIOUS
  <1>2. IsFiniteSet(R) /\ \A p \in R : PaymentBooked(p.row)
    BY <1>1 DEF BooksInv, PaymentsRead, Unique
  <1>3. PICK key : key = [p \in R |-> p.row.method]
    OBVIOUS
  <1>4. PICK g : g = [m \in PaymentMethods |-> MethodStats(m, R).attempts]
    OBVIOUS
  <1>5. \A p \in R : key[p] \in PaymentMethods
    BY <1>2, <1>3, PaymentAmounts
  <1>6. ASSUME NEW c \in PaymentMethods PROVE g[c] = Cardinality(Fiber(R, key, c))
    <2>1. {r \in R : r.row.method = c} = Fiber(R, key, c)
      BY <1>3 DEF Fiber
    <2>2. MethodStats(c, R).attempts = Cardinality({r \in R : r.row.method = c})
      BY DEF MethodStats
    <2> QED
      BY <1>4, <2>1, <2>2
  <1>7. Sum(g, PaymentMethods) = Cardinality(R)
    BY <1>2, <1>5, <1>6, CountFibers
  <1>8. SumFunction(g) = Sum(g, PaymentMethods)
    BY <1>4, SumFunctionSum
  <1> QED
    BY <1>1, <1>4, <1>7, <1>8

\* Who churned is among the subscriptions, and a point has no cancellation that
\* is not of the period.
LEMMA ChurnCounted ==
  ASSUME DashboardInv, BooksInv, Ready
  PROVE  /\ churnRate(report) \in 0 .. 1000
         /\ now <= report.to => SumFunction([d \in Points(report) |-> TrendCanceled(d, report)])
                                   <= Churned(report.subscriptions, report.from, report.to)
  <1>1. PICK R : R = report.subscriptions
    OBVIOUS
  <1>2. IsFiniteSet(R) /\ \A s \in R : s.row.canceled \in Int /\ s.row.canceled <= now
    BY <1>1, ReportSubscriptions
  <1>3. PICK A : A = {s \in R : s.row.canceled # NoTime /\ In(s.row.canceled, report.from, report.to)}
    OBVIOUS
  <1>4. Churned(R, report.from, report.to) = Cardinality(A)
    BY <1>3 DEF Churned
  <1>5. A \in SUBSET R
    BY <1>3
  <1>6. churnRate(report) \in 0 .. 1000
    <2>1. PICK n \in Nat : n = Cardinality(R)
      BY <1>2, FS_CardinalityType
    <2>2. PICK a \in Nat : a = Cardinality(A)
      BY <1>2, <1>5, CountPart
    <2>3. a <= n
      BY <1>2, <1>5, <2>1, <2>2, CountPart
    <2>4. Max({n, 1}) = IF n >= 1 THEN n ELSE 1
      BY <2>1, MaxTwo
    <2>5. PICK m \in Nat : m = Max({n, 1})
      BY <2>4
    <2>6. a <= m
      BY <2>3, <2>4, <2>5
    <2>7. rate(a, m) \in 0 .. 1000
      BY <2>6, RateBounded
    <2>8. churnRate(report) = rate(a, m)
      BY <1>1, <1>4, <2>1, <2>2, <2>5 DEF churnRate
    <2> QED
      BY <2>7, <2>8
  <1>7. ASSUME now <= report.to
        PROVE  SumFunction([d \in Points(report) |-> TrendCanceled(d, report)]) <= Cardinality(A)
    <2>1. PICK P : P = Points(report)
      OBVIOUS
    <2>2. IsFiniteSet(P) /\ P = Period[1] .. Period[2]
      BY <2>1, PointsDays
    <2>3. PICK T : T = {s \in R : /\ RowDay(s.row.created) \in P /\ s.row.canceled # NoTime
                                  /\ RowDay(s.row.canceled) \in P}
      OBVIOUS
    <2>4. T \in SUBSET R /\ IsFiniteSet(T)
      BY <1>2, <2>3, FS_Subset
    <2>5. ASSUME NEW s \in T PROVE s \in A
      <3>1. PICK t \in Int : t = s.row.canceled
        BY <1>2, <2>3
      <3>2. t <= report.to
        <4>1. now \in Int /\ report.to \in Int
          BY StoredRows, ReadyFacts
        <4> QED
          BY <1>2, <1>7, <2>4, <3>1, <4>1
      <3>3. report.from <= t
        BY <2>1, <2>3, <3>1, PointSince
      <3> QED
        BY <1>3, <2>3, <2>4, <3>1, <3>2, <3>3 DEF In
    <2>6. PICK key : key = [s \in T |-> RowDay(s.row.canceled)]
      OBVIOUS
    <2>7. PICK g : g = [d \in P |-> TrendCanceled(d, report)]
      OBVIOUS
    <2>8. ASSUME NEW d \in P PROVE g[d] = Cardinality(Fiber(T, key, d))
      <3>1. {s \in R : /\ RowDay(s.row.created) \in P /\ s.row.canceled # NoTime
                       /\ RowDay(s.row.canceled) = d} = Fiber(T, key, d)
        BY <2>3, <2>6 DEF Fiber
      <3> QED
        BY <1>1, <2>1, <2>7, <3>1 DEF TrendCanceled
    <2>9. \A s \in T : key[s] \in P
      BY <2>3, <2>6
    <2>10. \A d \in P : g[d] = Cardinality(Fiber(T, key, d))
      BY <2>8
    <2>11. IsFiniteSet(P) /\ IsFiniteSet(T)
      BY <2>2, <2>4
    <2>12. Sum(g, P) = Cardinality(T)
      BY <2>9, <2>10, <2>11, CountFibers
    <2>13. SumFunction(g) = Sum(g, P)
      BY <2>2, <2>7, SumFunctionSum
    <2>14. Cardinality(T) <= Cardinality(A)
      <3>1. T \in SUBSET A /\ IsFiniteSet(A)
        BY <1>2, <1>5, <2>5, FS_Subset
      <3> QED
        BY <3>1, CountPart
    <2> QED
      BY <2>1, <2>7, <2>12, <2>13, <2>14
  <1> QED
    BY <1>1, <1>4, <1>6, <1>7

LEMMA RatesCounted ==
  ASSUME BooksInv
  PROVE  successRate(report.payments) + failureRate(report.payments) <= 1001
  <1>1. PICK R : R = report.payments
    OBVIOUS
  <1>2. IsFiniteSet(R)
    BY <1>1 DEF BooksInv, PaymentsRead, Unique
  <1>3. PICK A : A = With("SUCCESS", R)
    OBVIOUS
  <1>4. PICK B : B = With("PAYMENT_FAILED", R)
    OBVIOUS
  <1>5. A \cap B = {} /\ A \in SUBSET R /\ B \in SUBSET R
    BY <1>3, <1>4 DEF With
  <1>6. PICK C : C = A \cup B
    OBVIOUS
  <1>7. C \in SUBSET R /\ IsFiniteSet(A) /\ IsFiniteSet(B)
    BY <1>2, <1>5, <1>6, FS_Subset
  <1>8. PICK a \in Nat : a = Cardinality(A)
    BY <1>7, FS_CardinalityType
  <1>9. PICK b \in Nat : b = Cardinality(B)
    BY <1>7, FS_CardinalityType
  <1>10. PICK n \in Nat : n = Cardinality(R)
    BY <1>2, FS_CardinalityType
  <1>11. Cardinality(C) = a + b
    BY <1>5, <1>6, <1>7, <1>8, <1>9, CountUnion
  <1>12. Cardinality(C) <= n
    BY <1>2, <1>7, <1>10, CountPart
  <1>13. a + b <= n
    BY <1>11, <1>12
  <1>14. rate(a, n) + rate(b, n) <= 1001
    BY <1>13, TwoRates
  <1>15. successRate(R) = rate(a, n) /\ failureRate(R) = rate(b, n)
    BY <1>3, <1>4, <1>8, <1>9, <1>10 DEF successRate, failureRate
  <1> QED
    BY <1>1, <1>14, <1>15

\* The points miss the attempts of the first hours.
LEMMA TrendCounted ==
  ASSUME DashboardInv, BooksInv, Ready, NEW status, NEW early,
         early = {p \in With(status, report.payments) : p.row.created < report.from + Behind}
  PROVE  SumFunction([d \in Points(report) |-> TrendPayments(d, status, report)])
           + Cardinality(early) = Cardinality(With(status, report.payments))
  <1>1. PICK S : S = With(status, report.payments)
    OBVIOUS
  <1>2. IsFiniteSet(report.payments)
        /\ \A p \in report.payments : PaymentBooked(p.row) /\ In(p.row.created, report.from, report.to)
    BY DEF BooksInv, PaymentsRead, Unique
  <1>3. S \in SUBSET report.payments /\ IsFiniteSet(S)
    BY <1>1, <1>2, WithPart, FS_Subset
  <1>4. \A x \in S : /\ x.row.created \in Int /\ report.from <= x.row.created
                     /\ x.row.created <= report.to
    BY <1>2, <1>3, PaymentAmounts DEF In
  <1>5. PICK f : f = [x \in S |-> 1]
    OBVIOUS
  <1>6. \A x \in S : f[x] = 1 /\ f[x] \in Int
    BY <1>5
  <1>7. PICK g : g = [d \in Points(report) |-> TrendPayments(d, status, report)]
    OBVIOUS
  <1>8. ASSUME NEW d \in Points(report) PROVE g[d] = Sum(f, OnDay(S, d))
    <2>1. PICK T : T = OnDay(S, d)
      OBVIOUS
    <2>2. T \in SUBSET S /\ T = {p \in With(status, report.payments) : RowDay(p.row.created) = d}
      BY <1>1, <2>1 DEF OnDay
    <2>3. IsFiniteSet(T) /\ \A x \in T : f[x] = 1
      BY <1>3, <1>6, <2>2, FS_Subset
    <2>4. Sum(f, T) = Cardinality(T)
      BY <2>3, SumOnes
    <2> QED
      BY <1>7, <2>1, <2>2, <2>4 DEF TrendPayments
  <1>9. PICK L : L = Late(S)
    OBVIOUS
  <1>10. Sum(g, Points(report)) = Sum(f, L)
    BY <1>3, <1>4, <1>6, <1>8, <1>9, TrendSum
  <1>11. S = L \cup early /\ L \cap early = {} /\ L \in SUBSET S /\ early \in SUBSET S
    BY <1>1, <1>9 DEF Late
  <1>12. IsFiniteSet(L) /\ IsFiniteSet(early) /\ \A x \in L : f[x] = 1
    BY <1>3, <1>6, <1>11, FS_Subset
  <1>13. Sum(f, L) = Cardinality(L)
    BY <1>12, SumOnes
  <1>14. Cardinality(S) = Cardinality(L) + Cardinality(early)
    BY <1>11, <1>12, CountUnion
  <1>15. SumFunction(g) = Sum(g, Points(report))
    <2>1. DOMAIN g = Points(report) /\ IsFiniteSet(Points(report))
      BY <1>7, PointsDays
    <2> QED
      BY <2>1, SumFunctionSum
  <1> QED
    BY <1>1, <1>7, <1>10, <1>13, <1>14, <1>15

\* Where some stay, some are active.
LEMMA PlanChurnCounted ==
  ASSUME BooksInv, NEW p \in Plans, PlanChurn(p, report.subscriptions) \in 1 .. 999
  PROVE  \E s \in With("active", report.subscriptions) : s.row.plan = p
  <1>1. SUFFICES ASSUME ~\E s \in With("active", report.subscriptions) : s.row.plan = p
                 PROVE  FALSE
    OBVIOUS
  <1>2. PICK mine : mine = {s \in report.subscriptions : s.row.plan = p}
    OBVIOUS
  <1>3. PICK G : G = With("canceled", mine) \cup With("expired", mine)
    OBVIOUS
  <1>4. G \in SUBSET report.subscriptions /\ IsFiniteSet(report.subscriptions)
    BY <1>2, <1>3, ReportSubscriptions DEF With
  <1>5. PICK gone \in Nat : gone = Cardinality(G)
    BY <1>4, CountPart
  <1>6. With("active", mine) = {}
    BY <1>1, <1>2 DEF With
  <1>7. Cardinality(With("active", mine)) = 0
    BY <1>6, FS_EmptySet
  <1>8. PICK m : m = Max({gone, 1})
    OBVIOUS
  <1>9. m = IF gone >= 1 THEN gone ELSE 1
    BY <1>8, MaxTwo
  <1>10. rate(gone, m) = 0 \/ rate(gone, m) = 1000
    <2>1. CASE gone = 0
      <3>1. m = 1
        BY <1>9, <2>1
      <3>2. rate(gone, m) = 0
        BY <2>1, <3>1, RateEnds
      <3> QED
        BY <3>2
    <2>2. CASE gone > 0
      <3>1. m = gone
        BY <1>9, <2>2
      <3>2. rate(gone, m) = 1000
        BY <2>2, <3>1, RateEnds
      <3> QED
        BY <3>2
    <2> QED
      BY <2>1, <2>2
  <1>11. PlanChurn(p, report.subscriptions) = rate(gone, m)
    <2>1. 0 + gone = gone
      OBVIOUS
    <2> QED
      BY <1>2, <1>3, <1>5, <1>7, <1>8, <2>1 DEF PlanChurn
  <1> QED
    BY <1>10, <1>11

LEMMA CountsHold ==
  ASSUME DashboardInv, BooksInv, Ready, IsFiniteSet(PaymentMethods)
  PROVE  CountsAddUp(report)
  <1>1. \A status \in {"SUCCESS", "PAYMENT_FAILED"} :
          LET early == {p \in With(status, report.payments) : p.row.created < report.from + Behind}
              counted == SumFunction([d \in Points(report) |-> TrendPayments(d, status, report)])
          IN  counted + Cardinality(early) = Cardinality(With(status, report.payments))
    BY TrendCounted
  <1>2. \A p \in Plans : PlanChurn(p, report.subscriptions) \in 1 .. 999
          => \E s \in With("active", report.subscriptions) : s.row.plan = p
    BY PlanChurnCounted
  <1> QED
    BY <1>1, <1>2, GroupsCounted, SourcesCounted, AttemptsCounted, ChurnCounted, RatesCounted
       DEF CountsAddUp
-----------------------------------------------------------------------------
(* Explanations.                                                           *)

LEMMA RevenueNat ==
  ASSUME NEW rows, InvoicesBooked(rows)
  PROVE  sumPaidInvoices(rows) \in Nat
  <1>1. PICK f : f = DueOf(rows)
    OBVIOUS
  <1>2. \A i \in rows : f[i] = i.row.due
    BY <1>1 DEF DueOf
  <1>3. sumPaidInvoices(rows) = Sum(f, With("paid", rows))
    BY <1>2, PaidSum
  <1>4. PICK S : S = With("paid", rows)
    OBVIOUS
  <1>5. S \in SUBSET rows
    BY <1>4, WithPart
  <1>6. Sum(f, S) \in Nat
    BY <1>2, <1>5, DueType
  <1> QED
    BY <1>3, <1>4, <1>6

\* What plans earn: the strongest earns something as soon as one payment
\* succeeded.
LEMMA StrongestPlan ==
  ASSUME BooksInv, IsFiniteSet(Plans)
  PROVE  (\E p \in TopPlans(report.payments) : PlanRevenue(p, report.payments) > 0)
           <=> With("SUCCESS", report.payments) # {}
  <1>1. PICK rows : rows = report.payments
    OBVIOUS
  <1>2. IsFiniteSet(rows) /\ \A p \in rows : PaymentBooked(p.row)
    BY <1>1 DEF BooksInv, PaymentsRead, Unique
  <1>3. PICK f : f = AmountOf(rows)
    OBVIOUS
  <1>4. PICK S : S = With("SUCCESS", rows)
    OBVIOUS
  <1>5. S \in SUBSET rows
    BY <1>4, WithPart
  <1>6. /\ IsFiniteSet(S) /\ (\A x \in S : f[x] \in Nat /\ f[x] \in Int /\ f[x] > 0)
        /\ Sum(f, S) \in Nat
    BY <1>2, <1>3, <1>5, AmountSum
  <1>7. PICK most \in Nat : most = Sum(f, S)
    BY <1>6
  <1>8. ASSUME NEW p \in Plans, NEW T, T = {x \in S : x.row.plan = p}
        PROVE  /\ PlanRevenue(p, rows) = Sum(f, T) /\ Sum(f, T) \in Nat /\ Sum(f, T) <= most
               /\ T # {} => Sum(f, T) > 0
               /\ T = {} => Sum(f, T) = 0
    <2>1. T = With("SUCCESS", {q \in rows : q.row.plan = p})
      BY <1>4, <1>8 DEF With
    <2>2. T \in SUBSET rows /\ T \in SUBSET S
      BY <1>5, <1>8
    <2>3. /\ SumFunction([x \in T |-> Amount(x)]) = Sum(f, T) /\ Sum(f, T) \in Nat
          /\ IsFiniteSet(T)
      BY <1>2, <1>3, <2>2, AmountSum
    <2>4. Sum(f, T) <= most
      <3>1. Sum(f, T) <= Sum(f, S)
        BY <1>6, <2>2, SumPart
      <3> QED
        BY <1>7, <3>1
    <2>5. ASSUME T # {} PROVE Sum(f, T) > 0
      <3>1. PICK x \in T : TRUE
        BY <2>5
      <3>2. PICK U : U = {x}
        OBVIOUS
      <3>3. U \in SUBSET T /\ f[x] \in Int /\ f[x] > 0 /\ \A y \in T : f[y] \in Nat
        BY <1>6, <2>2, <3>2
      <3>4. Sum(f, U) = f[x]
        BY <3>2, <3>3, SumSingle
      <3>5. Sum(f, U) <= Sum(f, T)
        BY <2>3, <3>3, SumPart
      <3> QED
        BY <2>3, <3>3, <3>4, <3>5
    <2>6. T = {} => Sum(f, T) = 0
      BY SumEmpty
    <2> QED
      BY <2>1, <2>3, <2>4, <2>5, <2>6 DEF PlanRevenue
  <1>9. \A p \in Plans : PlanRevenue(p, rows) \in Nat /\ PlanRevenue(p, rows) <= most
    BY <1>8
  <1>10. ASSUME S = {}, NEW p \in Plans PROVE ~(PlanRevenue(p, rows) > 0)
    <2>1. PICK T : T = {x \in S : x.row.plan = p}
      OBVIOUS
    <2>2. T = {}
      BY <1>10, <2>1
    <2>3. PlanRevenue(p, rows) = 0
      BY <1>8, <2>1, <2>2
    <2> QED
      BY <2>3
  <1>11. ASSUME S # {} PROVE \E p \in TopPlans(rows) : PlanRevenue(p, rows) > 0
    <2>1. PICK x \in S : x.row.plan \in Plans
      BY <1>2, <1>5, <1>11, PaymentAmounts
    <2>2. PICK own \in Plans : own = x.row.plan
      BY <2>1
    <2>3. PlanRevenue(own, rows) > 0
      <3>1. PICK T : T = {y \in S : y.row.plan = own}
        OBVIOUS
      <3>2. T # {}
        BY <2>2, <3>1
      <3>3. PlanRevenue(own, rows) = Sum(f, T) /\ Sum(f, T) > 0
        BY <1>8, <3>1, <3>2
      <3> QED
        BY <3>3
    <2>4. PICK lack : lack = [p \in Plans |-> most - PlanRevenue(p, rows)]
      OBVIOUS
    <2>5. \A p \in Plans : lack[p] \in Nat /\ PlanRevenue(p, rows) = most - lack[p]
      <3>1. SUFFICES ASSUME NEW p \in Plans
                     PROVE  lack[p] \in Nat /\ PlanRevenue(p, rows) = most - lack[p]
        OBVIOUS
      <3>2. PICK v \in Nat : v = PlanRevenue(p, rows)
        BY <1>9
      <3>3. v <= most /\ lack[p] = most - v
        BY <1>9, <2>4, <3>2
      <3> QED
        BY <3>2, <3>3
    <2>6. PICK N : N = {lack[p] : p \in Plans}
      OBVIOUS
    <2>7. N \in SUBSET Nat /\ N # {}
      BY <2>2, <2>5, <2>6
    <2>8. PICK n \in N : \A m \in N : n <= m
      BY <2>7, Smallest
    <2>9. PICK top \in Plans : lack[top] = n
      BY <2>6, <2>8
    <2>10. ASSUME NEW q \in Plans PROVE PlanRevenue(q, rows) <= PlanRevenue(top, rows)
      <3>1. n <= lack[q] /\ n \in Nat /\ lack[q] \in Nat
        BY <2>5, <2>6, <2>7, <2>8
      <3>2. PlanRevenue(q, rows) = most - lack[q] /\ PlanRevenue(top, rows) = most - n
        BY <2>5, <2>9
      <3> QED
        BY <3>1, <3>2
    <2>11. top \in TopPlans(rows)
      BY <2>10 DEF TopPlans
    <2>12. PlanRevenue(top, rows) > 0
      BY <1>9, <2>3, <2>10
    <2> QED
      BY <2>11, <2>12
  <1>12. TopPlans(rows) \in SUBSET Plans
    BY DEF TopPlans
  <1> QED
    BY <1>1, <1>4, <1>10, <1>11, <1>12

LEMMA ExplanationsHold ==
  ASSUME DashboardInv, BooksInv, Ready, IsFiniteSet(Plans)
  PROVE  ExplanationsAgree(report)
  <1>1. PICK g \in Nat : g = Gross(report)
    BY ReadyFacts, RevenueNat DEF Gross
  <1>2. PICK p \in Nat : p = sumPaidInvoices(report.previous)
    BY ReadyFacts, RevenueNat
  <1>3. PICK before : before = [report EXCEPT !.invoices = report.previous]
    OBVIOUS
  <1>4. before.invoices = report.previous
    BY <1>3 DEF DashboardInv, ReportMade, Columns
  <1>5. Gross(before) = p
    BY <1>2, <1>4 DEF Gross
  <1>6. explained("gross_revenue", report) = g - p
    BY <1>1, <1>3, <1>5 DEF explained, extractMetric, previousPeriodMetric
  <1>7. explained("net_revenue", report) = (g - fee(g)) - (p - fee(p))
    BY <1>1, <1>3, <1>5 DEF explained, extractMetric, previousPeriodMetric, Net
  <1>8. explained("platform_fees", report) = fee(g) - fee(p)
    BY <1>1, <1>3, <1>5 DEF explained, extractMetric, previousPeriodMetric
  <1>9. PICK x \in Nat : x = fee(g)
    BY FeeNear
  <1>10. PICK y \in Nat : y = fee(p)
    BY FeeNear
  <1>11. g >= p => g - x >= p - y
    <2>1. ASSUME p <= g PROVE p - y <= g - x
      BY <1>9, <1>10, <2>1, FeeGrows
    <2> QED
      BY <2>1
  <1>12. PICK growth : growth = growthPercent(g, p)
    OBVIOUS
  <1>13. (growth > 0 => g > p) /\ (growth < 0 => g < p)
    BY <1>12, GrowthSign
  <1>14. growth = growthPercent(Gross(report), Previous(report))
    BY <1>1, <1>2, <1>12 DEF Previous
  <1>15. "growing" \in insights(report) => growth > 0
    BY <1>14 DEF insights
  <1>16. "declined" \in insights(report) => growth < 0
    BY <1>14 DEF insights
  <1>17. "strongest_plan" \in insights(report)
           <=> \E q \in TopPlans(report.payments) : PlanRevenue(q, report.payments) > 0
    BY <1>14 DEF insights
  <1>18. "strongest_plan" \in insights(report) <=> With("SUCCESS", report.payments) # {}
    BY <1>17, StrongestPlan
  <1>19. explained("gross_revenue", report) >= 0 => explained("net_revenue", report) >= 0
    BY <1>6, <1>7, <1>9, <1>10, <1>11
  <1>20. explained("gross_revenue", report)
           = explained("net_revenue", report) + explained("platform_fees", report)
    BY <1>6, <1>7, <1>8, <1>9, <1>10
  <1>21. /\ "growing" \in insights(report) => explained("gross_revenue", report) > 0
         /\ "declined" \in insights(report) => explained("gross_revenue", report) < 0
    BY <1>6, <1>13, <1>15, <1>16
  <1> QED
    BY <1>18, <1>19, <1>20, <1>21 DEF ExplanationsAgree
-----------------------------------------------------------------------------
(* The portal and the customer page.                                       *)

\* The rows of the tables, as they are read.
LEMMA TableRows ==
  ASSUME Stored, Booked
  PROVE  /\ InvoicesBooked(Numbered(invoices))
         /\ (\A r \in Numbered(invoices) : r.n \in DOMAIN invoices /\ r.row = invoices[r.n])
         /\ (\A i \in DOMAIN invoices : \E r \in Numbered(invoices) : r.n = i /\ r.row = invoices[i])
         /\ (\A r, s \in Numbered(invoices) : r.n = s.n => r = s)
         /\ IsFiniteSet(Numbered(payments))
         /\ (\A p \in Numbered(payments) : p.n \in DOMAIN payments /\ p.row = payments[p.n])
         /\ (\A k \in DOMAIN payments : \E p \in Numbered(payments) : p.n = k /\ p.row = payments[k])
         /\ (\A p, q \in Numbered(payments) : p.n = q.n => p = q)
         /\ \A p \in Numbered(payments) : PaymentBooked(p.row)
  <1>1. PICK n \in Nat : DOMAIN invoices = 1 .. n
    BY StoredNow
  <1>2. PICK m \in Nat : DOMAIN payments = 1 .. m
    BY StoredNow
  <1>3. /\ Unique(Numbered(invoices))
        /\ \A r \in Numbered(invoices) : r.n \in DOMAIN invoices /\ r.row = invoices[r.n]
        /\ \A i \in DOMAIN invoices : \E r \in Numbered(invoices) : r.n = i /\ r.row = invoices[i]
    BY <1>1, NumberedRows
  <1>4. /\ Unique(Numbered(payments))
        /\ \A p \in Numbered(payments) : p.n \in DOMAIN payments /\ p.row = payments[p.n]
        /\ \A k \in DOMAIN payments : \E p \in Numbered(payments) : p.n = k /\ p.row = payments[k]
    BY <1>2, NumberedRows
  <1>5. InvoicesBooked(Numbered(invoices))
    BY <1>3 DEF Booked, InvoiceFits, InvoicesBooked, Unique
  <1>6. \A p \in Numbered(payments) : PaymentBooked(p.row)
    <2>1. \A k \in DOMAIN payments : PaymentBooked(payments[k])
      BY DEF Booked, PaymentFits
    <2> QED
      BY <1>4, <2>1
  <1> QED
    BY <1>3, <1>4, <1>5, <1>6 DEF Unique

\* The portal sums day by day what the customer page sums at once.
LEMMA PortalHolds ==
  ASSUME Stored, Booked, NEW b \in Buyers
  PROVE  PortalSpent(b) = LifetimeValue(b)
  <1>1. PICK mine : mine = {i \in With("paid", Numbered(invoices)) : i.row.buyer = b}
    OBVIOUS
  <1>2. mine \in SUBSET Numbered(invoices) /\ InvoicesBooked(Numbered(invoices))
    BY <1>1, TableRows DEF With
  <1>3. IsFiniteSet(mine) /\ \A i \in mine : InvoiceBooked(i.row) /\ i.row.status = "paid"
    BY <1>1, <1>2, PartBooked DEF InvoicesBooked, With
  <1>4. PICK f : f = [i \in mine |-> Paid(i)]
    OBVIOUS
  <1>5. \A i \in mine : f[i] \in Int
    BY <1>3, <1>4, InvoiceAmounts DEF Paid
  <1>6. PICK key : key = [i \in mine |-> RowDay(i.row.paidAt)]
    OBVIOUS
  <1>7. PICK K : K = {RowDay(i.row.paidAt) : i \in mine}
    OBVIOUS
  <1>8. (\A i \in mine : key[i] \in K) /\ \A d \in K : \E i \in mine : key[i] = d
    BY <1>6, <1>7
  <1>9. IsFiniteSet(K)
    <2>1. PICK first : first = [d \in K |-> CHOOSE i \in mine : key[i] = d]
      OBVIOUS
    <2>2. \A d \in K : first[d] \in mine /\ key[first[d]] = d
      BY <1>8, <2>1
    <2>3. \A x, y \in K : first[x] = first[y] => x = y
      BY <2>2
    <2> QED
      BY <1>3, <2>2, <2>3, CountInto
  <1>10. PICK g : g = [d \in K |-> SumFunction([i \in {j \in mine : RowDay(j.row.paidAt) = d} |-> Paid(i)])]
    OBVIOUS
  <1>11. ASSUME NEW d \in K PROVE g[d] = Sum(f, Fiber(mine, key, d))
    <2>1. PICK T : T = Fiber(mine, key, d)
      OBVIOUS
    <2>2. T = {j \in mine : RowDay(j.row.paidAt) = d} /\ T \in SUBSET mine
      BY <1>6, <2>1 DEF Fiber
    <2>3. IsFiniteSet(T)
      BY <1>3, <2>2, FS_Subset
    <2>4. PICK h : h = [i \in T |-> Paid(i)]
      OBVIOUS
    <2>5. DOMAIN h = T /\ \A i \in T : h[i] = f[i]
      BY <1>4, <2>2, <2>4
    <2>6. SumFunction(h) = Sum(f, T)
      BY <2>3, <2>5, SumOver
    <2> QED
      BY <1>10, <2>1, <2>2, <2>4, <2>6
  <1>12. Sum(g, K) = Sum(f, mine)
    BY <1>3, <1>5, <1>8, <1>9, <1>11, SumFibers
  <1>13. SumFunction(g) = Sum(g, K)
    BY <1>9, <1>10, SumFunctionSum
  <1>14. SumFunction(f) = Sum(f, mine)
    BY <1>3, <1>4, SumFunctionSum
  <1>15. PortalSpent(b) = SumFunction(g)
    <2>1. mine = {i \in With("paid", Numbered(invoices)) : i.row.buyer = b /\ i.row.paidAt # NoTime}
      BY <1>1, <1>3 DEF InvoiceBooked
    <2> QED
      BY <1>7, <1>10, <2>1 DEF PortalSpent
  <1>16. LifetimeValue(b) = SumFunction(f)
    BY <1>1, <1>4 DEF LifetimeValue
  <1> QED
    BY <1>12, <1>13, <1>14, <1>15, <1>16

\* All customers together spent no more than was received.
LEMMA LifetimeHolds ==
  ASSUME Stored, Booked, IsFiniteSet(Buyers)
  PROVE  SumFunction([b \in Buyers |-> LifetimeValue(b)])
           <= SumFunction([p \in {q \in Numbered(payments) : q.row.status \in Received} |-> Amount(p)])
  <1>1. PICK I : I = Numbered(invoices)
    OBVIOUS
  <1>2. PICK S : S = With("paid", I)
    OBVIOUS
  <1>3. InvoicesBooked(I) /\ S \in SUBSET I
    BY <1>1, <1>2, TableRows, WithPart
  <1>4. PICK f : f = [i \in S |-> Paid(i)]
    OBVIOUS
  <1>5. IsFiniteSet(S) /\ \A i \in S : InvoiceBooked(i.row) /\ i.row.status = "paid"
    BY <1>2, <1>3, PartBooked DEF InvoicesBooked, With
  <1>6. \A i \in S : f[i] \in Int /\ f[i] = i.row.due /\ i.row.buyer \in Buyers
    BY <1>4, <1>5, InvoiceAmounts DEF Paid
  <1>7. PICK key : key = [i \in S |-> i.row.buyer]
    OBVIOUS
  <1>8. PICK g : g = [b \in Buyers |-> LifetimeValue(b)]
    OBVIOUS
  <1>9. ASSUME NEW c \in Buyers PROVE g[c] = Sum(f, Fiber(S, key, c))
    <2>1. PICK T : T = Fiber(S, key, c)
      OBVIOUS
    <2>2. T = {j \in With("paid", Numbered(invoices)) : j.row.buyer = c} /\ T \in SUBSET S
      BY <1>1, <1>2, <1>7, <2>1 DEF Fiber
    <2>3. IsFiniteSet(T)
      BY <1>5, <2>2, FS_Subset
    <2>4. PICK h : h = [i \in T |-> Paid(i)]
      OBVIOUS
    <2>5. DOMAIN h = T /\ \A i \in T : h[i] = f[i]
      BY <1>4, <2>2, <2>4
    <2>6. SumFunction(h) = Sum(f, T)
      BY <2>3, <2>5, SumOver
    <2>7. LifetimeValue(c) = SumFunction(h)
      BY <2>2, <2>4 DEF LifetimeValue
    <2> QED
      BY <1>8, <2>1, <2>6, <2>7
  <1>10. \A i \in S : key[i] \in Buyers /\ f[i] \in Int
    BY <1>6, <1>7
  <1>11. Sum(g, Buyers) = Sum(f, S)
    BY <1>5, <1>9, <1>10, SumFibers
  <1>12. SumFunction(g) = Sum(g, Buyers)
    BY <1>8, SumFunctionSum
  <1>13. PICK P : P = Numbered(payments)
    OBVIOUS
  <1>14. PICK Q : Q = {q \in P : q.row.status \in Received}
    OBVIOUS
  <1>15. PICK a : a = AmountOf(P)
    OBVIOUS
  <1>16. IsFiniteSet(P) /\ (\A p \in P : PaymentBooked(p.row)) /\ Q \in SUBSET P
    BY <1>13, <1>14, TableRows
  <1>17. /\ IsFiniteSet(Q) /\ (\A p \in Q : a[p] \in Nat)
         /\ SumFunction([p \in Q |-> Amount(p)]) = Sum(a, Q)
    BY <1>15, <1>16, AmountSum
  \* The payment of an invoice.
  <1>18. PICK own : own = [i \in S |-> CHOOSE p \in Q : p.row.invoice = i.n]
    OBVIOUS
  <1>19. ASSUME NEW i \in S PROVE own[i] \in Q /\ own[i].row.invoice = i.n /\ f[i] <= a[own[i]]
    <2>1. i \in I /\ i.n \in DOMAIN invoices /\ i.row = invoices[i.n] /\ i.row.status = "paid"
      BY <1>1, <1>3, <1>5, TableRows
    <2>2. PICK k \in DOMAIN payments : payments[k].status \in Received /\ payments[k].invoice = i.n
      BY <2>1 DEF Booked, InvoiceFits, PaidBy
    <2>3. PICK p \in P : p.n = k /\ p.row = payments[k]
      BY <1>13, TableRows
    <2>4. p \in Q /\ p.row.invoice = i.n
      BY <1>14, <2>2, <2>3
    <2>5. own[i] \in Q /\ own[i].row.invoice = i.n
      BY <1>18, <2>4
    <2>6. own[i].n \in DOMAIN payments /\ own[i].row = payments[own[i].n]
      BY <1>13, <1>16, <2>5, TableRows
    <2>7. PaymentFits(own[i].n)
      BY <2>6 DEF Booked
    <2>8. own[i].row.amount = i.row.due
      BY <2>1, <2>5, <2>6, <2>7 DEF PaymentFits
    <2>9. a[own[i]] = f[i] /\ f[i] \in Int
      BY <1>6, <1>15, <1>16, <2>5, <2>8 DEF AmountOf
    <2> QED
      BY <2>5, <2>9
  <1>20. \A x, y \in S : own[x] = own[y] => x = y
    <2>1. \A x, y \in I : x.n = y.n => x = y
      BY <1>1, TableRows
    <2> QED
      BY <1>3, <1>19, <2>1
  <1>21. Sum(f, S) <= Sum(a, Q)
    BY <1>5, <1>6, <1>17, <1>19, <1>20, SumInto
  <1> QED
    BY <1>8, <1>11, <1>12, <1>13, <1>14, <1>17, <1>21
-----------------------------------------------------------------------------
\* The figures of every report agree with each other and with the payments
\* however the tables changed between its reads (dashboard_analytics.go:48);
\* the portal shows the total of the customer page (portal.go:276, customer.go:365),
\* and all customers together no more than was received.
THEOREM ReportAddsUpCorrect == Spec => []ReportAddsUp
  <1>1. IsFiniteSet(PaymentMethods)
    <2>1. IsFiniteSet({"card"})
      BY FS_Singleton
    <2>2. IsFiniteSet({"card"} \cup {"bank"})
      BY <2>1, FS_AddElement
    <2>3. IsFiniteSet(({"card"} \cup {"bank"}) \cup {"unknown"})
      BY <2>2, FS_AddElement
    <2>4. PaymentMethods = ({"card"} \cup {"bank"}) \cup {"unknown"}
      BY ReportAssumption DEF PaymentMethods
    <2> QED
      BY <2>3, <2>4
  <1>2. ASSUME EdgesInv, BooksInv PROVE ReportAddsUp
    <2>1. DashboardInv /\ Stored /\ Booked
      BY <1>2 DEF EdgesInv, DashboardInv, BooksInv
    <2>2. ASSUME Ready
          PROVE  /\ RevenueAddsUp(report) /\ ReadsMatch(report) /\ ReadsFit(report)
                 /\ CountsAddUp(report) /\ ExplanationsAgree(report)
      BY <1>1, <1>2, <2>1, <2>2, ReportAssumption, RevenueHolds, ReadsMatchHolds, ReadsFitHolds,
         CountsHold, ExplanationsHold
    <2>3. \A b \in Buyers : PortalSpent(b) = LifetimeValue(b)
      BY <2>1, PortalHolds
    <2>4. SumFunction([b \in Buyers |-> LifetimeValue(b)])
            <= SumFunction([p \in {q \in Numbered(payments) : q.row.status \in Received} |-> Amount(p)])
      BY <2>1, ReportAssumption, LifetimeHolds
    <2> QED
      BY <2>2, <2>3, <2>4 DEF ReportAddsUp
  <1>3. EdgesInv /\ BooksInv => ReportAddsUp
    BY <1>2
  <1>4. Spec => [](EdgesInv /\ BooksInv)
    BY BooksInductive
  <1> QED
    BY <1>3, <1>4, PTL
=============================================================================
