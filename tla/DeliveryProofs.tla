--------------------------- MODULE DeliveryProofs ---------------------------
(***************************************************************************)
(* What webhook delivery promises for any number of events, processes,     *)
(* retry calls and faults.  Layers, each inductive with those before it:   *)
(*   Types     rows and the copies that may be stored over them            *)
(*   Receipts  a copy that says delivered follows the endpoint's receipt   *)
(*   Carried   without faults, whoever made a delivery pending goes on     *)
(*   Recorded, PostedFirst   an attempt is posted, recorded and counted    *)
(*   Small, Single, Budgeted   without retry calls an event has one        *)
(*             message, and its posts are within what the faults allow     *)
(***************************************************************************)
EXTENDS WebhookDelivery, FiniteSetTheorems, TLAPS

Sound(r) == r \in Row /\ r.attempts <= r.max

\* A handler or call at work knows its delivery, and its copy may be stored.
HandlerTyped(c) ==
    /\ Sound(hd[c].copy)
    /\ hd[c].pc # "idle" => hd[c].job \in Jobs
    /\ hd[c].pc = "post" => hd[c].copy.attempts < hd[c].copy.max

CallTyped(r) ==
    /\ Sound(call[r].copy)
    /\ call[r].pc # "idle" => call[r].job \in Jobs

Types ==
    /\ TypeOK
    /\ \A c \in Consumers : HandlerTyped(c)
    /\ \A r \in Callers : CallTyped(r)
-----------------------------------------------------------------------------
LEMMA RowTypes ==
  /\ Sound(NoRow) /\ Sound(NewRow) /\ NoRow.st = "none" /\ NewRow.st = "pending"
  /\ IdleHandler \in Handler /\ IdleCall \in Call /\ IdleHandler.pc = "idle" /\ IdleCall.pc = "idle"
  /\ IdleHandler.copy = NoRow /\ IdleCall.copy = NoRow
  /\ IdleHandler.job = NoJob /\ IdleCall.job = NoJob
  BY DEF Sound, NoRow, NewRow, Row, MaxAttempts, IdleHandler, IdleCall, Handler, Call, AnswerKinds

LEMMA TypesInit == Init => Types
  <1> SUFFICES ASSUME Init PROVE Types
    OBVIOUS
  <1>1. row \in [Jobs -> Row] /\ \A d \in Jobs : row[d].attempts <= row[d].max
    BY RowTypes DEF Init, Sound
  <1>2. hd \in [Consumers -> Handler] /\ call \in [Callers -> Call]
    BY RowTypes DEF Init
  <1>3. TypeOK
    BY <1>1, <1>2 DEF Init, TypeOK, QueueInit, QueueTypeOK
  <1>4. \A c \in Consumers : HandlerTyped(c)
    BY RowTypes DEF Init, HandlerTyped
  <1>5. \A r \in Callers : CallTyped(r)
    BY RowTypes DEF Init, CallTyped
  <1> QED
    BY <1>3, <1>4, <1>5 DEF Types

LEMMA FaultType == TypeOK /\ Fault => faults' \in Nat /\ faults' = faults + 1
  BY DEF TypeOK, Fault

\* The queue keeps its types whatever is done to it.
LEMMA MoreReady ==
  ASSUME QueueTypeOK, NEW j
  PROVE  [ready EXCEPT ![j] = @ + 1] \in [Jobs -> Nat]
  <1> DEFINE more == [ready EXCEPT ![j] = @ + 1]
  <1>1. ready \in [Jobs -> Nat] /\ DOMAIN ready = Jobs
    BY DEF QueueTypeOK
  <1>2. \A i \in Jobs : more[i] \in Nat
    BY <1>1
  <1> QED
    BY <1>1, <1>2

LEMMA PublishTypes ==
  ASSUME QueueTypeOK, NEW j, Publish(j)
  PROVE  QueueTypeOK'
  BY MoreReady DEF Publish, QueueTypeOK

LEMMA TakeTypes ==
  ASSUME QueueTypeOK, NEW j \in Jobs, NEW c \in Consumers, Take(c, j)
  PROVE  QueueTypeOK'
  <1>1. ready \in [Jobs -> Nat] /\ ready[j] - 1 \in Nat
    BY DEF Take, QueueTypeOK
  <1>2. ready' \in [Jobs -> Nat]
    BY <1>1 DEF Take
  <1> QED
    BY <1>2 DEF Take, QueueTypeOK

LEMMA RequeuedTypes ==
  ASSUME QueueTypeOK, NEW j, NEW c
  PROVE  Requeued(c, j) \in [Jobs -> Nat]
  BY MoreReady DEF Requeued, QueueTypeOK

LEMMA AckTypes ==
  ASSUME QueueTypeOK, NEW c \in Consumers, Ack(c) \/ Reattach(c) \/ UNCHANGED queueVars
  PROVE  QueueTypeOK'
  BY DEF Ack, Reattach, queueVars, QueueTypeOK

LEMMA NackTypes ==
  ASSUME QueueTypeOK, NEW c \in Consumers, NEW j, Nack(c, j) \/ Disconnect(c, j)
  PROVE  QueueTypeOK'
  BY RequeuedTypes DEF Nack, Disconnect, QueueTypeOK

\* One handler or call moves on with k.
LEMMA HandlerSet ==
  ASSUME Types, NEW c \in Consumers, NEW k \in Handler, hd' = [hd EXCEPT ![c] = k],
         Sound(k.copy), k.pc # "idle" => k.job \in Jobs,
         k.pc = "post" => k.copy.attempts < k.copy.max
  PROVE  /\ hd' \in [Consumers -> Handler] /\ hd'[c] = k
         /\ \A b \in Consumers \ {c} : hd'[b] = hd[b]
         /\ \A b \in Consumers : HandlerTyped(b)'
  <1>1. /\ hd' \in [Consumers -> Handler] /\ hd'[c] = k
        /\ \A b \in Consumers \ {c} : hd'[b] = hd[b]
    BY DEF Types, TypeOK
  <1>2. ASSUME NEW b \in Consumers PROVE HandlerTyped(b)'
    BY <1>1 DEF Types, HandlerTyped
  <1> QED
    BY <1>1, <1>2

LEMMA CallSet ==
  ASSUME Types, NEW r \in Callers, NEW k \in Call, call' = [call EXCEPT ![r] = k],
         Sound(k.copy), k.pc # "idle" => k.job \in Jobs
  PROVE  /\ call' \in [Callers -> Call] /\ call'[r] = k
         /\ \A b \in Callers \ {r} : call'[b] = call[b]
         /\ \A b \in Callers : CallTyped(b)'
  <1>1. /\ call' \in [Callers -> Call] /\ call'[r] = k
        /\ \A b \in Callers \ {r} : call'[b] = call[b]
    BY DEF Types, TypeOK
  <1>2. ASSUME NEW b \in Callers PROVE CallTyped(b)'
    BY <1>1 DEF Types, CallTyped
  <1> QED
    BY <1>1, <1>2

\* A handler or call at work goes to another place with the same copy.
LEMMA HandlerPlace ==
  ASSUME Types, NEW c \in Consumers, NEW pc \in {"save", "ack", "requeue"},
         hd' = [hd EXCEPT ![c].pc = pc], hd[c].pc # "idle"
  PROVE  /\ hd' \in [Consumers -> Handler]
         /\ hd'[c].pc = pc /\ hd'[c].job = hd[c].job /\ hd'[c].copy = hd[c].copy
         /\ hd'[c].answer = hd[c].answer
         /\ \A b \in Consumers \ {c} : hd'[b] = hd[b]
         /\ \A b \in Consumers : HandlerTyped(b)'
  <1> DEFINE k == [hd[c] EXCEPT !.pc = pc]
  <1>1. hd[c] \in Handler /\ HandlerTyped(c)
    BY DEF Types, TypeOK
  <1>2. /\ k \in Handler /\ k.pc = pc /\ k.job = hd[c].job /\ k.copy = hd[c].copy
        /\ k.answer = hd[c].answer
    BY <1>1 DEF Handler
  <1>3. hd' = [hd EXCEPT ![c] = k]
    OBVIOUS
  <1> HIDE DEF k
  <1> QED
    BY <1>1, <1>2, <1>3, HandlerSet DEF HandlerTyped

LEMMA CallPlace ==
  ASSUME Types, NEW r \in Callers, NEW pc \in {"publish"},
         call' = [call EXCEPT ![r].pc = pc], call[r].pc # "idle"
  PROVE  /\ call' \in [Callers -> Call]
         /\ call'[r].pc = pc /\ call'[r].job = call[r].job /\ call'[r].copy = call[r].copy
         /\ \A b \in Callers \ {r} : call'[b] = call[b]
         /\ \A b \in Callers : CallTyped(b)'
  <1> DEFINE k == [call[r] EXCEPT !.pc = pc]
  <1>1. call[r] \in Call /\ CallTyped(r)
    BY DEF Types, TypeOK
  <1>2. k \in Call /\ k.pc = pc /\ k.job = call[r].job /\ k.copy = call[r].copy
    BY <1>1 DEF Call
  <1>3. call' = [call EXCEPT ![r] = k]
    OBVIOUS
  <1> HIDE DEF k
  <1> QED
    BY <1>1, <1>2, <1>3, CallSet DEF CallTyped

\* A sound row is stored.
LEMMA RowSet ==
  ASSUME Types, NEW d \in Jobs, NEW k, Sound(k), row' = [row EXCEPT ![d] = k]
  PROVE  /\ row' \in [Jobs -> Row] /\ row'[d] = k
         /\ \A e \in Jobs \ {d} : row'[e] = row[e]
         /\ \A e \in Jobs : row'[e].attempts <= row'[e].max
  <1>1. row' \in [Jobs -> Row] /\ row'[d] = k /\ \A e \in Jobs \ {d} : row'[e] = row[e]
    BY DEF Types, TypeOK, Sound
  <1>2. \A e \in Jobs : row'[e].attempts <= row'[e].max
    BY <1>1 DEF Types, TypeOK, Sound
  <1> QED
    BY <1>1, <1>2

LEMMA AttemptedSound ==
  ASSUME NEW r, Sound(r), r.attempts < r.max, NEW a
  PROVE  /\ Sound(Attempted(r, a)) /\ Attempted(r, a).attempts = r.attempts + 1
         /\ (Attempted(r, a).st = "delivered" => a = "ok")
         /\ (a = "ok" => Attempted(r, a).st = "delivered")
  <1> DEFINE st == IF a = "ok" THEN "delivered"
                   ELSE IF r.attempts + 1 >= r.max THEN "failed" ELSE "pending"
  <1>1. r \in Row /\ r.attempts \in Nat /\ r.max \in Nat /\ r.attempts + 1 <= r.max
    BY DEF Sound, Row
  <1>2. st \in {"none", "pending", "delivered", "failed"} /\ (st = "delivered" <=> a = "ok")
    OBVIOUS
  <1>3. Attempted(r, a) = [st |-> st, attempts |-> r.attempts + 1, max |-> r.max]
    BY DEF Attempted
  <1> HIDE DEF st
  <1> QED
    BY <1>1, <1>2, <1>3 DEF Sound, Row
-----------------------------------------------------------------------------
(* Types are kept.                                                         *)

HandlersTyped == hd \in [Consumers -> Handler] /\ \A c \in Consumers : HandlerTyped(c)
CallsTyped == call \in [Callers -> Call] /\ \A r \in Callers : CallTyped(r)
RowsTyped == row \in [Jobs -> Row] /\ \A d \in Jobs : row[d].attempts <= row[d].max
EnqueuesTyped == enq \in [Jobs -> {"idle", "created", "createdInTrx", "published", "done",
                                   "committed", "rolledBack"}]
CountsTyped == /\ log \in [Jobs -> Nat] /\ posts \in [Jobs -> Nat] /\ received \subseteq Jobs
               /\ retries \in Nat /\ faults \in Nat

LEMMA TypesParts ==
  Types <=> /\ QueueTypeOK /\ RowsTyped /\ EnqueuesTyped /\ CountsTyped
            /\ HandlersTyped /\ CallsTyped
  BY DEF Types, TypeOK, RowsTyped, EnqueuesTyped, CountsTyped, HandlersTyped, CallsTyped

LEMMA TypesPartsNext ==
  ASSUME QueueTypeOK', RowsTyped', EnqueuesTyped', CountsTyped', HandlersTyped', CallsTyped'
  PROVE  Types'
  BY DEF Types, TypeOK, RowsTyped, EnqueuesTyped, CountsTyped, HandlersTyped, CallsTyped

\* What a step leaves alone keeps its types.
LEMMA Kept ==
  ASSUME Types
  PROVE  /\ UNCHANGED queueVars => QueueTypeOK'
         /\ UNCHANGED row => RowsTyped'
         /\ UNCHANGED enq => EnqueuesTyped'
         /\ UNCHANGED <<log, posts, received, retries, faults>> => CountsTyped'
         /\ UNCHANGED hd => HandlersTyped'
         /\ UNCHANGED call => CallsTyped'
  <1>1. UNCHANGED queueVars => QueueTypeOK'
    BY DEF Types, TypeOK, QueueTypeOK, queueVars
  <1>2. UNCHANGED row => RowsTyped'
    BY DEF Types, TypeOK, RowsTyped
  <1>3. UNCHANGED enq => EnqueuesTyped'
    BY DEF Types, TypeOK, EnqueuesTyped
  <1>4. UNCHANGED <<log, posts, received, retries, faults>> => CountsTyped'
    BY DEF Types, TypeOK, CountsTyped
  <1>5. UNCHANGED hd => HandlersTyped'
    BY DEF Types, TypeOK, HandlersTyped, HandlerTyped
  <1>6. UNCHANGED call => CallsTyped'
    BY DEF Types, TypeOK, CallsTyped, CallTyped
  <1> QED
    BY <1>1, <1>2, <1>3, <1>4, <1>5, <1>6

LEMMA FaultCounts ==
  ASSUME Types, Fault, UNCHANGED <<log, posts, received, retries>>
  PROVE  CountsTyped'
  BY FaultType DEF Types, TypeOK, CountsTyped

LEMMA TypesEnqueue ==
  ASSUME Types, NEW d \in Jobs, Create(d) \/ PublishJob(d) \/ Commit(d) \/ PublishFails(d) \/ Rollback(d)
  PROVE  Types'
  <1>1. EnqueuesTyped'
    BY DEF Create, PublishJob, Commit, PublishFails, Rollback, Enqueued, Types, TypeOK, EnqueuesTyped
  <1>2. HandlersTyped' /\ CallsTyped'
    <2>1. UNCHANGED <<hd, call>>
      BY DEF Create, PublishJob, Commit, PublishFails, Rollback
    <2> QED
      BY <2>1, Kept
  <1>3. RowsTyped'
    <2>1. row' = [row EXCEPT ![d] = NewRow] \/ UNCHANGED row
      BY DEF Create, PublishJob, Commit, PublishFails, Rollback, rowVars
    <2>2. Sound(NewRow)
      BY RowTypes
    <2> QED
      BY <2>1, <2>2, Kept, RowSet DEF RowsTyped
  <1>4. CountsTyped'
    <2>1. UNCHANGED <<log, posts, received, retries>> /\ (Fault \/ UNCHANGED faults)
      BY DEF Create, PublishJob, Commit, PublishFails, Rollback, rowVars, endpoint
    <2> QED
      BY <2>1, Kept, FaultCounts
  <1>5. QueueTypeOK'
    <2>1. Publish(d) \/ UNCHANGED queueVars
      BY DEF Create, PublishJob, Commit, PublishFails, Rollback
    <2> QED
      BY <2>1, Kept, PublishTypes DEF Types, TypeOK
  <1> QED
    BY <1>1, <1>2, <1>3, <1>4, <1>5, TypesPartsNext

LEMMA TypesLoad ==
  ASSUME Types, NEW c \in Consumers, Load(c)
  PROVE  Types'
  <1>1. PICK d \in Jobs, pc \in {"ack", "giveUp", "post"} :
           /\ pc \in Verdicts(row[d]) /\ Take(c, d)
           /\ hd' = [hd EXCEPT ![c] = [pc |-> pc, job |-> d, copy |-> row[d], answer |-> "ok"]]
    BY DEF Load, Verdicts
  <1> DEFINE k == [pc |-> pc, job |-> d, copy |-> row[d], answer |-> "ok"]
  <1>2. row[d] \in Row /\ Sound(row[d]) /\ row[d].attempts \in Nat /\ row[d].max \in Nat
    BY DEF Types, TypeOK, Sound, Row
  <1>3. pc = "post" => row[d].attempts < row[d].max
    BY <1>1, <1>2 DEF Verdicts
  <1>4. /\ k \in Handler /\ k.pc = pc /\ k.job = d /\ k.copy = row[d]
    BY <1>2, <1>3 DEF Handler, AnswerKinds
  <1>5. hd' = [hd EXCEPT ![c] = k]
    BY <1>1
  <1> HIDE DEF k
  <1>6. HandlersTyped'
    BY <1>2, <1>3, <1>4, <1>5, HandlerSet DEF HandlersTyped
  <1>7. UNCHANGED <<row, log, enq, call, posts, received, retries, faults>>
    BY DEF Load, rowVars, endpoint
  <1>8. QueueTypeOK'
    BY <1>1, TakeTypes DEF Types, TypeOK
  <1> QED
    BY <1>6, <1>7, <1>8, Kept, TypesPartsNext

LEMMA TypesGiveUp ==
  ASSUME Types, NEW c \in Consumers, GiveUp(c)
  PROVE  Types'
  <1> DEFINE k == [hd[c].copy EXCEPT !.st = "failed"]
  <1>1. hd[c].pc = "giveUp" /\ hd[c].job \in Jobs /\ Sound(hd[c].copy)
    BY DEF GiveUp, Handling, Types, HandlerTyped
  <1>2. Sound(k)
    BY <1>1 DEF Sound, Row
  <1>3. row' = [row EXCEPT ![hd[c].job] = k] /\ hd' = [hd EXCEPT ![c].pc = "ack"]
        /\ UNCHANGED <<queueVars, log, enq, call, posts, received, retries, faults>>
    BY DEF GiveUp, endpoint
  <1> HIDE DEF k
  <1>4. RowsTyped'
    BY <1>1, <1>2, <1>3, RowSet DEF RowsTyped
  <1>5. HandlersTyped'
    BY <1>1, <1>3, HandlerPlace DEF HandlersTyped
  <1> QED
    BY <1>3, <1>4, <1>5, Kept, TypesPartsNext

LEMMA TypesPost ==
  ASSUME Types, NEW c \in Consumers, Post(c)
  PROVE  Types'
  <1>1. PICK a \in Answers, x \in {received, received \cup {hd[c].job}} :
          /\ a = "ok" => hd[c].job \in x
          /\ received' = x
          /\ hd' = [hd EXCEPT ![c] = [pc |-> "record", job |-> hd[c].job, answer |-> a,
                                      copy |-> Attempted(hd[c].copy, a)]]
    BY DEF Post
  <1> DEFINE new == Attempted(hd[c].copy, a)
             k == [pc |-> "record", job |-> hd[c].job, answer |-> a, copy |-> new]
  <1>2. hd[c].pc = "post" /\ hd[c].job \in Jobs /\ Sound(hd[c].copy)
        /\ hd[c].copy.attempts < hd[c].copy.max
    BY DEF Post, Handling, Types, HandlerTyped
  <1>3. Sound(new)
    BY <1>2, AttemptedSound
  <1>4. hd' = [hd EXCEPT ![c] = k]
    BY <1>1
  <1> HIDE DEF new
  <1>5. k \in Handler /\ k.pc = "record" /\ k.job = hd[c].job /\ k.copy = new
    BY <1>2, <1>3, DeliveryAssumption DEF Handler, Sound
  <1> HIDE DEF k
  <1>6. HandlersTyped'
    BY <1>2, <1>3, <1>4, <1>5, HandlerSet DEF HandlersTyped
  <1>7. posts' = [posts EXCEPT ![hd[c].job] = @ + 1]
        /\ UNCHANGED <<queueVars, row, log, enq, call, retries, faults>>
    BY DEF Post, rowVars
  <1>8. CountsTyped'
    <2>1. received' \subseteq Jobs
      BY <1>1, <1>2 DEF Types, TypeOK
    <2>2. posts' \in [Jobs -> Nat]
      BY <1>2, <1>7 DEF Types, TypeOK
    <2> QED
      BY <1>7, <2>1, <2>2 DEF Types, TypeOK, CountsTyped
  <1> QED
    BY <1>6, <1>7, <1>8, Kept, TypesPartsNext

LEMMA TypesRecord ==
  ASSUME Types, NEW c \in Consumers, Record(c)
  PROVE  Types'
  <1>1. hd[c].pc = "record" /\ hd[c].job \in Jobs
    BY DEF Record, Handling, Types, HandlerTyped
  <1>2. /\ hd' = [hd EXCEPT ![c].pc = "save"] /\ log' = [log EXCEPT ![hd[c].job] = @ + 1]
        /\ UNCHANGED <<queueVars, row, enq, call, posts, received, retries, faults>>
    BY DEF Record, endpoint
  <1>3. HandlersTyped'
    BY <1>1, <1>2, HandlerPlace DEF HandlersTyped
  <1>4. CountsTyped'
    BY <1>1, <1>2 DEF Types, TypeOK, CountsTyped
  <1> QED
    BY <1>2, <1>3, <1>4, Kept, TypesPartsNext

LEMMA SaveEffect ==
  ASSUME NEW c \in Consumers, Save(c)
  PROVE  /\ hd[c].pc = "save"
         /\ row' = [row EXCEPT ![hd[c].job] = hd[c].copy]
         /\ \E pc \in {"requeue", "ack"} :
              /\ hd' = [hd EXCEPT ![c].pc = pc]
              /\ pc = "ack" => hd[c].answer # "fail" \/ hd[c].copy.st # "pending"
         /\ UNCHANGED <<queueVars, log, enq, call, posts, received, retries, faults>>
  BY DEF Save, Handling, endpoint

LEMMA TypesSave ==
  ASSUME Types, NEW c \in Consumers, Save(c)
  PROVE  Types'
  <1>1. /\ hd[c].pc = "save" /\ row' = [row EXCEPT ![hd[c].job] = hd[c].copy]
        /\ UNCHANGED <<queueVars, log, enq, call, posts, received, retries, faults>>
    BY SaveEffect
  <1>2. hd[c].job \in Jobs /\ Sound(hd[c].copy)
    BY <1>1 DEF Types, HandlerTyped
  <1>3. PICK pc \in {"requeue", "ack"} : hd' = [hd EXCEPT ![c].pc = pc]
    BY SaveEffect
  <1>4. HandlersTyped'
    BY <1>1, <1>3, HandlerPlace DEF HandlersTyped
  <1>5. RowsTyped'
    BY <1>1, <1>2, RowSet DEF RowsTyped
  <1> QED
    BY <1>1, <1>4, <1>5, Kept, TypesPartsNext

\* A handler ends, or its process starts again.
LEMMA TypesIdle ==
  ASSUME Types, NEW c \in Consumers, hd' = [hd EXCEPT ![c] = IdleHandler]
  PROVE  HandlersTyped'
  BY RowTypes, HandlerSet DEF HandlersTyped

LEMMA TypesEnd ==
  ASSUME Types, NEW c \in Consumers, Finish(c) \/ Restart(c)
  PROVE  Types'
  <1>1. HandlersTyped'
    BY TypesIdle DEF Finish, Restart
  <1>2. QueueTypeOK'
    BY AckTypes, NackTypes DEF Finish, Restart, Types, TypeOK
  <1>3. UNCHANGED <<row, log, enq, call, posts, received, retries, faults>>
    BY DEF Finish, Restart, rowVars, endpoint
  <1> QED
    BY <1>1, <1>2, <1>3, Kept, TypesPartsNext

LEMMA TypesHandlerFails ==
  ASSUME Types, NEW c \in Consumers, HandlerFails(c)
  PROVE  Types'
  <1>1. /\ hd[c].pc # "idle" /\ hd' = [hd EXCEPT ![c].pc = "requeue"] /\ Fault
        /\ UNCHANGED <<queueVars, row, log, enq, call, posts, received, retries>>
    BY DEF HandlerFails, rowVars, endpoint
  <1>2. HandlersTyped'
    BY <1>1, HandlerPlace DEF HandlersTyped
  <1>3. CountsTyped'
    BY <1>1, FaultCounts
  <1> QED
    BY <1>1, <1>2, <1>3, Kept, TypesPartsNext

LEMMA TypesLost ==
  ASSUME Types, NEW c \in Consumers, ConnectionLost(c)
  PROVE  Types'
  <1>1. /\ Disconnect(c, hd[c].job) /\ Fault
        /\ UNCHANGED <<row, log, enq, hd, call, posts, received, retries>>
    BY DEF ConnectionLost, rowVars, endpoint
  <1>2. QueueTypeOK'
    BY <1>1, NackTypes DEF Types, TypeOK
  <1>3. CountsTyped'
    BY <1>1, FaultCounts
  <1> QED
    BY <1>1, <1>2, <1>3, Kept, TypesPartsNext

LEMMA TypesRetryRead ==
  ASSUME Types, NEW r \in Callers, NEW d \in Jobs, RetryRead(r, d)
  PROVE  Types'
  <1> DEFINE max == IF row[d].attempts >= row[d].max THEN row[d].attempts + 1 ELSE row[d].max
             new == [st |-> "pending", attempts |-> row[d].attempts, max |-> max]
             k == [pc |-> "save", job |-> d, copy |-> new]
  <1>1. /\ call' = [call EXCEPT ![r] = k] /\ retries' = retries + 1
        /\ UNCHANGED <<queueVars, row, log, enq, hd, posts, received, faults>>
    BY DEF RetryRead, rowVars, endpoint
  <1>2. row[d].attempts \in Nat /\ row[d].max \in Nat
    BY DEF Types, TypeOK, Row
  <1>3. max \in Nat /\ row[d].attempts <= max
    BY <1>2
  <1> HIDE DEF max
  <1>4. Sound(new)
    BY <1>2, <1>3 DEF Sound, Row
  <1> HIDE DEF new
  <1>5. k \in Call /\ k.copy = new /\ k.job = d
    BY <1>4 DEF Sound, Call
  <1> HIDE DEF k
  <1>6. CallsTyped'
    BY <1>1, <1>4, <1>5, CallSet DEF CallsTyped
  <1>7. CountsTyped'
    BY <1>1 DEF Types, TypeOK, CountsTyped
  <1> QED
    BY <1>1, <1>6, <1>7, Kept, TypesPartsNext

LEMMA TypesRetrySave ==
  ASSUME Types, NEW r \in Callers, RetrySave(r)
  PROVE  Types'
  <1>1. /\ call[r].pc = "save" /\ call' = [call EXCEPT ![r].pc = "publish"]
        /\ row' = [row EXCEPT ![call[r].job] = call[r].copy]
        /\ UNCHANGED <<queueVars, log, enq, hd, posts, received, retries, faults>>
    BY DEF RetrySave, endpoint
  <1>2. call[r].job \in Jobs /\ Sound(call[r].copy)
    BY <1>1 DEF Types, CallTyped
  <1>3. CallsTyped'
    BY <1>1, CallPlace DEF CallsTyped
  <1>4. RowsTyped'
    BY <1>1, <1>2, RowSet DEF RowsTyped
  <1> QED
    BY <1>1, <1>3, <1>4, Kept, TypesPartsNext

LEMMA TypesRetryEnd ==
  ASSUME Types, NEW r \in Callers, RetryPublish(r) \/ RetryFails(r)
  PROVE  Types'
  <1>1. call' = [call EXCEPT ![r] = IdleCall]
        /\ UNCHANGED <<row, log, enq, hd, posts, received, retries>>
    BY DEF RetryPublish, RetryFails, rowVars, endpoint
  <1>2. CallsTyped'
    BY <1>1, RowTypes, CallSet DEF CallsTyped
  <1>3. QueueTypeOK'
    BY Kept, PublishTypes DEF RetryPublish, RetryFails, Types, TypeOK
  <1>4. CountsTyped'
    BY <1>1, Kept, FaultCounts DEF RetryPublish, RetryFails
  <1> QED
    BY <1>1, <1>2, <1>3, <1>4, Kept, TypesPartsNext

LEMMA TypesNext == Types /\ [Next]_vars => Types'
  <1> SUFFICES ASSUME Types, [Next]_vars PROVE Types'
    OBVIOUS
  <1>1. CASE UNCHANGED vars
    BY <1>1, Kept, TypesPartsNext DEF vars, rowVars, endpoint
  <1>2. CASE Next
    BY <1>2, TypesEnqueue, TypesLoad, TypesGiveUp, TypesPost, TypesRecord, TypesSave, TypesEnd,
       TypesHandlerFails, TypesLost, TypesRetryRead, TypesRetrySave, TypesRetryEnd
       DEF Next, Enqueue, Handle, Retry
  <1> QED
    BY <1>1, <1>2

LEMMA TypesInvariant == Spec => []Types
  BY TypesInit, TypesNext, PTL DEF Spec

\* Whoever stores its copy last, no delivery counts more attempts than it
\* allows (send-tenant-webhook.go:124, webhook_delivery.go:113).
THEOREM DeliveryTypeCorrect == Spec => []TypeOK
  <1>1. Types => TypeOK
    BY DEF Types
  <1> QED
    BY <1>1, TypesInvariant, PTL
-----------------------------------------------------------------------------
(* A copy that says delivered follows the endpoint's receipt; calls that   *)
(* retry never say so.                                                     *)

Receipts ==
    /\ \A d \in Jobs : row[d].st = "delivered" => d \in received
    /\ \A c \in Consumers : hd[c].copy.st = "delivered" => hd[c].job \in received
    /\ \A r \in Callers : call[r].copy.st # "delivered"

LEMMA ReceiptsInit == Init => Receipts
  BY RowTypes DEF Init, Receipts

\* How a step moves handlers, calls and rows.
LEMMA HandlerEffect ==
  ASSUME Types, Next, NEW c \in Consumers
  PROVE  \/ hd'[c].copy = hd[c].copy /\ hd'[c].job = hd[c].job
         \/ hd'[c] = IdleHandler
         \/ hd'[c].job \in Jobs /\ hd'[c].copy = row[hd'[c].job]
         \/ /\ hd'[c].job \in Jobs
            /\ hd'[c].copy.st = "delivered" => hd'[c].job \in received'
  <1>1. CASE hd'[c] = hd[c]
    BY <1>1
  <1>2. CASE Load(c)
    <2>0. PICK d \in Jobs, pc \in {"ack", "giveUp", "post"} :
             hd' = [hd EXCEPT ![c] = [pc |-> pc, job |-> d, copy |-> row[d], answer |-> "ok"]]
      BY <1>2 DEF Load, Verdicts
    <2> DEFINE k == [pc |-> pc, job |-> d, copy |-> row[d], answer |-> "ok"]
    <2>1. hd' = [hd EXCEPT ![c] = k] /\ k.job = d /\ k.copy = row[d]
      BY <2>0
    <2> HIDE DEF k
    <2>2. hd'[c] = k
      BY <2>1 DEF Types, TypeOK
    <2> QED
      BY <2>1, <2>2
  <1>3. CASE Post(c)
    <2>1. PICK a \in Answers :
            /\ a = "ok" => hd[c].job \in received'
            /\ hd' = [hd EXCEPT ![c] = [pc |-> "record", job |-> hd[c].job, answer |-> a,
                                        copy |-> Attempted(hd[c].copy, a)]]
      BY <1>3 DEF Post
    <2> DEFINE new == Attempted(hd[c].copy, a)
               k == [pc |-> "record", job |-> hd[c].job, answer |-> a, copy |-> new]
    <2>2. /\ new.st = "delivered" => a = "ok"
          /\ hd[c].job \in Jobs
      BY <1>3, AttemptedSound DEF Post, Handling, Types, HandlerTyped
    <2> HIDE DEF new
    <2>3. hd' = [hd EXCEPT ![c] = k] /\ k.job = hd[c].job /\ k.copy = new
      BY <2>1 DEF new
    <2> HIDE DEF k
    <2>4. hd'[c] = k
      BY <2>3 DEF Types, TypeOK
    <2> QED
      BY <2>1, <2>2, <2>3, <2>4
  <1>4. CASE \E pc \in {"save", "ack", "requeue"} : hd' = [hd EXCEPT ![c].pc = pc] /\ hd[c].pc # "idle"
    BY <1>4, HandlerPlace
  <1>5. CASE hd' = [hd EXCEPT ![c] = IdleHandler]
    BY <1>5 DEF Types, TypeOK
  <1>6. CASE \E b \in Consumers \ {c} : \E k : hd' = [hd EXCEPT ![b] = k]
    <2>1. hd'[c] = hd[c]
      BY <1>6 DEF Types, TypeOK
    <2> QED
      BY <2>1
  <1>7. CASE \E b \in Consumers \ {c} : \E pc : hd' = [hd EXCEPT ![b].pc = pc]
    <2>1. hd'[c] = hd[c]
      BY <1>7 DEF Types, TypeOK
    <2> QED
      BY <2>1
  <1>8. ASSUME NEW b \in Consumers, Load(b) \/ Handle(b) \/ HandlerFails(b) \/ Restart(b)
        PROVE  \/ Load(b) \/ Post(b)
               \/ \E pc \in {"save", "ack", "requeue"} :
                    hd' = [hd EXCEPT ![b].pc = pc] /\ hd[b].pc # "idle"
               \/ hd' = [hd EXCEPT ![b] = IdleHandler]
    <2>1. GiveUp(b) \/ Record(b) \/ HandlerFails(b)
          => \E pc \in {"save", "ack", "requeue"} :
               hd' = [hd EXCEPT ![b].pc = pc] /\ hd[b].pc # "idle"
      BY DEF GiveUp, Record, HandlerFails, Handling
    <2>2. Save(b) => \E pc \in {"save", "ack", "requeue"} :
                       hd' = [hd EXCEPT ![b].pc = pc] /\ hd[b].pc # "idle"
      BY SaveEffect
    <2>3. Finish(b) \/ Restart(b) => hd' = [hd EXCEPT ![b] = IdleHandler]
      BY DEF Finish, Restart
    <2> QED
      BY <1>8, <2>1, <2>2, <2>3 DEF Handle
  <1>9. CASE \E b \in Consumers : Load(b) \/ Handle(b) \/ HandlerFails(b) \/ Restart(b)
    <2>1. PICK b \in Consumers : Load(b) \/ Handle(b) \/ HandlerFails(b) \/ Restart(b)
      BY <1>9
    <2>2. CASE b = c
      BY <1>2, <1>3, <1>4, <1>5, <1>8, <2>1, <2>2
    <2>3. CASE b # c
      <3>1. Load(b) \/ Post(b) => \E k : hd' = [hd EXCEPT ![b] = k]
        BY DEF Load, Post
      <3> QED
        BY <1>6, <1>7, <1>8, <2>1, <2>3, <3>1
    <2> QED
      BY <2>2, <2>3
  <1>10. CASE UNCHANGED hd
    BY <1>1, <1>10
  <1> QED
    BY <1>9, <1>10
       DEF Next, Create, Enqueue, PublishJob, Commit, PublishFails, Rollback, ConnectionLost, Retry,
           RetrySave, RetryPublish, RetryFails, RetryRead

\* What may be stored over a row.
LEMMA RowEffect ==
  ASSUME Types, Next, NEW d \in Jobs
  PROVE  \/ row'[d] = row[d]
         \/ row'[d] = NewRow
         \/ \E c \in Consumers : GiveUp(c) /\ hd[c].job = d /\ row'[d].st = "failed"
         \/ \E c \in Consumers : Save(c) /\ hd[c].job = d /\ row'[d] = hd[c].copy
         \/ \E r \in Callers : RetrySave(r) /\ call[r].job = d /\ row'[d] = call[r].copy
  <1>1. CASE Create(d) \/ Commit(d)
    BY <1>1 DEF Create, Commit, Types, TypeOK
  <1>2. CASE \E e \in Jobs \ {d} : Create(e) \/ Commit(e)
    BY <1>2 DEF Create, Commit, Types, TypeOK
  <1>3. CASE \E c \in Consumers : GiveUp(c)
    <2>1. PICK c \in Consumers : GiveUp(c)
      BY <1>3
    <2> DEFINE k == [hd[c].copy EXCEPT !.st = "failed"]
    <2>2. Sound(hd[c].copy)
      BY DEF Types, HandlerTyped
    <2>3. k.st = "failed"
      BY <2>2 DEF Sound, Row
    <2>4. row' = [row EXCEPT ![hd[c].job] = k]
      BY <2>1 DEF GiveUp
    <2> HIDE DEF k
    <2> QED
      BY <2>1, <2>3, <2>4 DEF Types, TypeOK
  <1>4. CASE \E c \in Consumers : Save(c)
    <2>1. PICK c \in Consumers : Save(c)
      BY <1>4
    <2>2. row' = [row EXCEPT ![hd[c].job] = hd[c].copy]
      BY <2>1, SaveEffect
    <2> QED
      BY <2>1, <2>2 DEF Types, TypeOK
  <1>5. CASE \E r \in Callers : RetrySave(r)
    <2>1. PICK r \in Callers : RetrySave(r)
      BY <1>5
    <2>2. row' = [row EXCEPT ![call[r].job] = call[r].copy]
      BY <2>1 DEF RetrySave
    <2> QED
      BY <2>1, <2>2 DEF Types, TypeOK
  <1>6. CASE UNCHANGED row
    BY <1>6
  <1> QED
    BY <1>1, <1>2, <1>3, <1>4, <1>5, <1>6
       DEF Next, Enqueue, PublishJob, PublishFails, Rollback, ConnectionLost, Retry, rowVars, Load,
           Handle, Post, Record, Finish, HandlerFails, Restart, RetryPublish, RetryFails, RetryRead

\* A call either keeps its copy, ends, or reads a row to make it pending.
LEMMA CallEffect ==
  ASSUME Types, Next, NEW r \in Callers
  PROVE  \/ call'[r].copy = call[r].copy
         \/ call'[r].copy.st \in {"none", "pending"}
  <1>1. CASE \E x \in Callers : RetrySave(x)
    <2>1. PICK x \in Callers : RetrySave(x)
      BY <1>1
    <2>2. call[x].pc # "idle" /\ call' = [call EXCEPT ![x].pc = "publish"]
      BY <2>1 DEF RetrySave
    <2> QED
      BY <2>2, CallPlace
  <1>2. CASE \E x \in Callers : RetryPublish(x) \/ RetryFails(x)
    <2>1. PICK x \in Callers : call' = [call EXCEPT ![x] = IdleCall]
      BY <1>2 DEF RetryPublish, RetryFails
    <2> QED
      BY <2>1, RowTypes DEF Types, TypeOK
  <1>3. CASE \E x \in Callers, d \in Jobs : RetryRead(x, d)
    <2>1. PICK x \in Callers, d \in Jobs : RetryRead(x, d)
      BY <1>3
    <2>2. PICK max : call' = [call EXCEPT ![x] =
                       [pc |-> "save", job |-> d,
                        copy |-> [st |-> "pending", attempts |-> row[d].attempts, max |-> max]]]
      BY <2>1 DEF RetryRead
    <2> DEFINE k == [pc |-> "save", job |-> d,
                     copy |-> [st |-> "pending", attempts |-> row[d].attempts, max |-> max]]
    <2>3. k.copy.st = "pending" /\ call' = [call EXCEPT ![x] = k]
      BY <2>2
    <2> HIDE DEF k
    <2> QED
      BY <2>3 DEF Types, TypeOK
  <1>4. CASE UNCHANGED call
    BY <1>4
  <1> QED
    BY <1>1, <1>2, <1>3, <1>4
       DEF Next, Create, Enqueue, PublishJob, Commit, PublishFails, Rollback, ConnectionLost, Retry,
           Load, Handle, GiveUp, Post, Record, Save, Finish, HandlerFails, Restart

\* What an endpoint has processed stays processed.
LEMMA ReceivedEffect ==
  ASSUME Types, Next
  PROVE  received \subseteq received'
  <1>1. \A c \in Consumers : Post(c) => received \subseteq received'
    BY DEF Post
  <1> QED
    BY <1>1
       DEF Next, Create, Enqueue, PublishJob, Commit, PublishFails, Rollback, ConnectionLost, Retry,
           RetrySave, RetryPublish, RetryFails, RetryRead, Load, Handle, GiveUp, Record, Save, Finish,
           HandlerFails, Restart, endpoint

LEMMA ReceiptsNext == Types /\ Receipts /\ [Next]_vars => Receipts'
  <1> SUFFICES ASSUME Types, Receipts, [Next]_vars PROVE Receipts'
    OBVIOUS
  <1>1. CASE UNCHANGED vars
    BY <1>1 DEF vars, rowVars, endpoint, Receipts
  <1>2. CASE Next
    <2>1. received \subseteq received'
      BY <1>2, ReceivedEffect
    <2>2. ASSUME NEW d \in Jobs, row'[d].st = "delivered" PROVE d \in received'
      BY <1>2, <2>1, <2>2, RowEffect, RowTypes DEF Receipts
    <2>3. ASSUME NEW c \in Consumers, hd'[c].copy.st = "delivered"
          PROVE  hd'[c].job \in received'
      BY <1>2, <2>1, <2>3, HandlerEffect, RowTypes DEF Receipts
    <2>4. ASSUME NEW r \in Callers PROVE call'[r].copy.st # "delivered"
      BY <1>2, CallEffect DEF Receipts
    <2> QED
      BY <2>2, <2>3, <2>4 DEF Receipts
  <1> QED
    BY <1>1, <1>2

LEMMA ReceiptsInvariant == Spec => []Receipts
  BY ReceiptsInit, ReceiptsNext, TypesInvariant, PTL DEF Spec

\* Handlers and calls store copies they read without a lock
\* (send-tenant-webhook.go:205, webhook_delivery.go:119): still no delivery is
\* shown as delivered that the endpoint did not process.
THEOREM DeliveredReceivedCorrect == Spec => []DeliveredReceived
  <1>1. Receipts => DeliveredReceived
    BY DEF Receipts, DeliveredReceived
  <1> QED
    BY <1>1, ReceiptsInvariant, PTL
-----------------------------------------------------------------------------
(* Without faults, whoever makes a delivery pending, or takes its message, *)
(* goes on with it.                                                        *)

HandlerCarries(c, d) == hd[c].pc \notin {"idle", "ack"} /\ hd[c].job = d
CallCarries(r, d) == call[r].pc # "idle" /\ call[r].job = d

Carried(d) ==
    \/ enq[d] \in {"created", "createdInTrx", "published"}
    \/ ready[d] > 0
    \/ \E c \in Consumers : HandlerCarries(c, d)
    \/ \E r \in Callers : CallCarries(r, d)

Owed(d) == row[d].st = "pending" /\ enq[d] # "committed"

\* Every message a handler works on is its own, and a copy that is pending
\* after an attempt goes back to the queue.
Attached(c) ==
    /\ c \in consuming
    /\ hd[c].pc # "idle" => c \in unacked
    /\ hd[c].pc \in {"record", "save"} /\ hd[c].copy.st = "pending" => hd[c].answer = "fail"

Carrying ==
    faults = 0 => /\ \A c \in Consumers : Attached(c)
                  /\ \A d \in Jobs : Owed(d) => Carried(d)

LEMMA CarryingInit == Init => Carrying
  BY RowTypes DEF Init, QueueInit, Carrying, Attached, Owed

\* The faults that happened are never forgotten.
LEMMA NoFault ==
  ASSUME Types, Next, faults' = 0
  PROVE  faults = 0 /\ ~Fault
  <1>1. faults \in Nat /\ (Fault => faults' = faults + 1)
    BY FaultType DEF Types, TypeOK
  <1>2. faults' = faults \/ Fault
    BY DEF Next, Create, Enqueue, PublishJob, Commit, PublishFails, Rollback, ConnectionLost, Retry,
           RetrySave, RetryPublish, RetryFails, RetryRead, Load, Handle, GiveUp, Post, Record, Save,
           Finish, HandlerFails, Restart
  <1> QED
    BY <1>1, <1>2

\* A delivery stays carried when its enqueue, its messages, its calls and all
\* handlers but c stay, and c does not carry it or goes on carrying it.
LEMMA CarriedKept ==
  ASSUME NEW d \in Jobs, Carried(d), NEW c \in Consumers,
         enq'[d] = enq[d], ready'[d] = ready[d], UNCHANGED call,
         \A b \in Consumers \ {c} : hd'[b] = hd[b],
         HandlerCarries(c, d) => HandlerCarries(c, d)'
  PROVE  Carried(d)'
  BY DEF Carried, HandlerCarries, CallCarries

LEMMA CarryEnqueue ==
  ASSUME Types, Carrying, faults = 0, NEW e \in Jobs, Create(e) \/ PublishJob(e) \/ Commit(e),
         NEW d \in Jobs, Owed(d)'
  PROVE  Carried(d)'
  <1>1. UNCHANGED <<hd, call>> /\ enq \in [Jobs -> {"idle", "created", "createdInTrx", "published",
                                                    "done", "committed", "rolledBack"}]
    BY DEF Create, PublishJob, Commit, Types, TypeOK
  <1>2. CASE e # d
    <2>1. enq'[d] = enq[d] /\ row'[d] = row[d] /\ ready'[d] = ready[d]
      BY <1>1, <1>2 DEF Create, PublishJob, Commit, Enqueued, Publish, Types, TypeOK, QueueTypeOK,
                   queueVars, rowVars
    <2> QED
      BY <1>1, <2>1 DEF Carrying, Owed, Carried, HandlerCarries, CallCarries
  <1>3. CASE e = d /\ PublishJob(e)
    <2>1. ready'[d] = ready[d] + 1 /\ ready[d] \in Nat
      BY <1>3 DEF PublishJob, Publish, Types, TypeOK, QueueTypeOK
    <2>2. ready'[d] > 0
      BY <2>1
    <2> QED
      BY <2>2 DEF Carried
  <1>4. CASE e = d /\ (Create(e) \/ Commit(e))
    <2>1. enq'[d] \in {"created", "createdInTrx", "committed"}
      BY <1>1, <1>4 DEF Create, Commit, Enqueued
    <2> QED
      BY <2>1 DEF Owed, Carried
  <1> QED
    BY <1>2, <1>3, <1>4

LEMMA CarryLoad ==
  ASSUME Types, Carrying, faults = 0, NEW c \in Consumers, Load(c), NEW d \in Jobs
  PROVE  (Owed(d)' => Carried(d)') /\ \A b \in Consumers : Attached(b)'
  <1>1. PICK e \in Jobs, pc \in {"ack", "giveUp", "post"} :
           /\ pc \in Verdicts(row[e]) /\ Take(c, e)
           /\ hd' = [hd EXCEPT ![c] = [pc |-> pc, job |-> e, copy |-> row[e], answer |-> "ok"]]
    BY DEF Load, Verdicts
  <1> DEFINE k == [pc |-> pc, job |-> e, copy |-> row[e], answer |-> "ok"]
  <1>2. hd' = [hd EXCEPT ![c] = k] /\ k.pc = pc /\ k.job = e
    BY <1>1
  <1> HIDE DEF k
  <1>3. hd'[c] = k /\ \A b \in Consumers \ {c} : hd'[b] = hd[b]
    BY <1>2 DEF Types, TypeOK
  <1>4. hd[c].pc = "idle" /\ UNCHANGED <<row, enq, call>>
    BY DEF Load, Handling, rowVars
  <1>5. ASSUME Owed(d)' PROVE Carried(d)'
    <2>0. Owed(d)
      BY <1>4, <1>5 DEF Owed
    <2>1. CASE e = d
      <3>1. pc # "ack"
        BY <1>1, <2>0, <2>1 DEF Owed, Verdicts
      <3> QED
        BY <1>2, <1>3, <2>1, <3>1 DEF Carried, HandlerCarries
    <2>2. CASE e # d
      <3>1. ready'[d] = ready[d]
        BY <1>1, <2>2 DEF Take, Types, TypeOK, QueueTypeOK
      <3>2. Carried(d) /\ ~HandlerCarries(c, d)
        BY <1>4, <2>0 DEF Carrying, HandlerCarries
      <3> QED
        BY <1>3, <1>4, <3>1, <3>2, CarriedKept
    <2> QED
      BY <2>1, <2>2
  <1>6. ASSUME NEW b \in Consumers PROVE Attached(b)'
    BY <1>1, <1>2, <1>3 DEF Take, Carrying, Attached
  <1> QED
    BY <1>5, <1>6

\* A handler moves to another place: its queue and all others stay.
LEMMA CarryPlace ==
  ASSUME Types, Carrying, faults = 0, NEW c \in Consumers, NEW pc \in {"save", "ack", "requeue"},
         hd[c].pc # "idle", hd' = [hd EXCEPT ![c].pc = pc], UNCHANGED <<queueVars, enq, call>>,
         pc = "save" => hd[c].pc = "record", NEW d \in Jobs
  PROVE  /\ \A b \in Consumers : Attached(b)'
         /\ Carried(d) /\ (pc = "ack" => hd[c].job # d) => Carried(d)'
         /\ hd[c].job = d /\ pc # "ack" => Carried(d)'
  <1>1. /\ hd'[c].pc = pc /\ hd'[c].job = hd[c].job /\ hd'[c].copy = hd[c].copy
        /\ hd'[c].answer = hd[c].answer
        /\ \A b \in Consumers \ {c} : hd'[b] = hd[b]
    BY HandlerPlace
  <1>2. ASSUME NEW b \in Consumers PROVE Attached(b)'
    BY <1>1 DEF Carrying, Attached, queueVars
  <1>3. hd[c].job = d /\ pc # "ack" => Carried(d)'
    BY <1>1 DEF Carried, HandlerCarries
  <1>4. Carried(d) /\ (pc = "ack" => hd[c].job # d) => Carried(d)'
    <2> SUFFICES ASSUME Carried(d), pc = "ack" => hd[c].job # d PROVE Carried(d)'
      OBVIOUS
    <2>1. HandlerCarries(c, d) => HandlerCarries(c, d)'
      BY <1>1 DEF HandlerCarries
    <2>2. enq'[d] = enq[d] /\ ready'[d] = ready[d] /\ UNCHANGED call
      BY DEF queueVars
    <2> QED
      BY <1>1, <2>1, <2>2, CarriedKept
  <1> QED
    BY <1>2, <1>3, <1>4

LEMMA CarryGiveUp ==
  ASSUME Types, Carrying, faults = 0, NEW c \in Consumers, GiveUp(c), NEW d \in Jobs
  PROVE  (Owed(d)' => Carried(d)') /\ \A b \in Consumers : Attached(b)'
  <1> DEFINE k == [hd[c].copy EXCEPT !.st = "failed"]
  <1>1. /\ hd[c].pc = "giveUp" /\ hd' = [hd EXCEPT ![c].pc = "ack"]
        /\ UNCHANGED <<queueVars, enq, call>>
    BY DEF GiveUp, Handling
  <1>2. k.st = "failed" /\ row' = [row EXCEPT ![hd[c].job] = k]
    BY DEF GiveUp, Types, HandlerTyped, Sound, Row
  <1> HIDE DEF k
  <1>3. Owed(d)' => hd[c].job # d /\ Owed(d)
    BY <1>1, <1>2 DEF Owed, Types, TypeOK
  <1>4. Owed(d)' => Carried(d)
    BY <1>3 DEF Carrying
  <1> QED
    BY <1>1, <1>3, <1>4, CarryPlace

LEMMA CarryPost ==
  ASSUME Types, Carrying, faults = 0, "odd" \notin Answers, NEW c \in Consumers, Post(c),
         NEW d \in Jobs
  PROVE  (Owed(d)' => Carried(d)') /\ \A b \in Consumers : Attached(b)'
  <1>1. PICK a \in Answers :
          hd' = [hd EXCEPT ![c] = [pc |-> "record", job |-> hd[c].job, answer |-> a,
                                   copy |-> Attempted(hd[c].copy, a)]]
    BY DEF Post
  <1> DEFINE new == Attempted(hd[c].copy, a)
             k == [pc |-> "record", job |-> hd[c].job, answer |-> a, copy |-> new]
  <1>2. hd[c].pc = "post" /\ (new.st = "pending" => a = "fail")
    <2>1. hd[c].pc = "post" /\ Sound(hd[c].copy) /\ hd[c].copy.attempts < hd[c].copy.max
      BY DEF Post, Handling, Types, HandlerTyped
    <2>2. a \in {"ok", "fail"}
      BY DeliveryAssumption DEF AnswerKinds
    <2> QED
      BY <2>1, <2>2, AttemptedSound
  <1> HIDE DEF new
  <1>3. /\ hd' = [hd EXCEPT ![c] = k] /\ k.pc = "record" /\ k.job = hd[c].job /\ k.answer = a
        /\ k.copy = new
    BY <1>1 DEF new
  <1> HIDE DEF k
  <1>4. hd'[c] = k /\ \A b \in Consumers \ {c} : hd'[b] = hd[b]
    BY <1>3 DEF Types, TypeOK
  <1>5. UNCHANGED <<queueVars, row, enq, call>>
    BY DEF Post, rowVars
  <1>6. ASSUME NEW b \in Consumers PROVE Attached(b)'
    BY <1>2, <1>3, <1>4, <1>5 DEF Carrying, Attached, queueVars
  <1>7. (Owed(d)' => Carried(d)) /\ (HandlerCarries(c, d) => HandlerCarries(c, d)')
    BY <1>3, <1>4, <1>5 DEF Carrying, Owed, HandlerCarries
  <1>8. Owed(d)' => Carried(d)'
    BY <1>4, <1>5, <1>7, CarriedKept DEF queueVars
  <1> QED
    BY <1>6, <1>8

LEMMA CarryRecord ==
  ASSUME Types, Carrying, faults = 0, NEW c \in Consumers, Record(c), NEW d \in Jobs
  PROVE  (Owed(d)' => Carried(d)') /\ \A b \in Consumers : Attached(b)'
  <1>1. /\ hd[c].pc = "record" /\ hd' = [hd EXCEPT ![c].pc = "save"]
        /\ UNCHANGED <<queueVars, row, enq, call>>
    BY DEF Record, Handling
  <1>2. Owed(d)' => Carried(d)
    BY <1>1 DEF Owed, Carrying
  <1> QED
    BY <1>1, <1>2, CarryPlace

LEMMA CarrySave ==
  ASSUME Types, Carrying, faults = 0, NEW c \in Consumers, Save(c), NEW d \in Jobs
  PROVE  (Owed(d)' => Carried(d)') /\ \A b \in Consumers : Attached(b)'
  <1>1. /\ hd[c].pc = "save" /\ row' = [row EXCEPT ![hd[c].job] = hd[c].copy]
        /\ UNCHANGED <<queueVars, enq, call>>
    BY SaveEffect
  <1>2. PICK pc \in {"requeue", "ack"} :
          /\ hd' = [hd EXCEPT ![c].pc = pc]
          /\ pc = "ack" => hd[c].answer # "fail" \/ hd[c].copy.st # "pending"
    BY SaveEffect
  <1>3. CASE hd[c].job = d
    <2>1. Owed(d)' => hd[c].copy.st = "pending"
      BY <1>1, <1>3 DEF Owed, Types, TypeOK
    <2>2. Owed(d)' => hd[c].answer = "fail"
      BY <1>1, <2>1 DEF Carrying, Attached
    <2> QED
      BY <1>1, <1>2, <1>3, <2>1, <2>2, CarryPlace
  <1>4. CASE hd[c].job # d
    <2>1. row'[d] = row[d]
      BY <1>1, <1>4 DEF Types, TypeOK
    <2>2. Owed(d)' => Carried(d)
      BY <1>1, <2>1 DEF Owed, Carrying
    <2> QED
      BY <1>1, <1>2, <1>4, <2>2, CarryPlace
  <1> QED
    BY <1>3, <1>4

LEMMA CarryFinish ==
  ASSUME Types, Carrying, faults = 0, NEW c \in Consumers, Finish(c), NEW d \in Jobs
  PROVE  (Owed(d)' => Carried(d)') /\ \A b \in Consumers : Attached(b)'
  <1>1. /\ hd' = [hd EXCEPT ![c] = IdleHandler] /\ UNCHANGED <<row, enq, call, consuming>>
        /\ unacked' = unacked \ {c}
    BY DEF Finish, Ack, Nack, rowVars
  <1>2. hd'[c].pc = "idle" /\ \A b \in Consumers \ {c} : hd'[b] = hd[b]
    BY <1>1, RowTypes DEF Types, TypeOK
  <1>3. ASSUME NEW b \in Consumers PROVE Attached(b)'
    BY <1>1, <1>2 DEF Carrying, Attached
  <1>4. Owed(d)' => Carried(d)
    BY <1>1 DEF Owed, Carrying
  <1>5. CASE HandlerCarries(c, d)
    <2>1. hd[c].pc = "requeue" /\ c \in unacked /\ Nack(c, d)
      BY <1>5 DEF Finish, Handling, HandlerCarries, Carrying, Attached
    <2>2. ready'[d] = ready[d] + 1 /\ ready[d] \in Nat
      BY <2>1 DEF Nack, Requeued, Types, TypeOK, QueueTypeOK
    <2>3. ready'[d] > 0
      BY <2>2
    <2> QED
      BY <1>3, <2>3 DEF Carried
  <1>6. CASE ~HandlerCarries(c, d)
    <2>1. ready'[d] = ready[d]
      BY <1>6 DEF Finish, Handling, HandlerCarries, Ack, Nack, Requeued, Types, TypeOK, QueueTypeOK
    <2>2. Owed(d)' => Carried(d)'
      BY <1>1, <1>2, <1>4, <1>6, <2>1, CarriedKept
    <2> QED
      BY <1>3, <2>2
  <1> QED
    BY <1>5, <1>6

\* A call that retries.
LEMMA CarryRetry ==
  ASSUME Types, Carrying, faults = 0, NEW r \in Callers,
         RetrySave(r) \/ RetryPublish(r) \/ \E e \in Jobs : RetryRead(r, e),
         NEW d \in Jobs, Owed(d)'
  PROVE  Carried(d)'
  <1>1. UNCHANGED <<enq, hd>>
    BY DEF RetrySave, RetryPublish, RetryRead
  <1>2. CASE RetrySave(r)
    <2>1. call'[r].pc = "publish" /\ call'[r].job = call[r].job
          /\ \A b \in Callers \ {r} : call'[b] = call[b]
      BY <1>2, CallPlace DEF RetrySave
    <2>2. CASE call[r].job = d
      BY <2>1, <2>2 DEF Carried, CallCarries
    <2>3. CASE call[r].job # d
      <3>1. row'[d] = row[d] /\ ready' = ready
        BY <1>2, <2>3 DEF RetrySave, Types, TypeOK, queueVars
      <3>2. Carried(d)
        BY <1>1, <3>1 DEF Owed, Carrying
      <3> QED
        BY <1>1, <2>1, <2>3, <3>1, <3>2 DEF Carried, HandlerCarries, CallCarries
    <2> QED
      BY <2>2, <2>3
  <1>3. CASE RetryPublish(r)
    <2>1. /\ \A b \in Callers \ {r} : call'[b] = call[b]
          /\ UNCHANGED row /\ ready' = [ready EXCEPT ![call[r].job] = @ + 1]
      BY <1>3 DEF RetryPublish, rowVars, Publish, Types, TypeOK
    <2>2. Carried(d)
      BY <1>1, <2>1 DEF Owed, Carrying
    <2>3. CASE call[r].job = d
      <3>1. ready'[d] = ready[d] + 1 /\ ready[d] \in Nat
        BY <2>1, <2>3 DEF Types, TypeOK, QueueTypeOK
      <3>2. ready'[d] > 0
        BY <3>1
      <3> QED
        BY <3>2 DEF Carried
    <2>4. CASE call[r].job # d
      <3>1. ready'[d] = ready[d]
        BY <2>1, <2>4 DEF Types, TypeOK, QueueTypeOK
      <3> QED
        BY <1>1, <2>1, <2>2, <2>4, <3>1 DEF Carried, HandlerCarries, CallCarries
    <2> QED
      BY <2>3, <2>4
  <1>4. CASE \E e \in Jobs : RetryRead(r, e)
    <2>1. /\ call[r].pc = "idle" /\ UNCHANGED <<row, ready>>
          /\ \A b \in Callers \ {r} : call'[b] = call[b]
      BY <1>4 DEF RetryRead, rowVars, queueVars, Types, TypeOK
    <2>2. Carried(d)
      BY <1>1, <2>1 DEF Owed, Carrying
    <2> QED
      BY <1>1, <2>1, <2>2 DEF Carried, HandlerCarries, CallCarries
  <1> QED
    BY <1>2, <1>3, <1>4

LEMMA AttachedKept ==
  ASSUME Carrying, faults = 0, UNCHANGED <<hd, unacked, consuming>>, NEW c \in Consumers
  PROVE  Attached(c)'
  BY DEF Carrying, Attached

LEMMA CarryingNext ==
  "odd" \notin Answers /\ Types /\ Carrying /\ [Next]_vars => Carrying'
  <1> SUFFICES ASSUME "odd" \notin Answers, Types, Carrying, [Next]_vars, faults' = 0
               PROVE  /\ \A c \in Consumers : Attached(c)'
                      /\ \A d \in Jobs : Owed(d)' => Carried(d)'
    BY DEF Carrying
  <1>1. CASE UNCHANGED vars
    BY <1>1 DEF vars, queueVars, rowVars, Carrying, Attached, Owed, Carried, HandlerCarries,
                CallCarries
  <1>2. CASE Next
    <2>1. faults = 0 /\ ~Fault
      BY <1>2, NoFault
    <2>2. CASE \E e \in Jobs : Create(e) \/ Enqueue(e)
      <3>1. UNCHANGED <<hd, unacked, consuming>>
        BY <2>2 DEF Create, Enqueue, PublishJob, Commit, Publish, queueVars
      <3> QED
        BY <2>1, <2>2, <3>1, CarryEnqueue, AttachedKept DEF Enqueue
    <2>3. CASE \E r \in Callers : Retry(r) \/ \E e \in Jobs : RetryRead(r, e)
      <3>1. UNCHANGED <<hd, unacked, consuming>>
        BY <2>3 DEF Retry, RetrySave, RetryPublish, RetryRead, Publish, queueVars
      <3> QED
        BY <2>1, <2>3, <3>1, CarryRetry, AttachedKept DEF Retry
    <2>4. CASE \E c \in Consumers : Load(c) \/ Handle(c)
      <3>1. PICK c \in Consumers : Load(c) \/ Handle(c)
        BY <2>4
      <3>2. ASSUME NEW d \in Jobs
            PROVE  (Owed(d)' => Carried(d)') /\ \A b \in Consumers : Attached(b)'
        BY <2>1, <3>1, CarryLoad, CarryGiveUp, CarryPost, CarryRecord, CarrySave, CarryFinish
           DEF Handle
      <3>3. Jobs # {}
        BY <3>1 DEF Load, Handle, GiveUp, Post, Record, Save, Finish, Handling, Types, HandlerTyped
      <3> QED
        BY <3>2, <3>3
    <2>5. \A c \in Consumers : ~Restart(c)
      BY <2>1 DEF Restart, Reattach, Carrying, Attached
    <2> QED
      BY <1>2, <2>1, <2>2, <2>3, <2>4, <2>5
         DEF Next, PublishFails, Rollback, HandlerFails, ConnectionLost, RetryFails
  <1> QED
    BY <1>1, <1>2

LEMMA CarryingInvariant == ASSUME "odd" \notin Answers PROVE Spec => []Carrying
  BY CarryingInit, CarryingNext, TypesInvariant, PTL DEF Spec

\* If endpoints answer with a success or a failure and nothing fails, a pending
\* delivery always has somebody who goes on with it, whatever handlers and
\* retry calls overwrite.
THEOREM NotForgottenCorrect == ASSUME "odd" \notin Answers PROVE Spec => []NotForgotten
  <1>1. Carrying => NotForgotten
    BY DEF Carrying, Owed, Carried, HandlerCarries, CallCarries, NotForgotten, InProgress
  <1> QED
    BY <1>1, CarryingInvariant, PTL
-----------------------------------------------------------------------------
(* Every counted attempt has its record and every record was a post.       *)

Recording(d) == {c \in Consumers : hd[c].pc = "record" /\ hd[c].job = d}

\* A copy that may still be stored counts no attempt that is not recorded.
Recorded ==
    /\ \A d \in Jobs : row[d].attempts <= log[d]
    /\ \A c \in Consumers :
         /\ hd[c].pc \in {"giveUp", "post", "save"} => hd[c].copy.attempts <= log[hd[c].job]
         /\ hd[c].pc = "record" => hd[c].copy.attempts <= log[hd[c].job] + 1
    /\ \A r \in Callers : call[r].pc = "save" => call[r].copy.attempts <= log[call[r].job]

PostedFirst == \A d \in Jobs : log[d] + Cardinality(Recording(d)) <= posts[d]
-----------------------------------------------------------------------------
(* How often an event is posted while nobody calls for a retry.  An event  *)
(* has one message; a handler whose connection was lost goes on without.   *)

Unpublished(d) == enq[d] \in {"idle", "created", "createdInTrx"}
Unseen(d) == enq[d] \in {"idle", "createdInTrx", "published"}

\* The handler that has the message of d, and those that lost it.
Holds(c, d) == c \in unacked /\ hd[c].job = d
Before(d) == {c \in Consumers \ unacked : hd[c].pc \in {"giveUp", "post"} /\ hd[c].job = d}
After(d) == {c \in Consumers \ unacked : hd[c].pc \in {"record", "save"} /\ hd[c].job = d}

OneMessage(d) ==
    /\ ready[d] <= 1
    /\ Unpublished(d) => ready[d] = 0
    /\ ready[d] = 1 \/ Unpublished(d) => \A c \in Consumers : ~Holds(c, d)
    /\ \A b, c \in Consumers : Holds(b, d) /\ Holds(c, d) => b = c

\* Nobody works on a row that is not there yet.
NotYet(d) ==
    Unseen(d) => /\ row[d] = NoRow
                 /\ \A c \in Consumers : hd[c].job = d => hd[c].pc = "ack"

\* A handler without a message may post once more, and may store a copy that
\* counts fewer attempts than the row did.
Spent(d) == posts[d] + 3 * Cardinality(Before(d)) + 2 * Cardinality(After(d))
Allowance == 3 * (1 + faults)

HeldBudget(c, d) ==
    /\ hd[c].pc \in {"giveUp", "post", "requeue"} => Spent(d) + 3 <= Allowance + row[d].attempts
    /\ hd[c].pc \in {"record", "save"} => Spent(d) + 2 <= Allowance + row[d].attempts
    /\ hd[c].pc \in {"post", "record", "save"} =>
         Spent(d) + 3 <= Allowance + hd[c].copy.attempts

Budget(d) ==
    /\ Spent(d) <= Allowance
    /\ Unpublished(d) \/ ready[d] = 1 => Spent(d) + 3 <= Allowance + row[d].attempts
    /\ \A c \in Consumers : Holds(c, d) => HeldBudget(c, d)

SmallRows ==
    /\ \A d \in Jobs : row[d].max <= MaxAttempts
    /\ \A c \in Consumers : hd[c].copy.max <= MaxAttempts
    /\ \A c \in Consumers : hd[c].pc \in {"record", "save"} => hd[c].copy.attempts >= 1
    /\ \A r \in Callers : call[r].pc = "idle"
-----------------------------------------------------------------------------
(* What each step of a handler does to the copies.                         *)

LEMMA LoadEffect ==
  ASSUME Types, NEW c \in Consumers, Load(c)
  PROVE  \E d \in Jobs, pc \in {"ack", "giveUp", "post"} :
           /\ Take(c, d) /\ pc \in Verdicts(row[d])
           /\ hd'[c].pc = pc /\ hd'[c].job = d /\ hd'[c].copy = row[d]
           /\ hd[c].pc = "idle"
           /\ \A b \in Consumers \ {c} : hd'[b] = hd[b]
           /\ UNCHANGED <<row, log, enq, call, posts, retries, faults>>
  <1>1. PICK d \in Jobs, pc \in {"ack", "giveUp", "post"} :
           /\ pc \in Verdicts(row[d]) /\ Take(c, d)
           /\ hd' = [hd EXCEPT ![c] = [pc |-> pc, job |-> d, copy |-> row[d], answer |-> "ok"]]
    BY DEF Load, Verdicts
  <1> DEFINE k == [pc |-> pc, job |-> d, copy |-> row[d], answer |-> "ok"]
  <1>2. k.pc = pc /\ k.job = d /\ k.copy = row[d] /\ hd' = [hd EXCEPT ![c] = k]
    BY <1>1
  <1> HIDE DEF k
  <1>3. hd'[c] = k /\ \A b \in Consumers \ {c} : hd'[b] = hd[b]
    BY <1>2 DEF Types, TypeOK
  <1>4. hd[c].pc = "idle" /\ UNCHANGED <<row, log, enq, call, posts, retries, faults>>
    BY DEF Load, Handling, rowVars, endpoint
  <1> QED
    BY <1>1, <1>2, <1>3, <1>4

LEMMA GiveUpEffect ==
  ASSUME Types, NEW c \in Consumers, GiveUp(c)
  PROVE  /\ hd[c].pc = "giveUp" /\ hd[c].job \in Jobs
         /\ hd'[c].pc = "ack" /\ hd'[c].job = hd[c].job /\ hd'[c].copy = hd[c].copy
         /\ \A b \in Consumers \ {c} : hd'[b] = hd[b]
         /\ row'[hd[c].job].attempts = hd[c].copy.attempts
         /\ row'[hd[c].job].max = hd[c].copy.max
         /\ \A e \in Jobs \ {hd[c].job} : row'[e] = row[e]
         /\ UNCHANGED <<queueVars, log, enq, call, posts, retries, faults>>
  <1> DEFINE k == [hd[c].copy EXCEPT !.st = "failed"]
  <1>1. hd[c].pc = "giveUp" /\ hd[c].job \in Jobs /\ Sound(hd[c].copy)
    BY DEF GiveUp, Handling, Types, HandlerTyped
  <1>2. k.attempts = hd[c].copy.attempts /\ k.max = hd[c].copy.max
    BY <1>1 DEF Sound, Row
  <1>3. /\ row' = [row EXCEPT ![hd[c].job] = k] /\ hd' = [hd EXCEPT ![c].pc = "ack"]
        /\ UNCHANGED <<queueVars, log, enq, call, posts, retries, faults>>
    BY DEF GiveUp, endpoint
  <1> HIDE DEF k
  <1>4. row'[hd[c].job] = k /\ \A e \in Jobs \ {hd[c].job} : row'[e] = row[e]
    BY <1>1, <1>3 DEF Types, TypeOK
  <1> QED
    BY <1>1, <1>2, <1>3, <1>4, HandlerPlace

LEMMA PostEffect ==
  ASSUME Types, NEW c \in Consumers, Post(c)
  PROVE  /\ hd[c].pc = "post" /\ hd[c].job \in Jobs
         /\ hd'[c].pc = "record" /\ hd'[c].job = hd[c].job
         /\ hd'[c].copy.attempts = hd[c].copy.attempts + 1
         /\ hd'[c].copy.max = hd[c].copy.max
         /\ \A b \in Consumers \ {c} : hd'[b] = hd[b]
         /\ posts' = [posts EXCEPT ![hd[c].job] = @ + 1]
         /\ UNCHANGED <<queueVars, row, log, enq, call, retries, faults>>
  <1>1. PICK a \in Answers :
          hd' = [hd EXCEPT ![c] = [pc |-> "record", job |-> hd[c].job, answer |-> a,
                                   copy |-> Attempted(hd[c].copy, a)]]
    BY DEF Post
  <1> DEFINE new == Attempted(hd[c].copy, a)
             k == [pc |-> "record", job |-> hd[c].job, answer |-> a, copy |-> new]
  <1>2. new.attempts = hd[c].copy.attempts + 1 /\ new.max = hd[c].copy.max
    BY DEF Attempted
  <1>3. hd' = [hd EXCEPT ![c] = k]
    BY <1>1
  <1> HIDE DEF new
  <1>4. k.pc = "record" /\ k.job = hd[c].job /\ k.copy = new
    OBVIOUS
  <1> HIDE DEF k
  <1>5. hd'[c] = k /\ \A b \in Consumers \ {c} : hd'[b] = hd[b]
    BY <1>3 DEF Types, TypeOK
  <1>6. /\ hd[c].pc = "post" /\ hd[c].job \in Jobs
        /\ posts' = [posts EXCEPT ![hd[c].job] = @ + 1]
        /\ UNCHANGED <<queueVars, row, log, enq, call, retries, faults>>
    BY DEF Post, Handling, Types, HandlerTyped, rowVars
  <1> QED
    BY <1>2, <1>4, <1>5, <1>6

LEMMA RecordEffect ==
  ASSUME Types, NEW c \in Consumers, Record(c)
  PROVE  /\ hd[c].pc = "record" /\ hd[c].job \in Jobs
         /\ hd'[c].pc = "save" /\ hd'[c].job = hd[c].job /\ hd'[c].copy = hd[c].copy
         /\ \A b \in Consumers \ {c} : hd'[b] = hd[b]
         /\ log' = [log EXCEPT ![hd[c].job] = @ + 1]
         /\ UNCHANGED <<queueVars, row, enq, call, posts, retries, faults>>
  <1>1. /\ hd[c].pc = "record" /\ hd[c].job \in Jobs /\ hd' = [hd EXCEPT ![c].pc = "save"]
        /\ log' = [log EXCEPT ![hd[c].job] = @ + 1]
        /\ UNCHANGED <<queueVars, row, enq, call, posts, retries, faults>>
    BY DEF Record, Handling, Types, HandlerTyped, endpoint
  <1> QED
    BY <1>1, HandlerPlace

LEMMA StoreEffect ==
  ASSUME Types, NEW c \in Consumers, Save(c)
  PROVE  /\ hd[c].pc = "save" /\ hd[c].job \in Jobs
         /\ hd'[c].pc \in {"requeue", "ack"}
         /\ hd'[c].job = hd[c].job /\ hd'[c].copy = hd[c].copy
         /\ \A b \in Consumers \ {c} : hd'[b] = hd[b]
         /\ row'[hd[c].job] = hd[c].copy
         /\ \A e \in Jobs \ {hd[c].job} : row'[e] = row[e]
         /\ UNCHANGED <<queueVars, log, enq, call, posts, retries, faults>>
  <1>1. PICK pc \in {"requeue", "ack"} : hd' = [hd EXCEPT ![c].pc = pc]
    BY SaveEffect
  <1>2. /\ hd[c].pc = "save" /\ row' = [row EXCEPT ![hd[c].job] = hd[c].copy]
        /\ UNCHANGED <<queueVars, log, enq, call, posts, retries, faults>>
    BY SaveEffect
  <1>3. hd[c].job \in Jobs
    BY <1>2 DEF Types, HandlerTyped
  <1>4. row'[hd[c].job] = hd[c].copy /\ \A e \in Jobs \ {hd[c].job} : row'[e] = row[e]
    BY <1>2, <1>3 DEF Types, TypeOK
  <1> QED
    BY <1>1, <1>2, <1>3, <1>4, HandlerPlace

LEMMA FailEffect ==
  ASSUME Types, NEW c \in Consumers, HandlerFails(c)
  PROVE  /\ hd[c].pc \in {"giveUp", "post", "record", "save"}
         /\ hd'[c].pc = "requeue" /\ hd'[c].job = hd[c].job /\ hd'[c].copy = hd[c].copy
         /\ \A b \in Consumers \ {c} : hd'[b] = hd[b]
         /\ faults' = faults + 1
         /\ UNCHANGED <<queueVars, row, log, enq, call, posts, retries>>
  <1>1. /\ hd[c].pc \in {"giveUp", "post", "record", "save"}
        /\ hd' = [hd EXCEPT ![c].pc = "requeue"] /\ faults' = faults + 1
        /\ UNCHANGED <<queueVars, row, log, enq, call, posts, retries>>
    BY DEF HandlerFails, Fault, rowVars, endpoint
  <1> QED
    BY <1>1, HandlerPlace

LEMMA EndEffect ==
  ASSUME Types, NEW c \in Consumers, Finish(c) \/ Restart(c)
  PROVE  /\ hd'[c] = IdleHandler
         /\ \A b \in Consumers \ {c} : hd'[b] = hd[b]
         /\ UNCHANGED <<row, log, enq, call, posts, retries, faults>>
  BY DEF Finish, Restart, rowVars, endpoint, Types, TypeOK

LEMMA RetryReadEffect ==
  ASSUME Types, NEW r \in Callers, NEW d \in Jobs, RetryRead(r, d)
  PROVE  /\ call'[r].pc = "save" /\ call'[r].job = d
         /\ call'[r].copy.attempts = row[d].attempts
         /\ \A b \in Callers \ {r} : call'[b] = call[b]
         /\ retries' = retries + 1
         /\ UNCHANGED <<queueVars, row, log, enq, hd, posts, faults>>
  <1>1. PICK max : call' = [call EXCEPT ![r] =
                     [pc |-> "save", job |-> d,
                      copy |-> [st |-> "pending", attempts |-> row[d].attempts, max |-> max]]]
    BY DEF RetryRead
  <1> DEFINE k == [pc |-> "save", job |-> d,
                   copy |-> [st |-> "pending", attempts |-> row[d].attempts, max |-> max]]
  <1>2. /\ k.pc = "save" /\ k.job = d /\ k.copy.attempts = row[d].attempts
        /\ call' = [call EXCEPT ![r] = k]
    BY <1>1
  <1> HIDE DEF k
  <1>3. call'[r] = k /\ \A b \in Callers \ {r} : call'[b] = call[b]
    BY <1>2 DEF Types, TypeOK
  <1>4. retries' = retries + 1 /\ UNCHANGED <<queueVars, row, log, enq, hd, posts, faults>>
    BY DEF RetryRead, rowVars, endpoint
  <1> QED
    BY <1>2, <1>3, <1>4

\* The enqueueing call shows a new row, at most.
LEMMA EnqueueEffect ==
  ASSUME Types, NEW d \in Jobs,
         Create(d) \/ PublishJob(d) \/ Commit(d) \/ PublishFails(d) \/ Rollback(d)
  PROVE  /\ row'[d] \in {row[d], NewRow}
         /\ \A e \in Jobs \ {d} : row'[e] = row[e] /\ enq'[e] = enq[e]
         /\ UNCHANGED <<log, hd, call, posts, retries, unacked>>
  <1>1. row' = [row EXCEPT ![d] = NewRow] \/ UNCHANGED row
    BY DEF Create, PublishJob, Commit, PublishFails, Rollback, rowVars
  <1>2. row'[d] \in {row[d], NewRow} /\ \A e \in Jobs \ {d} : row'[e] = row[e]
    BY <1>1 DEF Types, TypeOK
  <1>3. \A e \in Jobs \ {d} : enq'[e] = enq[e]
    BY DEF Create, PublishJob, Commit, PublishFails, Rollback, Enqueued, Types, TypeOK
  <1>4. UNCHANGED <<log, hd, call, posts, retries, unacked>>
    BY DEF Create, PublishJob, Commit, PublishFails, Rollback, rowVars, endpoint, queueVars, Publish
  <1> QED
    BY <1>2, <1>3, <1>4
-----------------------------------------------------------------------------
(* The copies are recorded.                                                *)

HandlerRecorded(c) ==
    /\ hd[c].pc \in {"giveUp", "post", "save"} => hd[c].copy.attempts <= log[hd[c].job]
    /\ hd[c].pc = "record" => hd[c].copy.attempts <= log[hd[c].job] + 1

CallRecorded(r) == call[r].pc = "save" => call[r].copy.attempts <= log[call[r].job]

LEMMA RecordedParts ==
  Recorded <=> /\ \A d \in Jobs : row[d].attempts <= log[d]
               /\ \A c \in Consumers : HandlerRecorded(c)
               /\ \A r \in Callers : CallRecorded(r)
  BY DEF Recorded, HandlerRecorded, CallRecorded

LEMMA RecordedNumbers ==
  ASSUME Types
  PROVE  /\ \A d \in Jobs : /\ row[d].attempts \in Nat /\ row[d].max \in Nat
                            /\ log[d] \in Nat /\ posts[d] \in Nat /\ ready[d] \in Nat
         /\ \A c \in Consumers : /\ hd[c].copy.attempts \in Nat /\ hd[c].copy.max \in Nat
                                 /\ hd[c].copy.attempts <= hd[c].copy.max
                                 /\ hd[c].pc # "idle" => hd[c].job \in Jobs
         /\ \A r \in Callers : /\ call[r].copy.attempts \in Nat
                               /\ call[r].pc # "idle" => call[r].job \in Jobs
         /\ retries \in Nat /\ faults \in Nat
  BY DEF Types, TypeOK, QueueTypeOK, Row, HandlerTyped, CallTyped, Sound

LEMMA LogEffect ==
  ASSUME Types, Next, NEW d \in Jobs
  PROVE  log[d] <= log'[d]
  <1>1. ASSUME NEW c \in Consumers, Record(c) PROVE log[d] <= log'[d]
    <2>1. log' = [log EXCEPT ![hd[c].job] = @ + 1]
      BY <1>1, RecordEffect
    <2> QED
      BY <2>1 DEF Types, TypeOK
  <1>2. CASE UNCHANGED log
    BY <1>2 DEF Types, TypeOK
  <1> QED
    BY <1>1, <1>2
       DEF Next, Create, Enqueue, PublishJob, Commit, PublishFails, Rollback, ConnectionLost, Retry,
           RetrySave, RetryPublish, RetryFails, RetryRead, Load, Handle, GiveUp, Post, Save, Finish,
           HandlerFails, Restart, endpoint, rowVars

\* A handler or call that stands still, or moves on without storing, keeps
\* its promise while the log grows.
LEMMA RecordedStill ==
  ASSUME Types, Recorded, Next
  PROVE  /\ \A c \in Consumers : hd'[c] = hd[c] => HandlerRecorded(c)'
         /\ \A r \in Callers : call'[r] = call[r] => CallRecorded(r)'
         /\ \A d \in Jobs : row'[d] = row[d] => row'[d].attempts <= log'[d]
  <1>1. ASSUME NEW d \in Jobs PROVE log[d] <= log'[d] /\ log[d] \in Nat /\ log'[d] \in Nat
    BY LogEffect, TypesNext DEF Types, TypeOK
  <1>2. ASSUME NEW c \in Consumers, hd'[c] = hd[c] PROVE HandlerRecorded(c)'
    <2>1. CASE hd[c].pc \in {"giveUp", "post", "record", "save"}
      <3> DEFINE d == hd[c].job
      <3>1. d \in Jobs /\ hd[c].copy.attempts \in Nat
        BY <2>1, RecordedNumbers
      <3>2. log[d] <= log'[d] /\ log[d] \in Nat /\ log'[d] \in Nat
        BY <1>1, <3>1
      <3>3. HandlerRecorded(c)
        BY RecordedParts
      <3> QED
        BY <1>2, <3>1, <3>2, <3>3 DEF HandlerRecorded
    <2> QED
      BY <1>2, <2>1 DEF HandlerRecorded
  <1>3. ASSUME NEW r \in Callers, call'[r] = call[r] PROVE CallRecorded(r)'
    <2>1. CASE call[r].pc = "save"
      <3> DEFINE d == call[r].job
      <3>1. d \in Jobs /\ call[r].copy.attempts \in Nat
        BY <2>1, RecordedNumbers
      <3>2. log[d] <= log'[d] /\ log[d] \in Nat /\ log'[d] \in Nat
        BY <1>1, <3>1
      <3>3. CallRecorded(r)
        BY RecordedParts
      <3> QED
        BY <1>3, <3>1, <3>2, <3>3 DEF CallRecorded
    <2> QED
      BY <1>3, <2>1 DEF CallRecorded
  <1>4. ASSUME NEW d \in Jobs, row'[d] = row[d] PROVE row'[d].attempts <= log'[d]
    <2>1. row[d].attempts <= log[d] /\ row[d].attempts \in Nat
      BY RecordedNumbers, RecordedParts
    <2> QED
      BY <1>1, <1>4, <2>1
  <1> QED
    BY <1>2, <1>3, <1>4

LEMMA RecordedInit == Init => Recorded
  BY RowTypes DEF Init, Recorded, NoRow

LEMMA RecordedNext == Types /\ Recorded /\ [Next]_vars => Recorded'
  <1> SUFFICES ASSUME Types, Recorded, [Next]_vars PROVE Recorded'
    OBVIOUS
  <1>1. CASE UNCHANGED vars
    BY <1>1 DEF vars, rowVars, Recorded
  <1>2. CASE Next
    <2>1. Types'
      BY TypesNext
    <2>2. ASSUME NEW d \in Jobs, Create(d) \/ Enqueue(d) \/ PublishFails(d) \/ Rollback(d)
          PROVE  Recorded'
      <3>1. /\ row'[d] \in {row[d], NewRow} /\ \A e \in Jobs \ {d} : row'[e] = row[e]
            /\ UNCHANGED <<log, hd, call>>
        BY <2>2, EnqueueEffect DEF Enqueue
      <3>2. NewRow.attempts = 0 /\ log[d] \in Nat /\ 0 <= log[d]
        BY RecordedNumbers DEF NewRow
      <3>3. ASSUME NEW e \in Jobs PROVE row'[e].attempts <= log'[e]
        BY <1>2, <3>1, <3>2, RecordedStill
      <3> QED
        BY <1>2, <3>1, <3>3, RecordedStill DEF Recorded, HandlerRecorded, CallRecorded
    <2>3. ASSUME NEW c \in Consumers,
                 Load(c) \/ Handle(c) \/ HandlerFails(c) \/ ConnectionLost(c) \/ Restart(c)
          PROVE  HandlerRecorded(c)' /\ \A d \in Jobs : row'[d].attempts <= log'[d]
      <3>1. HandlerRecorded(c) /\ \A d \in Jobs : row[d].attempts <= log[d]
        BY RecordedParts
      <3>2. CASE Load(c)
        BY <3>1, <3>2, LoadEffect DEF HandlerRecorded
      <3>3. CASE GiveUp(c)
        BY <3>1, <3>3, GiveUpEffect DEF HandlerRecorded
      <3>4. CASE Post(c)
        <4>1. hd[c].copy.attempts \in Nat /\ log[hd[c].job] \in Nat
          BY <3>4, PostEffect, RecordedNumbers
        <4>2. hd[c].copy.attempts <= log[hd[c].job] /\ UNCHANGED <<row, log>>
          BY <3>1, <3>4, PostEffect DEF HandlerRecorded
        <4>3. hd'[c].pc = "record" /\ hd'[c].copy.attempts <= log'[hd'[c].job] + 1
          BY <3>4, <4>1, <4>2, PostEffect
        <4> QED
          BY <3>1, <4>2, <4>3 DEF HandlerRecorded
      <3>5. CASE Record(c)
        <4>1. log'[hd[c].job] = log[hd[c].job] + 1 /\ UNCHANGED row
          BY <3>5, RecordEffect DEF Types, TypeOK
        <4>2. hd[c].copy.attempts <= log[hd[c].job] + 1
          BY <3>1, <3>5, RecordEffect DEF HandlerRecorded
        <4>3. hd'[c].pc = "save" /\ hd'[c].copy.attempts <= log'[hd'[c].job]
          BY <3>5, <4>1, <4>2, RecordEffect
        <4> QED
          BY <1>2, <4>1, <4>3, RecordedStill DEF HandlerRecorded
      <3>6. CASE Save(c)
        BY <3>1, <3>6, StoreEffect DEF HandlerRecorded
      <3>7. CASE Finish(c) \/ Restart(c)
        BY <3>1, <3>7, EndEffect, RowTypes DEF HandlerRecorded
      <3>8. CASE HandlerFails(c)
        BY <3>1, <3>8, FailEffect DEF HandlerRecorded
      <3>9. CASE ConnectionLost(c)
        <4>1. UNCHANGED <<row, log, hd>>
          BY <3>9 DEF ConnectionLost, rowVars
        <4> QED
          BY <3>1, <4>1 DEF HandlerRecorded
      <3> QED
        BY <2>3, <3>2, <3>3, <3>4, <3>5, <3>6, <3>7, <3>8, <3>9 DEF Handle
    <2>4. ASSUME NEW c \in Consumers,
                 Load(c) \/ Handle(c) \/ HandlerFails(c) \/ ConnectionLost(c) \/ Restart(c)
          PROVE  Recorded'
      <3>1. UNCHANGED call
        BY <2>4 DEF Load, Handle, GiveUp, Post, Record, Save, Finish, HandlerFails, ConnectionLost,
                    Restart
      <3>2. \A b \in Consumers \ {c} : hd'[b] = hd[b]
        BY <2>4, LoadEffect, GiveUpEffect, PostEffect, RecordEffect, StoreEffect, EndEffect,
           FailEffect DEF Handle, ConnectionLost
      <3>3. \A b \in Consumers : HandlerRecorded(b)'
        BY <1>2, <2>3, <2>4, <3>2, RecordedStill
      <3>4. \A r \in Callers : CallRecorded(r)'
        BY <1>2, <3>1, RecordedStill
      <3> QED
        BY <2>3, <2>4, <3>3, <3>4 DEF Recorded, HandlerRecorded, CallRecorded
    <2>5. ASSUME NEW r \in Callers, NEW d \in Jobs, RetryRead(r, d)
          PROVE  Recorded'
      <3>1. UNCHANGED <<row, log, hd>> /\ row[d].attempts <= log[d]
        BY <2>5, RetryReadEffect, RecordedParts
      <3>2. CallRecorded(r)'
        BY <2>5, <3>1, RetryReadEffect DEF CallRecorded
      <3>3. \A b \in Callers : CallRecorded(b)'
        BY <1>2, <2>5, <3>2, RetryReadEffect, RecordedStill
      <3> QED
        BY <1>2, <3>1, <3>3, RecordedStill DEF Recorded, HandlerRecorded, CallRecorded
    <2>6. ASSUME NEW r \in Callers, RetrySave(r)
          PROVE  Recorded'
      <3>1. /\ call[r].pc = "save" /\ call' = [call EXCEPT ![r].pc = "publish"]
            /\ row' = [row EXCEPT ![call[r].job] = call[r].copy] /\ UNCHANGED <<log, hd>>
        BY <2>6 DEF RetrySave
      <3>2. call[r].job \in Jobs /\ call[r].copy.attempts <= log[call[r].job]
        BY <3>1, RecordedNumbers, RecordedParts DEF CallRecorded
      <3>3. call'[r].pc = "publish" /\ \A b \in Callers \ {r} : call'[b] = call[b]
        BY <3>1, CallPlace
      <3>4. \A e \in Jobs : row'[e].attempts <= log'[e]
        BY <3>1, <3>2, RecordedParts DEF Types, TypeOK
      <3>5. \A b \in Callers : CallRecorded(b)'
        BY <1>2, <3>3, RecordedStill DEF CallRecorded
      <3> QED
        BY <1>2, <3>1, <3>4, <3>5, RecordedStill DEF Recorded, HandlerRecorded, CallRecorded
    <2>7. ASSUME NEW r \in Callers, RetryPublish(r) \/ RetryFails(r)
          PROVE  Recorded'
      <3>1. call' = [call EXCEPT ![r] = IdleCall] /\ UNCHANGED <<row, log, hd>>
        BY <2>7 DEF RetryPublish, RetryFails, rowVars
      <3>2. call'[r].pc = "idle" /\ \A b \in Callers \ {r} : call'[b] = call[b]
        BY <3>1, RowTypes DEF Types, TypeOK
      <3>3. \A b \in Callers : CallRecorded(b)'
        BY <1>2, <3>2, RecordedStill DEF CallRecorded
      <3> QED
        BY <1>2, <3>1, <3>3, RecordedStill DEF Recorded, HandlerRecorded, CallRecorded
    <2> QED
      BY <1>2, <2>2, <2>4, <2>5, <2>6, <2>7 DEF Next, Retry
  <1> QED
    BY <1>1, <1>2

LEMMA RecordedInvariant == Spec => []Recorded
  BY RecordedInit, RecordedNext, TypesInvariant, PTL DEF Spec
-----------------------------------------------------------------------------
(* Every record was a post: handlers between the two are counted.          *)

\* A set that may differ in one element.
LEMMA CountWithout ==
  ASSUME NEW S, IsFiniteSet(S), NEW T, NEW x, S \ {x} = T \ {x}
  PROVE  /\ IsFiniteSet(T)
         /\ Cardinality(S \ {x}) \in Nat
         /\ Cardinality(S) = Cardinality(S \ {x}) + (IF x \in S THEN 1 ELSE 0)
         /\ Cardinality(T) = Cardinality(S \ {x}) + (IF x \in T THEN 1 ELSE 0)
  <1> DEFINE rest == S \ {x}
  <1>1. IsFiniteSet(rest)
    BY FS_RemoveElement
  <1>2. Cardinality(rest) \in Nat
    BY <1>1, FS_CardinalityType
  <1>3. IsFiniteSet(rest \cup {x}) /\ Cardinality(rest \cup {x}) = Cardinality(rest) + 1
    <2>1. x \notin rest
      OBVIOUS
    <2> HIDE DEF rest
    <2> QED
      BY <1>1, <2>1, FS_AddElement
  <1>4. (x \in S => S = rest \cup {x}) /\ (x \notin S => S = rest)
    OBVIOUS
  <1>5. (x \in T => T = rest \cup {x}) /\ (x \notin T => T = rest)
    OBVIOUS
  <1> HIDE DEF rest
  <1>6. Cardinality(S) = Cardinality(rest) + (IF x \in S THEN 1 ELSE 0)
    <2>1. CASE x \in S
      <3>1. Cardinality(S) = Cardinality(rest) + 1
        BY <1>3, <1>4, <2>1
      <3> QED
        BY <2>1, <3>1
    <2>2. CASE x \notin S
      <3>1. Cardinality(S) = Cardinality(rest)
        BY <1>4, <2>2
      <3> QED
        BY <1>2, <2>2, <3>1
    <2> QED
      BY <2>1, <2>2
  <1>7. IsFiniteSet(T) /\ Cardinality(T) = Cardinality(rest) + (IF x \in T THEN 1 ELSE 0)
    <2>1. CASE x \in T
      <3>1. Cardinality(T) = Cardinality(rest) + 1 /\ IsFiniteSet(T)
        BY <1>3, <1>5, <2>1
      <3> QED
        BY <2>1, <3>1
    <2>2. CASE x \notin T
      <3>1. Cardinality(T) = Cardinality(rest) /\ IsFiniteSet(T)
        BY <1>1, <1>5, <2>2
      <3> QED
        BY <1>2, <2>2, <3>1
    <2> QED
      BY <2>1, <2>2
  <1> QED
    BY <1>2, <1>6, <1>7 DEF rest

LEMMA RecordingFinite ==
  ASSUME IsFiniteSet(Consumers), NEW d
  PROVE  IsFiniteSet(Recording(d)) /\ Cardinality(Recording(d)) \in Nat
  <1>1. Recording(d) \subseteq Consumers
    BY DEF Recording
  <1> QED
    BY <1>1, FS_Subset, FS_CardinalityType

\* Handlers but one stand still.
LEMMA RecordingStep ==
  ASSUME IsFiniteSet(Consumers), Types, NEW c \in Consumers, NEW d,
         \A b \in Consumers \ {c} : hd'[b] = hd[b]
  PROVE  \E n \in Nat :
           /\ Cardinality(Recording(d))
                = n + (IF hd[c].pc = "record" /\ hd[c].job = d THEN 1 ELSE 0)
           /\ Cardinality(Recording(d)')
                = n + (IF hd'[c].pc = "record" /\ hd'[c].job = d THEN 1 ELSE 0)
  <1> DEFINE new == {b \in Consumers : hd'[b].pc = "record" /\ hd'[b].job = d}
  <1>1. Recording(d) \ {c} = new \ {c}
    BY DEF Recording
  <1>2. c \in Recording(d) <=> hd[c].pc = "record" /\ hd[c].job = d
    BY DEF Recording
  <1>3. c \in new <=> hd'[c].pc = "record" /\ hd'[c].job = d
    OBVIOUS
  <1>4. Recording(d)' = new
    BY DEF Recording
  <1>5. IsFiniteSet(Recording(d))
    BY RecordingFinite
  <1> HIDE DEF new
  <1> DEFINE n == Cardinality(Recording(d) \ {c})
  <1>6. /\ n \in Nat
        /\ Cardinality(Recording(d)) = n + (IF c \in Recording(d) THEN 1 ELSE 0)
        /\ Cardinality(new) = n + (IF c \in new THEN 1 ELSE 0)
    BY <1>1, <1>5, CountWithout
  <1> HIDE DEF n
  <1> QED
    BY <1>2, <1>3, <1>4, <1>6

LEMMA PostedInit == Init => PostedFirst
  <1> SUFFICES ASSUME Init, NEW d \in Jobs PROVE log[d] + Cardinality(Recording(d)) <= posts[d]
    BY DEF PostedFirst
  <1>1. Recording(d) = {}
    BY RowTypes DEF Init, Recording
  <1> QED
    BY <1>1, FS_EmptySet DEF Init

LEMMA PostedNext ==
  ASSUME IsFiniteSet(Consumers), Types, PostedFirst, [Next]_vars
  PROVE  PostedFirst'
  <1>1. CASE UNCHANGED <<hd, log, posts>>
    BY <1>1 DEF PostedFirst, Recording
  <1>2. ASSUME NEW c \in Consumers, NEW d \in Jobs,
               Load(c) \/ Handle(c) \/ HandlerFails(c) \/ Restart(c)
        PROVE  log'[d] + Cardinality(Recording(d)') <= posts'[d]
    <2> DEFINE here == hd[c].pc = "record" /\ hd[c].job = d
               next == hd'[c].pc = "record" /\ hd'[c].job = d
    <2>1. \A b \in Consumers \ {c} : hd'[b] = hd[b]
      BY <1>2, LoadEffect, GiveUpEffect, PostEffect, RecordEffect, StoreEffect, EndEffect,
         FailEffect DEF Handle
    <2>2. PICK n \in Nat :
            /\ Cardinality(Recording(d)) = n + (IF here THEN 1 ELSE 0)
            /\ Cardinality(Recording(d)') = n + (IF next THEN 1 ELSE 0)
      BY <2>1, RecordingStep
    <2>3. /\ log[d] + Cardinality(Recording(d)) <= posts[d]
          /\ log[d] \in Nat /\ posts[d] \in Nat
      BY RecordedNumbers DEF PostedFirst
    <2>4. CASE UNCHANGED <<log, posts>> /\ ~next
      BY <2>2, <2>3, <2>4
    <2>5. CASE Post(c)
      <3>1. /\ posts' = [posts EXCEPT ![hd[c].job] = @ + 1] /\ UNCHANGED log
            /\ hd[c].pc = "post" /\ hd'[c].job = hd[c].job
        BY <2>5, PostEffect
      <3>2. posts'[d] = posts[d] + (IF hd[c].job = d THEN 1 ELSE 0)
        BY <2>3, <3>1 DEF Types, TypeOK
      <3>3. ~here /\ (next => hd[c].job = d)
        BY <3>1
      <3> HIDE DEF here, next
      <3> QED
        BY <2>2, <2>3, <3>1, <3>2, <3>3
    <2>6. CASE Record(c)
      <3>1. /\ log' = [log EXCEPT ![hd[c].job] = @ + 1] /\ UNCHANGED posts
            /\ hd[c].pc = "record" /\ hd'[c].pc = "save"
        BY <2>6, RecordEffect
      <3>2. log'[d] = log[d] + (IF hd[c].job = d THEN 1 ELSE 0)
        BY <2>3, <3>1 DEF Types, TypeOK
      <3>3. ~next /\ (here <=> hd[c].job = d)
        BY <3>1
      <3> HIDE DEF here, next
      <3> QED
        BY <2>2, <2>3, <3>1, <3>2, <3>3
    <2>7. Load(c) \/ GiveUp(c) \/ Save(c) \/ Finish(c) \/ Restart(c) \/ HandlerFails(c)
          => UNCHANGED <<log, posts>> /\ ~next
      BY LoadEffect, GiveUpEffect, StoreEffect, EndEffect, FailEffect, RowTypes
    <2> QED
      BY <1>2, <2>4, <2>5, <2>6, <2>7 DEF Handle
  <1>3. CASE \E c \in Consumers : Load(c) \/ Handle(c) \/ HandlerFails(c) \/ Restart(c)
    BY <1>2, <1>3 DEF PostedFirst
  <1>4. \/ \E c \in Consumers : Load(c) \/ Handle(c) \/ HandlerFails(c) \/ Restart(c)
        \/ UNCHANGED <<hd, log, posts>>
    BY DEF Next, vars, Create, Enqueue, PublishJob, Commit, PublishFails, Rollback, ConnectionLost,
           Retry, RetrySave, RetryPublish, RetryFails, RetryRead, endpoint, rowVars
  <1> QED
    BY <1>1, <1>3, <1>4

LEMMA PostedInvariant == ASSUME IsFiniteSet(Consumers) PROVE Spec => []PostedFirst
  BY PostedInit, PostedNext, TypesInvariant, PTL DEF Spec
-----------------------------------------------------------------------------
(* While nobody asks for a retry: rows stay small and an event has one     *)
(* message at most.                                                        *)

Small == retries = 0 => SmallRows

\* Only the enqueueing call and the handlers move.
LEMMA Unaided ==
  ASSUME Types, Small, Next, retries' = 0
  PROVE  /\ retries = 0 /\ SmallRows /\ UNCHANGED call
         /\ \/ \E d \in Jobs : Create(d) \/ PublishJob(d) \/ Commit(d) \/ PublishFails(d) \/ Rollback(d)
            \/ \E c \in Consumers : Load(c) \/ Handle(c) \/ HandlerFails(c) \/ ConnectionLost(c)
                                    \/ Restart(c)
  <1>1. \A r \in Callers, d \in Jobs : ~RetryRead(r, d)
    BY RecordedNumbers DEF RetryRead
  <1>2. retries' = retries
    BY <1>1
       DEF Next, Create, Enqueue, PublishJob, Commit, PublishFails, Rollback, ConnectionLost, Retry,
           RetrySave, RetryPublish, RetryFails, Load, Handle, GiveUp, Post, Record, Save, Finish,
           HandlerFails, Restart
  <1>3. \A r \in Callers : ~Retry(r) /\ ~RetryFails(r)
    BY <1>2 DEF Small, SmallRows, Retry, RetrySave, RetryPublish, RetryFails
  <1>4. \/ \E d \in Jobs : Create(d) \/ PublishJob(d) \/ Commit(d) \/ PublishFails(d) \/ Rollback(d)
        \/ \E c \in Consumers : Load(c) \/ Handle(c) \/ HandlerFails(c) \/ ConnectionLost(c)
                                \/ Restart(c)
    BY <1>1, <1>3 DEF Next, Enqueue
  <1>5. UNCHANGED call
    BY <1>4 DEF Create, PublishJob, Commit, PublishFails, Rollback, ConnectionLost, Load, Handle,
                GiveUp, Post, Record, Save, Finish, HandlerFails, Restart
  <1> QED
    BY <1>2, <1>4, <1>5 DEF Small

LEMMA ConsumerElsewhere ==
  ASSUME Types, NEW c \in Consumers,
         Load(c) \/ Handle(c) \/ HandlerFails(c) \/ ConnectionLost(c) \/ Restart(c)
  PROVE  /\ \A b \in Consumers \ {c} : /\ hd'[b] = hd[b]
                                       /\ b \in unacked' <=> b \in unacked
         /\ UNCHANGED enq
  <1>1. \A b \in Consumers \ {c} : hd'[b] = hd[b]
    BY LoadEffect, GiveUpEffect, PostEffect, RecordEffect, StoreEffect, EndEffect, FailEffect
       DEF Handle, ConnectionLost
  <1>2. \A b \in Consumers \ {c} : b \in unacked' <=> b \in unacked
    BY DEF Load, Handle, GiveUp, Post, Record, Save, Finish, HandlerFails, ConnectionLost, Restart,
           Take, Ack, Nack, Disconnect, Reattach, queueVars
  <1>3. UNCHANGED enq
    BY DEF Load, Handle, GiveUp, Post, Record, Save, Finish, HandlerFails, ConnectionLost, Restart
  <1> QED
    BY <1>1, <1>2, <1>3

LEMMA SmallInit == Init => Small
  BY RowTypes DEF Init, Small, SmallRows, NoRow, MaxAttempts

LEMMA SmallNext == Types /\ Small /\ [Next]_vars => Small'
  <1> SUFFICES ASSUME Types, Small, [Next]_vars PROVE Small'
    OBVIOUS
  <1>1. CASE UNCHANGED vars
    BY <1>1 DEF vars, rowVars, Small, SmallRows
  <1>2. CASE Next /\ retries' = 0
    <2>1. /\ SmallRows /\ UNCHANGED call
          /\ \/ \E d \in Jobs : Create(d) \/ PublishJob(d) \/ Commit(d) \/ PublishFails(d) \/ Rollback(d)
             \/ \E c \in Consumers : Load(c) \/ Handle(c) \/ HandlerFails(c) \/ ConnectionLost(c)
                                     \/ Restart(c)
      BY <1>2, Unaided
    <2>2. ASSUME NEW d \in Jobs,
                 Create(d) \/ PublishJob(d) \/ Commit(d) \/ PublishFails(d) \/ Rollback(d)
          PROVE  SmallRows'
      <3>1. /\ row'[d] \in {row[d], NewRow} /\ \A e \in Jobs \ {d} : row'[e] = row[e]
            /\ UNCHANGED hd
        BY <2>2, EnqueueEffect
      <3>2. NewRow.max <= MaxAttempts
        BY DEF NewRow, MaxAttempts
      <3>3. \A e \in Jobs : row'[e].max <= MaxAttempts
        BY <2>1, <3>1, <3>2 DEF SmallRows
      <3> QED
        BY <2>1, <3>1, <3>3 DEF SmallRows
    <2>3. ASSUME NEW c \in Consumers,
                 Load(c) \/ Handle(c) \/ HandlerFails(c) \/ ConnectionLost(c) \/ Restart(c)
          PROVE  SmallRows'
      <3>1. /\ \A d \in Jobs : row[d].max <= MaxAttempts
            /\ \A b \in Consumers : hd[b].copy.max <= MaxAttempts
            /\ \A b \in Consumers : hd[b].pc \in {"record", "save"} => hd[b].copy.attempts >= 1
            /\ \A r \in Callers : call'[r].pc = "idle"
        BY <2>1 DEF SmallRows
      <3>2. \A d \in Jobs : row'[d].max <= MaxAttempts
        BY <2>3, <3>1, LoadEffect, GiveUpEffect, PostEffect, RecordEffect, StoreEffect, EndEffect,
           FailEffect DEF Handle, ConnectionLost, rowVars
      <3>3. hd'[c].copy.max <= MaxAttempts
        <4>1. NoRow.max <= MaxAttempts
          BY DEF NoRow, MaxAttempts
        <4> QED
          BY <2>3, <3>1, <4>1, LoadEffect, GiveUpEffect, PostEffect, RecordEffect, StoreEffect,
             EndEffect, FailEffect, RowTypes DEF Handle, ConnectionLost
      <3>4. hd'[c].pc \in {"record", "save"} => hd'[c].copy.attempts >= 1
        <4>1. CASE Post(c)
          <5>1. hd'[c].copy.attempts = hd[c].copy.attempts + 1 /\ hd[c].copy.attempts \in Nat
            BY <4>1, PostEffect, RecordedNumbers
          <5> QED
            BY <5>1
        <4>2. CASE Record(c) \/ ConnectionLost(c)
          <5>1. /\ hd'[c].copy = hd[c].copy
                /\ hd'[c].pc \in {"record", "save"} => hd[c].pc \in {"record", "save"}
            BY <4>2, RecordEffect DEF ConnectionLost
          <5> QED
            BY <3>1, <5>1
        <4>3. CASE ~(Post(c) \/ Record(c) \/ ConnectionLost(c))
          <5>1. hd'[c].pc \notin {"record", "save"}
            BY <2>3, <4>3, LoadEffect, GiveUpEffect, StoreEffect, EndEffect, FailEffect, RowTypes
               DEF Handle
          <5> QED
            BY <5>1
        <4> QED
          BY <4>1, <4>2, <4>3
      <3>5. \A b \in Consumers : /\ hd'[b].copy.max <= MaxAttempts
                                 /\ hd'[b].pc \in {"record", "save"} => hd'[b].copy.attempts >= 1
        BY <2>3, <3>1, <3>3, <3>4, ConsumerElsewhere
      <3> QED
        BY <3>1, <3>2, <3>5 DEF SmallRows
    <2> QED
      BY <2>1, <2>2, <2>3 DEF Small
  <1> QED
    BY <1>1, <1>2 DEF Small

LEMMA SmallInvariant == Spec => []Small
  BY SmallInit, SmallNext, TypesInvariant, PTL DEF Spec
-----------------------------------------------------------------------------
Single == retries = 0 => \A d \in Jobs : OneMessage(d) /\ NotYet(d)

\* What a handler's step does to the messages of d.
LEMMA FewerHold ==
  ASSUME NEW d \in Jobs, OneMessage(d), ready'[d] = ready[d], enq'[d] = enq[d],
         \A b \in Consumers : Holds(b, d)' => Holds(b, d)
  PROVE  OneMessage(d)'
  BY DEF OneMessage, Unpublished

\* The message of a handler goes back to the queue.
LEMMA HandedBack ==
  ASSUME NEW d \in Jobs, OneMessage(d), ready[d] \in Nat, NEW c \in Consumers, Holds(c, d),
         ready'[d] = ready[d] + 1, enq'[d] = enq[d], ~Holds(c, d)',
         \A b \in Consumers : Holds(b, d)' => Holds(b, d)
  PROVE  OneMessage(d)' /\ ready'[d] = 1 /\ ~Unpublished(d)'
  <1>1. ready[d] # 1 /\ ~Unpublished(d) /\ ready[d] <= 1
    BY DEF OneMessage
  <1>2. ready'[d] = 1 /\ ~Unpublished(d)'
    BY <1>1 DEF Unpublished
  <1>3. \A b \in Consumers : ~Holds(b, d)'
    BY DEF OneMessage
  <1>4. ready'[d] <= 1
    BY <1>2
  <1> QED
    BY <1>2, <1>3, <1>4 DEF OneMessage

\* How the message a handler may have goes away: taken, acknowledged, requeued.
LEMMA TakeEffect ==
  ASSUME Types, NEW c \in Consumers, NEW d \in Jobs, Take(c, d)
  PROVE  /\ ready[d] > 0 /\ ready'[d] = ready[d] - 1
         /\ \A e \in Jobs \ {d} : ready'[e] = ready[e]
         /\ unacked' = unacked \cup {c}
  BY DEF Take, Types, TypeOK, QueueTypeOK

LEMMA RequeueEffect ==
  ASSUME Types, NEW c \in Consumers, NEW j, Nack(c, j) \/ Disconnect(c, j)
  PROVE  /\ unacked' = unacked \ {c}
         /\ \A d \in Jobs : ready'[d] = ready[d] + (IF c \in unacked /\ j = d THEN 1 ELSE 0)
  <1>1. unacked' = unacked \ {c} /\ ready' = Requeued(c, j)
    BY DEF Nack, Disconnect
  <1>2. \A d \in Jobs : ready[d] \in Nat
    BY RecordedNumbers
  <1>3. \A d \in Jobs : ready'[d] = ready[d] + (IF c \in unacked /\ j = d THEN 1 ELSE 0)
    BY <1>1, <1>2 DEF Requeued, Types, TypeOK, QueueTypeOK
  <1> QED
    BY <1>1, <1>3

\* Whatever a handler does: it loads, moves on with its message, or ends.
LEMMA MessageEffect ==
  ASSUME Types, NEW c \in Consumers, NEW d \in Jobs, OneMessage(d),
         Load(c) \/ Handle(c) \/ HandlerFails(c) \/ ConnectionLost(c) \/ Restart(c)
  PROVE  OneMessage(d)'
  <1>1. /\ \A b \in Consumers \ {c} : hd'[b] = hd[b] /\ (b \in unacked' <=> b \in unacked)
        /\ enq'[d] = enq[d]
    BY ConsumerElsewhere
  <1>2. \A b \in Consumers \ {c} : Holds(b, d)' <=> Holds(b, d)
    BY <1>1 DEF Holds
  <1>3. ready[d] \in Nat
    BY RecordedNumbers
  <1>4. CASE Load(c)
    <2>1. PICK e \in Jobs : Take(c, e) /\ hd'[c].job = e
      BY <1>4, LoadEffect
    <2>2. CASE e # d
      <3>1. ready'[d] = ready[d] /\ ~Holds(c, d)'
        BY <2>1, <2>2, TakeEffect DEF Holds
      <3> QED
        BY <1>1, <1>2, <3>1, FewerHold
    <2>3. CASE e = d
      <3>1. ready[d] > 0 /\ ready'[d] = ready[d] - 1
        BY <2>1, <2>3, TakeEffect
      <3>2. ready[d] = 1
        BY <1>3, <3>1 DEF OneMessage
      <3>3. ready'[d] = 0
        BY <3>1, <3>2
      <3>4. ~Unpublished(d)' /\ \A b \in Consumers \ {c} : ~Holds(b, d)'
        BY <1>1, <1>2, <3>2 DEF OneMessage, Unpublished
      <3> QED
        BY <3>3, <3>4 DEF OneMessage
    <2> QED
      BY <2>2, <2>3
  <1>5. CASE GiveUp(c) \/ Post(c) \/ Record(c) \/ Save(c) \/ HandlerFails(c)
    <2>1. hd'[c].job = hd[c].job /\ UNCHANGED queueVars
      BY <1>5, GiveUpEffect, PostEffect, RecordEffect, StoreEffect, FailEffect
    <2>2. ready'[d] = ready[d] /\ (Holds(c, d)' <=> Holds(c, d))
      BY <2>1 DEF queueVars, Holds
    <2> QED
      BY <1>1, <1>2, <2>2, FewerHold
  <1>6. CASE Restart(c) \/ (Finish(c) /\ Ack(c))
    <2>1. UNCHANGED ready /\ hd'[c].job = NoJob
      BY <1>6, EndEffect, RowTypes DEF Restart, Reattach, Ack
    <2>2. ~Holds(c, d)'
      BY <2>1, QueueAssumption DEF Holds
    <2> QED
      BY <1>1, <1>2, <2>1, <2>2, FewerHold
  <1>7. CASE Nack(c, hd[c].job) \/ Disconnect(c, hd[c].job)
    <2>1. /\ ~Holds(c, d)'
          /\ ready'[d] = ready[d] + (IF Holds(c, d) THEN 1 ELSE 0)
      BY <1>7, RequeueEffect DEF Holds
    <2>2. CASE Holds(c, d)
      BY <1>1, <1>2, <1>3, <2>1, <2>2, HandedBack
    <2>3. CASE ~Holds(c, d)
      BY <1>1, <1>2, <1>3, <2>1, <2>3, FewerHold
    <2> QED
      BY <2>2, <2>3
  <1> QED
    BY <1>4, <1>5, <1>6, <1>7 DEF Handle, Finish, ConnectionLost

LEMMA NotYetKept ==
  ASSUME Types, NEW c \in Consumers, NEW d \in Jobs, NotYet(d),
         Load(c) \/ Handle(c) \/ HandlerFails(c) \/ ConnectionLost(c) \/ Restart(c)
  PROVE  NotYet(d)'
  <1> SUFFICES ASSUME Unseen(d)'
               PROVE  /\ row'[d] = NoRow
                      /\ \A b \in Consumers : hd'[b].job = d => hd'[b].pc = "ack"
    BY DEF NotYet
  <1>1. \A b \in Consumers \ {c} : hd'[b] = hd[b]
    BY ConsumerElsewhere
  <1>2. row[d] = NoRow /\ \A b \in Consumers : hd[b].job = d => hd[b].pc = "ack"
    BY ConsumerElsewhere DEF Unseen, NotYet
  <1>3. CASE Load(c)
    <2>1. PICK e \in Jobs, pc \in {"ack", "giveUp", "post"} :
            /\ pc \in Verdicts(row[e]) /\ UNCHANGED row
            /\ hd'[c].job = e /\ hd'[c].pc = pc
      BY <1>3, LoadEffect
    <2>2. e = d => pc = "ack"
      BY <1>2, <2>1, RowTypes DEF Verdicts
    <2> QED
      BY <1>1, <1>2, <2>1, <2>2
  <1>4. CASE GiveUp(c) \/ Save(c)
    <2>1. /\ hd[c].pc # "ack" /\ hd'[c].job = hd[c].job
          /\ \A e \in Jobs \ {hd[c].job} : row'[e] = row[e]
      BY <1>4, GiveUpEffect, StoreEffect
    <2> QED
      BY <1>1, <1>2, <2>1
  <1>5. CASE Post(c) \/ Record(c) \/ HandlerFails(c)
    <2>1. hd[c].pc # "ack" /\ hd'[c].job = hd[c].job /\ UNCHANGED row
      BY <1>5, PostEffect, RecordEffect, FailEffect
    <2> QED
      BY <1>1, <1>2, <2>1
  <1>6. CASE Finish(c) \/ Restart(c)
    <2>1. hd'[c].job = NoJob /\ UNCHANGED row
      BY <1>6, EndEffect, RowTypes
    <2> QED
      BY <1>1, <1>2, <2>1, QueueAssumption
  <1>7. CASE ConnectionLost(c)
    BY <1>2, <1>7 DEF ConnectionLost, rowVars
  <1> QED
    BY <1>3, <1>4, <1>5, <1>6, <1>7 DEF Handle

LEMMA EnqueueMessage ==
  ASSUME Types, NEW e \in Jobs,
         Create(e) \/ PublishJob(e) \/ Commit(e) \/ PublishFails(e) \/ Rollback(e),
         NEW d \in Jobs, OneMessage(d), NotYet(d)
  PROVE  OneMessage(d)' /\ NotYet(d)'
  <1>1. UNCHANGED <<hd, unacked>> /\ (\A b \in Consumers : Holds(b, d)' <=> Holds(b, d))
    BY EnqueueEffect DEF Holds
  <1>2. ready[d] \in Nat /\ enq \in [Jobs -> {"idle", "created", "createdInTrx", "published", "done",
                                              "committed", "rolledBack"}]
    BY RecordedNumbers DEF Types, TypeOK
  <1>3. CASE e # d
    <2>1. enq'[d] = enq[d] /\ row'[d] = row[d]
      BY <1>3, EnqueueEffect
    <2>2. ready'[d] = ready[d]
      BY <1>3 DEF Create, PublishJob, Commit, PublishFails, Rollback, Publish, queueVars, Types,
                  TypeOK, QueueTypeOK
    <2>3. OneMessage(d)'
      BY <1>1, <2>1, <2>2, FewerHold
    <2> QED
      BY <1>1, <2>1, <2>3 DEF NotYet, Unseen
  <1>4. CASE e = d /\ PublishJob(d)
    <2>1. /\ enq[d] \in {"created", "createdInTrx"} /\ enq'[d] \in {"done", "published"}
          /\ enq'[d] = "published" => enq[d] = "createdInTrx"
          /\ ready'[d] = ready[d] + 1 /\ UNCHANGED row
      BY <1>2, <1>4 DEF PublishJob, Enqueued, Publish, Types, TypeOK, QueueTypeOK, rowVars
    <2>2. ready[d] = 0 /\ \A c \in Consumers : ~Holds(c, d)
      BY <2>1 DEF OneMessage, Unpublished
    <2>3. ready'[d] = 1 /\ ready'[d] <= 1
      BY <2>1, <2>2
    <2>4. OneMessage(d)'
      BY <1>1, <2>1, <2>2, <2>3 DEF OneMessage, Unpublished
    <2> QED
      BY <1>1, <2>1, <2>4 DEF NotYet, Unseen
  <1>5. CASE e = d /\ (Create(d) \/ Commit(d) \/ PublishFails(d) \/ Rollback(d))
    <2>1. ready'[d] = ready[d]
      BY <1>5 DEF Create, Commit, PublishFails, Rollback, queueVars
    <2>2. /\ Unpublished(d)' => Unpublished(d)
          /\ Unseen(d)' => Unseen(d) /\ row'[d] = row[d]
      BY <1>2, <1>5 DEF Create, Commit, PublishFails, Rollback, Enqueued, Unpublished, Unseen, rowVars
    <2>3. OneMessage(d)'
      BY <1>1, <2>1, <2>2 DEF OneMessage
    <2> QED
      BY <1>1, <2>2, <2>3 DEF NotYet
  <1> QED
    BY <1>3, <1>4, <1>5

LEMMA SingleInit == Init => Single
  <1> SUFFICES ASSUME Init, NEW d \in Jobs PROVE OneMessage(d) /\ NotYet(d)
    BY DEF Single
  <1>1. ready[d] = 0 /\ unacked = {} /\ row[d] = NoRow /\ \A c \in Consumers : hd[c].job = NoJob
    BY RowTypes DEF Init, QueueInit
  <1>2. OneMessage(d)
    BY <1>1 DEF OneMessage, Holds
  <1>3. NotYet(d)
    BY <1>1, QueueAssumption DEF NotYet
  <1> QED
    BY <1>2, <1>3

LEMMA SingleNext == Types /\ Small /\ Single /\ [Next]_vars => Single'
  <1> SUFFICES ASSUME Types, Small, Single, [Next]_vars PROVE Single'
    OBVIOUS
  <1>1. CASE UNCHANGED vars
    BY <1>1 DEF vars, queueVars, rowVars, Single, OneMessage, NotYet, Holds, Unpublished, Unseen
  <1>2. CASE Next /\ retries' = 0
    BY <1>2, Unaided, MessageEffect, NotYetKept, EnqueueMessage DEF Single
  <1> QED
    BY <1>1, <1>2 DEF Single

LEMMA SingleInvariant == Spec => []Single
  BY SingleInit, SingleNext, SmallInvariant, TypesInvariant, PTL DEF Spec
-----------------------------------------------------------------------------
(* The posts are within what the faults allow.                             *)

Budgeted == retries = 0 => \A d \in Jobs : Budget(d)

\* What a handler without its message still costs.
Weight(c, d) ==
    IF c \in unacked \/ hd[c].job # d THEN 0
    ELSE IF hd[c].pc \in {"giveUp", "post"} THEN 3
    ELSE IF hd[c].pc \in {"record", "save"} THEN 2 ELSE 0

LEMMA LosersFinite ==
  ASSUME IsFiniteSet(Consumers), NEW d
  PROVE  IsFiniteSet(Before(d)) /\ IsFiniteSet(After(d))
  <1>1. Before(d) \subseteq Consumers /\ After(d) \subseteq Consumers
    BY DEF Before, After
  <1> QED
    BY <1>1, FS_Subset

\* Only handler c and its message may differ.
LEMMA SpentStep ==
  ASSUME IsFiniteSet(Consumers), Types, NEW c \in Consumers, NEW d \in Jobs,
         NEW more \in Nat, posts'[d] = posts[d] + more,
         \A b \in Consumers \ {c} : hd'[b] = hd[b] /\ (b \in unacked' <=> b \in unacked)
  PROVE  \E n \in Nat : /\ Spent(d) = n + Weight(c, d)
                        /\ Spent(d)' = n + more + Weight(c, d)'
  <1> DEFINE before == {b \in Consumers \ unacked' : hd'[b].pc \in {"giveUp", "post"} /\ hd'[b].job = d}
             after == {b \in Consumers \ unacked' : hd'[b].pc \in {"record", "save"} /\ hd'[b].job = d}
  <1>1. Before(d)' = before /\ After(d)' = after
    BY DEF Before, After
  <1>2. Before(d) \ {c} = before \ {c} /\ After(d) \ {c} = after \ {c}
    BY DEF Before, After
  <1>3. IsFiniteSet(Before(d)) /\ IsFiniteSet(After(d))
    BY LosersFinite
  <1>4. Weight(c, d) = IF c \in Before(d) THEN 3 ELSE IF c \in After(d) THEN 2 ELSE 0
    BY DEF Weight, Before, After
  <1>5. Weight(c, d)' = IF c \in before THEN 3 ELSE IF c \in after THEN 2 ELSE 0
    BY DEF Weight
  <1>6. ~(c \in Before(d) /\ c \in After(d)) /\ ~(c \in before /\ c \in after)
    BY DEF Before, After
  <1> HIDE DEF before, after
  <1> DEFINE x == Cardinality(Before(d) \ {c})
             y == Cardinality(After(d) \ {c})
  <1>7. /\ x \in Nat /\ Cardinality(Before(d)) = x + (IF c \in Before(d) THEN 1 ELSE 0)
        /\ Cardinality(before) = x + (IF c \in before THEN 1 ELSE 0)
    BY <1>2, <1>3, CountWithout
  <1>8. /\ y \in Nat /\ Cardinality(After(d)) = y + (IF c \in After(d) THEN 1 ELSE 0)
        /\ Cardinality(after) = y + (IF c \in after THEN 1 ELSE 0)
    BY <1>2, <1>3, CountWithout
  <1> HIDE DEF x, y
  <1>9. Spent(d)' = posts'[d] + 3 * Cardinality(before) + 2 * Cardinality(after)
    BY <1>1 DEF Spent
  <1>10. posts[d] \in Nat
    BY RecordedNumbers
  <1> DEFINE n == posts[d] + 3 * x + 2 * y
  <1>11. n \in Nat
    BY <1>7, <1>8, <1>10
  <1>12. Spent(d) = n + Weight(c, d)
    BY <1>4, <1>6, <1>7, <1>8, <1>10 DEF Spent
  <1>13. Spent(d)' = n + more + Weight(c, d)'
    BY <1>5, <1>6, <1>7, <1>8, <1>9, <1>10
  <1> QED
    BY <1>11, <1>12, <1>13

LEMMA SpentType ==
  ASSUME IsFiniteSet(Consumers), Types, NEW d \in Jobs
  PROVE  Spent(d) \in Nat /\ Allowance \in Nat
  <1>1. Cardinality(Before(d)) \in Nat /\ Cardinality(After(d)) \in Nat
    BY LosersFinite, FS_CardinalityType
  <1> QED
    BY <1>1, RecordedNumbers DEF Spent, Allowance

\* The budget holds on when nothing more is spent and the row of d stays, or
\* its new row leaves enough.
LEMMA BudgetEased ==
  ASSUME NEW d \in Jobs, Budget(d),
         NEW s \in Nat, NEW t \in Nat, NEW a \in Nat, NEW b \in Nat,
         s = Spent(d), t = Spent(d)', t <= s, a = Allowance, b = Allowance', a <= b,
         NEW m \in Nat, NEW n \in Nat, m = row[d].attempts, n = row'[d].attempts,
         m = n \/ t + 3 <= b + n,
         Unpublished(d)' \/ ready'[d] = 1 => Unpublished(d) \/ ready[d] = 1,
         \A c \in Consumers : Holds(c, d)' => Holds(c, d) /\ hd'[c] = hd[c],
         \A c \in Consumers : hd[c].copy.attempts \in Nat
  PROVE  Budget(d)'
  <1>1. t <= b
    BY DEF Budget
  <1>2. Unpublished(d)' \/ ready'[d] = 1 => t + 3 <= b + n
    BY DEF Budget
  <1>3. ASSUME NEW c \in Consumers, Holds(c, d)' PROVE HeldBudget(c, d)'
    <2>1. HeldBudget(c, d) /\ hd'[c] = hd[c]
      BY <1>3 DEF Budget
    <2>2. PICK k \in Nat : k = hd[c].copy.attempts
      OBVIOUS
    <2>3. hd[c].pc \in {"giveUp", "post", "requeue"} => t + 3 <= b + n
      BY <2>1 DEF HeldBudget
    <2>4. hd[c].pc \in {"record", "save"} => t + 2 <= b + n
      BY <2>1 DEF HeldBudget
    <2>5. hd[c].pc \in {"post", "record", "save"} => t + 3 <= b + k
      BY <2>1, <2>2 DEF HeldBudget
    <2> QED
      BY <2>1, <2>2, <2>3, <2>4, <2>5 DEF HeldBudget
  <1> QED
    BY <1>1, <1>2, <1>3 DEF Budget

\* Handler c has the message of d after the step: the budget is its own.
LEMMA BudgetOfHolder ==
  ASSUME NEW d \in Jobs, NEW c \in Consumers, OneMessage(d)', Holds(c, d)', HeldBudget(c, d)',
         Spent(d)' <= Allowance'
  PROVE  Budget(d)'
  BY DEF OneMessage, Budget

LEMMA AllowanceEffect ==
  ASSUME Types, Next
  PROVE  \E a, b \in Nat : a = Allowance /\ b = Allowance' /\ a <= b
  <1>1. faults \in Nat /\ (faults' = faults \/ faults' = faults + 1)
    BY RecordedNumbers
       DEF Next, Create, Enqueue, PublishJob, Commit, PublishFails, Rollback, ConnectionLost, Retry,
           RetrySave, RetryPublish, RetryFails, RetryRead, Load, Handle, GiveUp, Post, Record, Save,
           Finish, HandlerFails, Restart, Fault
  <1>2. PICK f \in Nat : f = faults' /\ faults <= f
    BY <1>1
  <1>3. Allowance = 3 * (1 + faults) /\ Allowance' = 3 * (1 + f)
    BY <1>2 DEF Allowance
  <1> DEFINE a == 3 * (1 + faults)
             b == 3 * (1 + f)
  <1>4. a \in Nat /\ b \in Nat /\ a <= b
    <2>1. faults \in Nat /\ f \in Nat /\ faults <= f
      BY <1>1, <1>2
    <2> QED
      BY <2>1
  <1>5. a = Allowance /\ b = Allowance'
    BY <1>3
  <1> HIDE DEF a, b
  <1> QED
    BY <1>4, <1>5

\* A handler that has not the message of d after its step takes nothing from
\* the budget of d: it posts or stores from what it was counted for.
LEMMA BudgetAside ==
  ASSUME IsFiniteSet(Consumers), Types, Next, NEW d \in Jobs, Budget(d), NEW c \in Consumers,
         Load(c) \/ Handle(c) \/ HandlerFails(c) \/ ConnectionLost(c) \/ Restart(c),
         ~Holds(c, d)', ready'[d] = ready[d],
         NEW more \in Nat, posts'[d] = posts[d] + more,
         NEW u \in Nat, NEW v \in Nat, u = Weight(c, d), v = Weight(c, d)', more + v <= u,
         \/ row'[d].attempts = row[d].attempts
         \/ more + v + 3 <= u
         \/ more + v + 2 <= u /\ row'[d].attempts >= 1
  PROVE  Budget(d)'
  <1>1. /\ \A b \in Consumers \ {c} : hd'[b] = hd[b] /\ (b \in unacked' <=> b \in unacked)
        /\ enq'[d] = enq[d]
    BY ConsumerElsewhere
  <1>2. Types'
    BY TypesNext
  <1>3. PICK a, b \in Nat : a = Allowance /\ b = Allowance' /\ a <= b
    BY AllowanceEffect
  <1>4. PICK k \in Nat : Spent(d) = k + u /\ Spent(d)' = k + more + v
    BY <1>1, SpentStep
  <1> DEFINE s == k + u
             t == k + more + v
  <1>5. PICK m, n \in Nat : m = row[d].attempts /\ n = row'[d].attempts
    BY <1>2 DEF Types, TypeOK, Row
  <1>6. Unpublished(d)' \/ ready'[d] = 1 => Unpublished(d) \/ ready[d] = 1
    BY <1>1 DEF Unpublished
  <1>7. s \in Nat /\ t \in Nat /\ s = Spent(d) /\ t = Spent(d)' /\ t <= s
    BY <1>4
  <1>8. s <= a /\ s <= b
    BY <1>3, <1>4 DEF Budget
  <1>9. m = n \/ t + 3 <= b + n
    <2>1. CASE more + v + 3 <= u
      BY <1>8, <2>1
    <2>2. CASE more + v + 2 <= u /\ row'[d].attempts >= 1
      <3>1. n >= 1 /\ t + 2 <= s
        BY <1>5, <2>2
      <3> HIDE DEF s, t
      <3> QED
        BY <1>7, <1>8, <3>1
    <2> QED
      BY <1>5, <2>1, <2>2
  <1>10. \A x \in Consumers : Holds(x, d)' => Holds(x, d) /\ hd'[x] = hd[x]
    BY <1>1 DEF Holds
  <1>11. \A x \in Consumers : hd[x].copy.attempts \in Nat
    BY RecordedNumbers
  <1> HIDE DEF s, t
  <1> QED
    BY <1>3, <1>5, <1>6, <1>7, <1>9, <1>10, <1>11, BudgetEased

\* The handler works on another delivery.
LEMMA BudgetOfOther ==
  ASSUME IsFiniteSet(Consumers), Types, Next, NEW d \in Jobs, Budget(d), NEW c \in Consumers,
         Load(c) \/ Handle(c) \/ HandlerFails(c) \/ ConnectionLost(c) \/ Restart(c),
         hd[c].job # d, hd'[c].job # d
  PROVE  Budget(d)'
  <1>1. Weight(c, d) = 0 /\ Weight(c, d)' = 0 /\ ~Holds(c, d)'
    BY DEF Weight, Holds
  <1>2. ready'[d] = ready[d]
    <2>1. ready[d] \in Nat
      BY RecordedNumbers
    <2>2. ASSUME Load(c) PROVE ready'[d] = ready[d]
      BY <2>2, LoadEffect, TakeEffect
    <2>3. ASSUME Nack(c, hd[c].job) \/ Disconnect(c, hd[c].job) PROVE ready'[d] = ready[d]
      BY <2>1, <2>3, RequeueEffect
    <2> QED
      BY <2>2, <2>3 DEF Handle, GiveUp, Post, Record, Save, Finish, HandlerFails, ConnectionLost,
         Restart, Ack, Reattach, queueVars
  <1>3. posts'[d] = posts[d] + 0
    <2>1. posts[d] \in Nat
      BY RecordedNumbers
    <2>2. ASSUME Post(c) PROVE posts'[d] = posts[d]
      BY <2>2, PostEffect DEF Types, TypeOK
    <2> QED
      BY <2>1, <2>2 DEF Load, Handle, GiveUp, Record, Save, Finish, HandlerFails, ConnectionLost,
         Restart, endpoint
  <1>4. row'[d] = row[d]
    BY LoadEffect, GiveUpEffect, PostEffect, RecordEffect, StoreEffect, EndEffect, FailEffect
       DEF Handle, ConnectionLost, rowVars
  <1> QED
    BY <1>1, <1>2, <1>3, <1>4, BudgetAside

\* The handler has lost its message before.
LEMMA BudgetOfLoser ==
  ASSUME IsFiniteSet(Consumers), Types, Next, SmallRows, NEW d \in Jobs, Budget(d),
         NEW c \in Consumers, Handle(c) \/ HandlerFails(c) \/ ConnectionLost(c) \/ Restart(c),
         hd[c].job = d, c \notin unacked
  PROVE  Budget(d)'
  <1>1. c \notin unacked' /\ ~Holds(c, d)' /\ ready'[d] = ready[d]
    <2>1. c \notin unacked'
      BY DEF Handle, GiveUp, Post, Record, Save, Finish, HandlerFails, ConnectionLost, Restart, Ack,
             Nack, Disconnect, Reattach, queueVars
    <2>2. ASSUME Nack(c, hd[c].job) \/ Disconnect(c, hd[c].job) PROVE ready'[d] = ready[d]
      BY <2>2, RequeueEffect, RecordedNumbers
    <2>3. ready'[d] = ready[d]
      BY <2>2 DEF Handle, GiveUp, Post, Record, Save, Finish, HandlerFails, ConnectionLost, Restart,
         Ack, Reattach, queueVars
    <2> QED
      BY <2>1, <2>3 DEF Holds
  <1>2. posts[d] \in Nat
    BY RecordedNumbers
  <1>3. CASE GiveUp(c)
    <2>1. Weight(c, d) = 3 /\ Weight(c, d)' = 0 /\ posts'[d] = posts[d] + 0
      BY <1>1, <1>2, <1>3, GiveUpEffect DEF Weight
    <2> QED
      BY <1>1, <1>3, <2>1, BudgetAside
  <1>4. CASE Post(c)
    <2>1. Weight(c, d) = 3 /\ Weight(c, d)' = 2 /\ row'[d] = row[d]
      BY <1>1, <1>4, PostEffect DEF Weight
    <2>2. posts'[d] = posts[d] + 1
      BY <1>4, PostEffect DEF Types, TypeOK
    <2> QED
      BY <1>1, <1>4, <2>1, <2>2, BudgetAside
  <1>5. CASE Record(c)
    <2>1. /\ Weight(c, d) = 2 /\ Weight(c, d)' = 2 /\ row'[d] = row[d]
          /\ posts'[d] = posts[d] + 0
      BY <1>1, <1>2, <1>5, RecordEffect DEF Weight
    <2> QED
      BY <1>1, <1>5, <2>1, BudgetAside
  <1>6. CASE Save(c)
    <2>1. /\ Weight(c, d) = 2 /\ Weight(c, d)' = 0 /\ posts'[d] = posts[d] + 0
          /\ row'[d] = hd[c].copy
      BY <1>1, <1>2, <1>6, StoreEffect DEF Weight
    <2>2. row'[d].attempts >= 1
      BY <1>6, <2>1, StoreEffect DEF SmallRows
    <2> QED
      BY <1>1, <1>6, <2>1, <2>2, BudgetAside
  <1>7. CASE HandlerFails(c) \/ Finish(c) \/ Restart(c)
    <2>1. /\ Weight(c, d)' = 0 /\ row'[d] = row[d] /\ posts'[d] = posts[d] + 0
      BY <1>1, <1>2, <1>7, FailEffect, EndEffect, RowTypes, QueueAssumption DEF Weight
    <2>2. PICK u \in {0, 2, 3} : u = Weight(c, d)
      BY DEF Weight
    <2> QED
      BY <1>1, <1>7, <2>1, <2>2, BudgetAside
  <1>8. CASE ConnectionLost(c)
    <2>1. UNCHANGED <<hd, row, posts>>
      BY <1>8 DEF ConnectionLost, rowVars, endpoint
    <2>2. PICK u \in {0, 2, 3} : u = Weight(c, d) /\ u = Weight(c, d)'
      BY <1>1, <2>1 DEF Weight
    <2>3. posts'[d] = posts[d] + 0 /\ row'[d] = row[d] /\ u \in Nat /\ 0 + u <= u
      BY <1>2, <2>1
    <2> QED
      BY <1>1, <1>8, <2>2, <2>3, BudgetAside
  <1> QED
    BY <1>3, <1>4, <1>5, <1>6, <1>7, <1>8 DEF Handle

\* A free handler takes the message of d.
LEMMA BudgetTaken ==
  ASSUME IsFiniteSet(Consumers), Types, NEW d \in Jobs, Budget(d), OneMessage(d), OneMessage(d)',
         NEW c \in Consumers, Load(c), hd'[c].job = d
  PROVE  Budget(d)'
  <1>1. PICK e \in Jobs, pc \in {"ack", "giveUp", "post"} :
           /\ Take(c, e) /\ hd'[c].pc = pc /\ hd'[c].job = e /\ hd'[c].copy = row[e]
           /\ hd[c].pc = "idle" /\ UNCHANGED <<row, posts, faults>>
           /\ \A b \in Consumers \ {c} : hd'[b] = hd[b]
    BY LoadEffect
  <1>2. ready[d] > 0 /\ unacked' = unacked \cup {c}
    BY <1>1, TakeEffect
  <1>3. ready[d] = 1
    BY <1>2, RecordedNumbers DEF OneMessage
  <1>4. Weight(c, d) = 0 /\ Weight(c, d)' = 0 /\ Holds(c, d)'
    BY <1>1, <1>2 DEF Weight, Holds
  <1>5. posts'[d] = posts[d] + 0
    BY <1>1, RecordedNumbers
  <1>6. PICK n \in Nat : Spent(d) = n + Weight(c, d) /\ Spent(d)' = n + 0 + Weight(c, d)'
    BY <1>1, <1>2, <1>5, SpentStep
  <1>7. Spent(d) = n /\ Spent(d)' = n
    BY <1>4, <1>6
  <1>8. n <= Allowance /\ n + 3 <= Allowance + row[d].attempts
    BY <1>3, <1>7 DEF Budget
  <1>9. Allowance' = Allowance /\ row'[d] = row[d]
    BY <1>1 DEF Allowance
  <1>10. HeldBudget(c, d)'
    BY <1>1, <1>7, <1>8, <1>9 DEF HeldBudget
  <1> QED
    BY <1>4, <1>7, <1>8, <1>9, <1>10, BudgetOfHolder

\* The handler that has the message of d goes on with it.
LEMMA BudgetHolds ==
  ASSUME IsFiniteSet(Consumers), Types, SmallRows, NEW d \in Jobs, Budget(d), OneMessage(d)',
         NEW c \in Consumers, Holds(c, d),
         GiveUp(c) \/ Post(c) \/ Record(c) \/ Save(c) \/ HandlerFails(c)
  PROVE  Budget(d)'
  <1> DEFINE more == IF Post(c) THEN 1 ELSE 0
  <1>1. /\ \A b \in Consumers \ {c} : hd'[b] = hd[b]
        /\ hd'[c].job = d /\ hd[c].job = d /\ UNCHANGED queueVars
    BY GiveUpEffect, PostEffect, RecordEffect, StoreEffect, FailEffect DEF Holds
  <1>2. Weight(c, d) = 0 /\ Weight(c, d)' = 0 /\ Holds(c, d)'
    BY <1>1 DEF Weight, Holds, queueVars
  <1>3. HeldBudget(c, d) /\ Spent(d) <= Allowance
    BY DEF Budget
  <1>4. PICK a \in Nat, m \in Nat, k \in Nat, max \in Nat :
          /\ a = Allowance /\ m = row[d].attempts /\ k = hd[c].copy.attempts
          /\ max = hd[c].copy.max /\ k <= max
    BY SpentType, RecordedNumbers
  <1>5. posts[d] \in Nat /\ \A b \in Consumers : b \in unacked' <=> b \in unacked
    BY <1>1, RecordedNumbers DEF queueVars
  <1>6. CASE Post(c)
    <2>1. /\ hd[c].pc = "post" /\ hd'[c].pc = "record" /\ hd'[c].copy.attempts = k + 1
          /\ UNCHANGED <<row, faults>>
      BY <1>4, <1>6, PostEffect
    <2>2. posts'[d] = posts[d] + 1
      BY <1>1, <1>6, PostEffect DEF Types, TypeOK
    <2>3. PICK n \in Nat : Spent(d) = n + Weight(c, d) /\ Spent(d)' = n + 1 + Weight(c, d)'
      BY <1>1, <1>5, <2>2, SpentStep
    <2>4. Spent(d) = n /\ Spent(d)' = n + 1
      BY <1>2, <2>3
    <2>5. n + 3 <= a + m /\ n + 3 <= a + k
      BY <1>3, <1>4, <2>1, <2>4 DEF HeldBudget
    <2>6. k + 1 <= 3
      <3>1. k < max
        BY <1>4, <2>1 DEF Types, HandlerTyped
      <3>2. max <= 3
        BY <1>4 DEF SmallRows, MaxAttempts
      <3> QED
        BY <3>1, <3>2
    <2>7. Allowance' = a /\ row'[d].attempts = m
      BY <1>4, <2>1 DEF Allowance
    <2>8. n + 1 <= a /\ n + 1 + 2 <= a + m /\ n + 1 + 3 <= a + (k + 1)
      BY <2>5, <2>6
    <2>9. HeldBudget(c, d)'
      BY <2>1, <2>4, <2>7, <2>8 DEF HeldBudget
    <2> QED
      BY <1>2, <2>4, <2>7, <2>8, <2>9, BudgetOfHolder
  <1>7. CASE ~Post(c)
    <2>1. UNCHANGED posts
      BY <1>7, GiveUpEffect, RecordEffect, StoreEffect, FailEffect
    <2>2. posts'[d] = posts[d] + 0
      BY <1>5, <2>1
    <2>3. PICK n \in Nat : Spent(d) = n + Weight(c, d) /\ Spent(d)' = n + 0 + Weight(c, d)'
      BY <1>1, <1>5, <2>2, SpentStep
    <2>4. Spent(d) = n /\ Spent(d)' = n /\ n <= a
      BY <1>2, <1>3, <1>4, <2>3
    <2>5. CASE HandlerFails(c)
      <3>1. hd'[c].pc = "requeue" /\ row'[d].attempts = m /\ faults' = faults + 1
        BY <1>4, <2>5, FailEffect
      <3>2. Allowance' = a + 3
        BY <1>4, <3>1, RecordedNumbers DEF Allowance
      <3>3. n + 3 <= (a + 3) + m /\ n <= a + 3
        BY <2>4
      <3>4. HeldBudget(c, d)'
        BY <2>4, <3>1, <3>2, <3>3 DEF HeldBudget
      <3> QED
        BY <1>2, <2>4, <3>2, <3>3, <3>4, BudgetOfHolder
    <2>6. CASE GiveUp(c)
      <3>1. hd'[c].pc = "ack" /\ Allowance' = a
        BY <1>4, <2>6, GiveUpEffect DEF Allowance
      <3> QED
        BY <1>2, <2>4, <3>1, BudgetOfHolder DEF HeldBudget
    <2>7. CASE Record(c)
      <3>1. /\ hd[c].pc = "record" /\ hd'[c].pc = "save" /\ hd'[c].copy.attempts = k
            /\ row'[d].attempts = m /\ Allowance' = a
        BY <1>4, <2>7, RecordEffect DEF Allowance
      <3>2. n + 2 <= a + m /\ n + 3 <= a + k
        BY <1>3, <1>4, <2>4, <3>1 DEF HeldBudget
      <3>3. HeldBudget(c, d)'
        BY <2>4, <3>1, <3>2 DEF HeldBudget
      <3> QED
        BY <1>2, <2>4, <3>1, <3>3, BudgetOfHolder
    <2>8. CASE Save(c)
      <3>1. /\ hd[c].pc = "save" /\ hd'[c].pc \in {"requeue", "ack"}
            /\ row'[d].attempts = k /\ Allowance' = a
        BY <1>1, <1>4, <2>8, StoreEffect DEF Allowance
      <3>2. n + 3 <= a + k
        BY <1>3, <1>4, <2>4, <3>1 DEF HeldBudget
      <3>3. HeldBudget(c, d)'
        BY <2>4, <3>1, <3>2 DEF HeldBudget
      <3> QED
        BY <1>2, <2>4, <3>1, <3>3, BudgetOfHolder
    <2> QED
      BY <1>7, <2>5, <2>6, <2>7, <2>8
  <1> QED
    BY <1>6, <1>7

\* The message of d goes back to the queue: from a handler that failed, or
\* from one that goes on without it.
LEMMA BudgetHandedBack ==
  ASSUME IsFiniteSet(Consumers), Types, NEW d \in Jobs, Budget(d), OneMessage(d),
         NEW c \in Consumers, Holds(c, d),
         \/ hd[c].pc = "requeue" /\ Finish(c)
         \/ ConnectionLost(c)
  PROVE  Budget(d)'
  <1>1. /\ \A b \in Consumers \ {c} : hd'[b] = hd[b] /\ (b \in unacked' <=> b \in unacked)
        /\ enq'[d] = enq[d]
    BY ConsumerElsewhere DEF Handle
  <1>2. hd[c].job = d /\ (Nack(c, hd[c].job) \/ Disconnect(c, hd[c].job))
    BY DEF Finish, ConnectionLost, Handling, Holds
  <1>3. unacked' = unacked \ {c} /\ ready'[d] = ready[d] + 1
    BY <1>2, RequeueEffect DEF Holds
  <1>4. ~Holds(c, d)' /\ \A b \in Consumers : Holds(b, d)' => Holds(b, d)
    BY <1>1, <1>3 DEF Holds
  <1>5. \A b \in Consumers : ~Holds(b, d)'
    BY <1>4 DEF OneMessage
  <1>6. UNCHANGED <<row, posts>>
    BY DEF Finish, ConnectionLost, rowVars, endpoint
  <1>7. PICK a \in Nat, m \in Nat : a = Allowance /\ m = row[d].attempts
    BY SpentType, RecordedNumbers
  <1>8. posts'[d] = posts[d] + 0
    BY <1>6, RecordedNumbers
  <1>9. PICK n \in Nat : Spent(d) = n + Weight(c, d) /\ Spent(d)' = n + 0 + Weight(c, d)'
    BY <1>1, <1>8, SpentStep
  <1>10. Weight(c, d) = 0
    BY DEF Weight, Holds
  <1>11. HeldBudget(c, d) /\ n <= a
    BY <1>7, <1>9, <1>10 DEF Budget
  <1>12. CASE hd[c].pc = "requeue" /\ Finish(c)
    <2>1. Weight(c, d)' = 0 /\ Allowance' = a
      BY <1>7, <1>12, EndEffect, RowTypes, QueueAssumption DEF Weight, Allowance
    <2>2. Spent(d)' = n /\ Spent(d) = n
      BY <1>9, <1>10, <2>1
    <2>3. n + 3 <= a + m
      BY <1>7, <1>11, <1>12, <2>2 DEF HeldBudget
    <2> QED
      BY <1>5, <1>6, <1>7, <1>11, <2>1, <2>2, <2>3 DEF Budget
  <1>13. CASE ConnectionLost(c)
    <2>1. UNCHANGED hd /\ faults' = faults + 1
      BY <1>13 DEF ConnectionLost, Fault
    <2>2. Allowance' = a + 3
      BY <1>7, <2>1, RecordedNumbers DEF Allowance
    <2>3. PICK v \in {0, 2, 3} : /\ v = Weight(c, d)'
                                 /\ v = 3 => hd[c].pc \in {"giveUp", "post"}
                                 /\ v = 2 => hd[c].pc \in {"record", "save"}
      BY <2>1 DEF Weight
    <2>4. Spent(d)' = n + v /\ Spent(d) = n
      BY <1>9, <1>10, <2>3
    <2>5. (v = 3 => n + 3 <= a + m) /\ (v = 2 => n + 2 <= a + m)
      BY <1>7, <1>11, <2>3, <2>4 DEF HeldBudget
    <2>6. n + v + 3 <= (a + 3) + m /\ n + v <= a + 3
      <3>1. CASE v = 0
        BY <1>11, <3>1
      <3>2. CASE v = 2
        BY <1>11, <2>5, <3>2
      <3>3. CASE v = 3
        BY <1>11, <2>5, <3>3
      <3> QED
        BY <2>3, <3>1, <3>2, <3>3
    <2> QED
      BY <1>5, <1>6, <1>7, <2>2, <2>4, <2>6 DEF Budget
  <1> QED
    BY <1>12, <1>13

\* Any step of a handler.
LEMMA BudgetOfHandler ==
  ASSUME IsFiniteSet(Consumers), Types, Next, SmallRows, NEW d \in Jobs, Budget(d), OneMessage(d),
         OneMessage(d)', NEW c \in Consumers,
         Load(c) \/ Handle(c) \/ HandlerFails(c) \/ ConnectionLost(c) \/ Restart(c)
  PROVE  Budget(d)'
  <1>1. CASE Load(c)
    <2>1. CASE hd'[c].job = d
      BY <1>1, <2>1, BudgetTaken
    <2>2. CASE hd'[c].job # d /\ hd[c].job # d
      BY <1>1, <2>2, BudgetOfOther
    <2>3. CASE hd'[c].job # d /\ hd[c].job = d
      <3>1. PICK e \in Jobs : /\ Take(c, e) /\ hd'[c].job = e /\ hd[c].pc = "idle"
                              /\ UNCHANGED <<row, posts>>
        BY <1>1, LoadEffect
      <3>2. ready'[d] = ready[d]
        BY <2>3, <3>1, TakeEffect
      <3>3. Weight(c, d) = 0 /\ Weight(c, d)' = 0 /\ ~Holds(c, d)'
        BY <2>3, <3>1 DEF Weight, Holds
      <3>4. posts'[d] = posts[d] + 0 /\ row'[d] = row[d]
        BY <3>1, RecordedNumbers
      <3> QED
        BY <1>1, <3>2, <3>3, <3>4, BudgetAside
    <2> QED
      BY <2>1, <2>2, <2>3
  <1>2. CASE ~Load(c) /\ hd[c].job # d
    <2>1. hd'[c].job # d
      <3>1. NoJob # d
        BY QueueAssumption
      <3> QED
        BY <1>2, <3>1, GiveUpEffect, PostEffect, RecordEffect, StoreEffect, FailEffect, EndEffect,
           RowTypes DEF Handle, ConnectionLost
    <2> QED
      BY <1>2, <2>1, BudgetOfOther
  <1>3. CASE ~Load(c) /\ hd[c].job = d /\ c \notin unacked
    BY <1>3, BudgetOfLoser
  <1>4. CASE ~Load(c) /\ hd[c].job = d /\ c \in unacked
    <2>1. Holds(c, d)
      BY <1>4 DEF Holds
    <2>2. CASE GiveUp(c) \/ Post(c) \/ Record(c) \/ Save(c) \/ HandlerFails(c)
      BY <2>1, <2>2, BudgetHolds
    <2>3. CASE (hd[c].pc = "requeue" /\ Finish(c)) \/ ConnectionLost(c)
      BY <2>1, <2>3, BudgetHandedBack
    <2>4. CASE (hd[c].pc # "requeue" /\ Finish(c)) \/ Restart(c)
      <3>1. ready'[d] = ready[d] /\ hd'[c].job = NoJob /\ UNCHANGED <<row, posts>>
        BY <2>4, EndEffect, RowTypes DEF Finish, Handling, Ack, Restart, Reattach
      <3>2. Weight(c, d) = 0 /\ Weight(c, d)' = 0 /\ ~Holds(c, d)'
        BY <1>4, <3>1, QueueAssumption DEF Weight, Holds
      <3>3. posts'[d] = posts[d] + 0 /\ row'[d] = row[d]
        BY <3>1, RecordedNumbers
      <3>4. 0 \in Nat /\ 0 + 0 <= 0
        OBVIOUS
      <3> QED
        BY <3>1, <3>2, <3>3, <3>4, BudgetAside
    <2> QED
      BY <1>4, <2>2, <2>3, <2>4 DEF Handle
  <1> QED
    BY <1>1, <1>2, <1>3, <1>4

\* A step of the call that enqueues e.
LEMMA BudgetOfEnqueue ==
  ASSUME IsFiniteSet(Consumers), Types, Next, NEW e \in Jobs,
         Create(e) \/ PublishJob(e) \/ Commit(e) \/ PublishFails(e) \/ Rollback(e),
         NEW d \in Jobs, Budget(d), NotYet(d)
  PROVE  Budget(d)'
  <1>1. UNCHANGED <<hd, unacked, posts>>
    BY EnqueueEffect
  <1>2. Types'
    BY TypesNext
  <1>3. PICK a, b \in Nat : a = Allowance /\ b = Allowance' /\ a <= b
    BY AllowanceEffect
  <1>4. PICK s \in Nat : s = Spent(d) /\ s = Spent(d)'
    <2>1. Spent(d)' = Spent(d)
      BY <1>1 DEF Spent, Before, After
    <2> QED
      BY <2>1, SpentType
  <1>5. PICK m, n \in Nat : m = row[d].attempts /\ n = row'[d].attempts
    BY <1>2, RecordedNumbers DEF Types, TypeOK, Row
  <1>6. \A c \in Consumers : Holds(c, d)' => Holds(c, d) /\ hd'[c] = hd[c]
    BY <1>1 DEF Holds
  <1>7. \A c \in Consumers : hd[c].copy.attempts \in Nat
    BY RecordedNumbers
  <1>8. m = n
    <2>1. CASE UNCHANGED row
      BY <1>5, <2>1
    <2>2. CASE e # d
      BY <1>5, <2>2, EnqueueEffect
    <2>3. CASE e = d /\ (Create(d) \/ Commit(d)) /\ row'[d] # row[d]
      <3>1. Unseen(d) /\ row'[d] = NewRow
        BY <2>3, EnqueueEffect DEF Create, Commit, Enqueued, Unseen
      <3>2. row[d] = NoRow
        BY <3>1 DEF NotYet
      <3> QED
        BY <1>5, <3>1, <3>2 DEF NoRow, NewRow
    <2>4. CASE row'[d] = row[d]
      BY <1>5, <2>4
    <2> QED
      BY <2>1, <2>2, <2>3, <2>4 DEF PublishJob, PublishFails, Rollback, rowVars
  <1>9. s <= s
    BY <1>4
  <1>10. Unpublished(d)' \/ ready'[d] = 1 => Unpublished(d) \/ ready[d] = 1
    <2>1. CASE e = d /\ PublishJob(d)
      BY <2>1 DEF PublishJob, Enqueued, Unpublished
    <2>2. CASE e # d
      <3>1. ready'[d] = ready[d]
        BY <2>2 DEF Create, PublishJob, Commit, PublishFails, Rollback, Publish, queueVars, Types,
                    TypeOK, QueueTypeOK
      <3>2. enq'[d] = enq[d]
        BY <2>2, EnqueueEffect
      <3> QED
        BY <3>1, <3>2 DEF Unpublished
    <2>3. CASE e = d /\ (Create(d) \/ Commit(d) \/ PublishFails(d) \/ Rollback(d))
      <3>1. UNCHANGED ready
        BY <2>3 DEF Create, Commit, PublishFails, Rollback, queueVars
      <3>2. Unpublished(d)' => Unpublished(d)
        BY <2>3 DEF Create, Commit, PublishFails, Rollback, Enqueued, Unpublished, Types, TypeOK
      <3> QED
        BY <3>1, <3>2
    <2> QED
      BY <2>1, <2>2, <2>3
  <1> QED
    BY <1>3, <1>4, <1>5, <1>6, <1>7, <1>8, <1>9, <1>10, BudgetEased

LEMMA BudgetedInit == ASSUME IsFiniteSet(Consumers) PROVE Init => Budgeted
  <1> SUFFICES ASSUME Init, NEW d \in Jobs PROVE Budget(d)
    BY DEF Budgeted
  <1>1. posts[d] = 0 /\ unacked = {} /\ row[d] = NoRow /\ faults = 0
        /\ \A c \in Consumers : hd[c].pc = "idle"
    BY RowTypes DEF Init, QueueInit
  <1>2. Before(d) = {} /\ After(d) = {}
    BY <1>1 DEF Before, After
  <1>3. Cardinality({}) = 0
    BY FS_EmptySet
  <1>4. Spent(d) = 0 /\ Allowance = 3 /\ row[d].attempts = 0
    BY <1>1, <1>2, <1>3 DEF Spent, Allowance, NoRow
  <1>5. \A c \in Consumers : ~Holds(c, d)
    BY <1>1 DEF Holds
  <1> QED
    BY <1>4, <1>5 DEF Budget

LEMMA BudgetedNext ==
  ASSUME IsFiniteSet(Consumers), Types, Small, Single, Single', Budgeted, [Next]_vars
  PROVE  Budgeted'
  <1>1. CASE UNCHANGED vars
    <2>1. UNCHANGED <<ready, unacked, row, enq, hd, posts, retries, faults>>
      BY <1>1 DEF vars, queueVars, rowVars, endpoint
    <2>2. \A d \in Jobs : Spent(d)' = Spent(d)
      BY <2>1 DEF Spent, Before, After
    <2>3. Allowance' = Allowance
      BY <2>1 DEF Allowance
    <2> QED
      BY <2>1, <2>2, <2>3 DEF Budgeted, Budget, HeldBudget, Holds, Unpublished
  <1>2. CASE Next /\ retries' = 0
    <2>1. ASSUME NEW d \in Jobs PROVE Budget(d) /\ OneMessage(d) /\ NotYet(d) /\ OneMessage(d)'
      BY <1>2, Unaided DEF Single, Budgeted
    <2> QED
      BY <1>2, <2>1, Unaided, BudgetOfHandler, BudgetOfEnqueue DEF Budgeted
  <1> QED
    BY <1>1, <1>2 DEF Budgeted

LEMMA BudgetedInvariant == ASSUME IsFiniteSet(Consumers) PROVE Spec => []Budgeted
  BY BudgetedInit, BudgetedNext, SingleInvariant, SmallInvariant, TypesInvariant, PTL DEF Spec

\* The attempt is recorded before the row is stored and after the post
\* (send-tenant-webhook.go:186, :205), the limit is tested on a copy read
\* without a lock (:124), and a message whose consumer is lost is handled
\* again: every counted attempt has its record, every record was a post, and
\* without retry calls a fault costs three more posts at most.
THEOREM AttemptsLoggedCorrect ==
  ASSUME IsFiniteSet(Consumers)
  PROVE  Spec => []AttemptsLogged
  <1>1. ASSUME Types, Recorded, PostedFirst, Budgeted PROVE AttemptsLogged
    <2> SUFFICES ASSUME NEW d \in Jobs
                 PROVE  /\ row[d].attempts <= log[d] /\ log[d] <= posts[d]
                        /\ retries = 0 => posts[d] <= MaxAttempts * (1 + faults)
      BY DEF AttemptsLogged
    <2>1. row[d].attempts <= log[d]
      BY <1>1 DEF Recorded
    <2>2. log[d] \in Nat /\ posts[d] \in Nat /\ faults \in Nat
      BY <1>1, RecordedNumbers
    <2>3. log[d] <= posts[d]
      BY <1>1, <2>2, RecordingFinite DEF PostedFirst
    <2>4. ASSUME retries = 0 PROVE posts[d] <= MaxAttempts * (1 + faults)
      <3>1. Spent(d) <= Allowance
        BY <1>1, <2>4 DEF Budgeted, Budget
      <3>2. Cardinality(Before(d)) \in Nat /\ Cardinality(After(d)) \in Nat
        BY LosersFinite, FS_CardinalityType
      <3> QED
        BY <2>2, <3>1, <3>2 DEF Spent, Allowance, MaxAttempts
    <2> QED
      BY <2>1, <2>3, <2>4
  <1> QED
    BY <1>1, TypesInvariant, RecordedInvariant, PostedInvariant, BudgetedInvariant, PTL
=============================================================================
