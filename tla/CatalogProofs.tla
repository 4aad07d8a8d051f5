--------------------------- MODULE CatalogProofs ---------------------------
(***************************************************************************)
(* Proofs about Catalog: the types of its state, versions that follow the  *)
(* plan and terms that follow the versions, and what a subscription and a  *)
(* card get once, for every set of editors, callers and jobs.              *)
(***************************************************************************)
EXTENDS Catalog, FiniteSetTheorems, TLAPS

Bit(b) == IF b THEN 1 ELSE 0

VersionRow == [index : Nat, amount : Amounts, trial : Trials, status : PlanStatus]

\* A request that is about to commit has a body with a price and a trial,
\* and the plan it read exists.
EditorInv(e) ==
    editor[e].pc = "commit" => /\ editor[e].body.amount \in Amounts
                               /\ editor[e].body.trial \in Trials
                               /\ versions # <<>>

PlanInv ==
    /\ plan \in Plan /\ answered \in Plan /\ versions \in Seq(VersionRow)
    /\ editor \in [Editors -> [pc : {"idle", "commit"}, copy : Plan, body : Plan, seen : Nat]]
    /\ dropped \in BOOLEAN /\ faults \in Nat
    /\ plan = NoPlan <=> versions = <<>>
    /\ versions # <<>> => plan.amount \in Amounts
    /\ VersionsFollowPlan
    /\ \A e \in Editors : EditorInv(e)

HasTerms(c, vs) ==
    /\ c.version \in 1 .. Len(vs)
    /\ c.amount = vs[c.version].amount /\ c.trial = vs[c.version].trial

InTime(c) == c.trialEnd # NoTime /\ c.started # NoTime => c.started >= c.trialEnd

CallerPcs == {"idle", "insert", "invoice", "attach", "cancel"}
JobPcs == {"idle", "ending", "flag", "ended", "announce"}

WorkerRow == [pc : CallerPcs \cup JobPcs, s : Subs \cup {0}, todo : SUBSET Subs,
              copies : [Subs -> Sub], old : SUBSET Subs, at : Nat]

\* A worker whose state is r holds a copy of subscription s.
Holds(r, s) == s \in r.todo \/ r.s = s

\* What is true of the state r of worker w by itself.
Shape(w, r, t) ==
    /\ r \in WorkerRow /\ r.at <= t
    /\ w \in Callers => r.pc \in CallerPcs /\ r.todo = {}
    /\ w \in TrialJobs => r.pc \in JobPcs
    /\ r.s = 0 <=> r.pc \in {"idle", "ending", "ended"}
    /\ r.s \notin r.todo
    /\ r.pc = "idle" => r.todo = {}

\* What is true of the copy that a worker in state r holds of s, whose row is
\* row: the terms and the end of the trial are those of the row; a copy nobody
\* has written over tells what the row tells of things done once.
CopyInv(r, s, row, vs) ==
    LET c == r.copies[s] IN
    IF r.pc = "insert" THEN row.status = "none" /\ HasTerms(c, vs)
    ELSE /\ row.status # "none" /\ c.status # "none"
         /\ HasTerms(c, vs) /\ InTime(c) /\ c.trialEnd = row.trialEnd
         /\ r.pc = "invoice" => c.invoice = 0
         /\ r.pc = "attach" => c.invoice # 0
         /\ r.pc \in {"ending", "flag"} => ~c.noticed
         /\ r.pc \in {"ended", "announce"} => c.started = NoTime /\ c.trialEnd <= r.at
         /\ s \notin r.old /\ (r.pc = "announce" => r.s # s) =>
              /\ c.noticed = row.noticed /\ c.started = row.started
              /\ r.pc # "attach" => c.invoice = row.invoice

RowInv(row, vs) ==
    /\ row.status = "none" => row = NoSub
    /\ row.status # "none" => HasTerms(row, vs)
    /\ InTime(row)

\* Started before the end of its trial it is never.
StartInv(s) == starts[s] > 0 => sub[s].status # "none" /\ sub[s].trialEnd <= now

Attaching(s) == {w \in Workers : /\ wk[w].pc = "attach" /\ wk[w].s = s
                                 /\ s \in wk[w].old \/ sub[s].invoice = 0}
Flagging(s) == {w \in Workers : wk[w].pc = "flag" /\ wk[w].s = s}
Announcing(s) == {w \in Workers : wk[w].pc = "announce" /\ wk[w].s = s}

\* What was done, counted against what the row says was done.
InvoiceCount(s) ==
    invoices[s] <= Bit(sub[s].invoice # 0) + stale[s] + faults + Cardinality(Attaching(s))
NoticeCount(s) ==
    notices[s] <= Bit(sub[s].noticed) + stale[s] + faults + Cardinality(Flagging(s))
StartCount(s) ==
    starts[s] + Cardinality(Announcing(s)) <= Bit(sub[s].started # NoTime) + stale[s]

SubTypes ==
    /\ now \in Nat /\ calls \in Nat
    /\ sub \in [Subs -> Sub] /\ wk \in [Workers -> WorkerRow]
    /\ invoices \in [Subs -> Nat] /\ stale \in [Subs -> Nat]
    /\ notices \in [Subs -> Nat] /\ starts \in [Subs -> Nat]

\* One request at a time is about to insert a subscription.
OneInserts ==
    \A v, w \in Workers : v # w /\ wk[v].pc = "insert" /\ wk[w].pc = "insert" =>
        wk[v].s # wk[w].s

HoldInv ==
    /\ \A s \in Subs : RowInv(sub[s], versions) /\ StartInv(s)
    /\ \A w \in Workers : Shape(w, wk[w], now)
    /\ \A w \in Workers, s \in Subs :
         Holds(wk[w], s) => CopyInv(wk[w], s, sub[s], versions)
    /\ OneInserts

OnceInv == \A s \in Subs : InvoiceCount(s) /\ NoticeCount(s) /\ StartCount(s)

SubInv == SubTypes /\ HoldInv /\ OnceInv

CardFlagging(c) == {w \in TrialJobs : ck[w].pc = "flag" /\ ck[w].copy.card = c}

CardCount(c) ==
    cardNotices[c] <= Bit(source.card = c => source.noticed) + cardStale + faults
                        + Cardinality(CardFlagging(c))

\* A copy of the source that is not out of date is the row; a job has found it
\* without a notice.
CardCopyInv(w) ==
    /\ w \in TrialJobs => ck[w].pc \in {"idle", "check", "notify", "flag"}
    /\ w \in Callers => ck[w].pc \notin {"check", "notify"}
    /\ ck[w].pc # "idle" =>
         /\ ck[w].copy.card <= newest
         /\ ~ck[w].old => ck[w].copy = source
         /\ w \in TrialJobs => ~ck[w].copy.noticed

CardInv ==
    /\ CardTypeOK
    /\ source.card <= newest
    /\ \A w \in Workers : CardCopyInv(w)
    /\ \A c \in Cards : c > newest => cardNotices[c] = 0
    /\ \A c \in Cards : CardCount(c)
    /\ cardStale = 0 =>
         /\ source.card = newest
         /\ (source.status = "inactive") = disabled

CatalogInv == surface \in Surfaces /\ PlanInv /\ SubInv /\ CardInv
-----------------------------------------------------------------------------
(* Plans *)

\* Versions are only added.
Grows ==
    /\ Len(versions) <= Len(versions')
    /\ \A i \in 1 .. Len(versions) : versions'[i] = versions[i]

LEMMA NoPlanType == NoPlan \in Plan /\ IdleEditor \in [pc : {"idle", "commit"}, copy : Plan, body : Plan, seen : Nat]
  BY DEF NoPlan, Plan, PlanStatus, IdleEditor

\* One more version at the end of the list.
LEMMA Appended ==
  ASSUME versions \in Seq(VersionRow), NEW v \in VersionRow,
         versions' = Append(versions, v)
  PROVE  /\ versions' \in Seq(VersionRow) /\ versions' # <<>>
         /\ Len(versions') = Len(versions) + 1
         /\ Latest' = v /\ versions'[Len(versions) + 1] = v
         /\ Grows
  BY DEF Grows, Latest

LEMMA PlanInitially == PlanInit => PlanInv
  <1> SUFFICES ASSUME PlanInit PROVE PlanInv
    OBVIOUS
  <1>1. editor \in [Editors -> [pc : {"idle", "commit"}, copy : Plan, body : Plan, seen : Nat]]
    BY NoPlanType DEF PlanInit
  <1>2. \A e \in Editors : EditorInv(e)
    BY DEF PlanInit, EditorInv, IdleEditor
  <1>3. VersionsFollowPlan
    BY DEF PlanInit, VersionsFollowPlan
  <1>4. versions \in Seq(VersionRow) /\ versions = <<>> /\ plan = NoPlan
    BY DEF PlanInit
  <1>5. /\ plan \in Plan /\ answered \in Plan /\ dropped \in BOOLEAN /\ faults \in Nat
    BY NoPlanType DEF PlanInit
  <1> QED
    BY <1>1, <1>2, <1>3, <1>4, <1>5 DEF PlanInv

LEMMA CreateKeeps ==
  ASSUME PlanInv, NEW e \in Editors, CreatePlan(e)
  PROVE  PlanInv' /\ Grows
  <1>1. PICK p \in [amount : Amounts, trial : Trials, status : {"active"}] :
          /\ plan' = p /\ versions' = <<Version(1, p)>> /\ answered' = p
    BY DEF CreatePlan
  <1> DEFINE v == Version(1, p)
  <1>2. v \in VersionRow /\ v.index = 1 /\ v.amount = p.amount /\ v.status = p.status
        /\ v.trial = p.trial
    BY DEF Version, VersionRow, PlanStatus
  <1>3. p \in Plan /\ p.amount \in Amounts
    BY DEF Plan, PlanStatus
  <1>4. p # NoPlan
    BY <1>3, PlanAssumption DEF NoPlan
  <1> HIDE DEF v
  <1>5. versions = <<>> /\ versions' = <<v>> /\ UNCHANGED <<editor, dropped, faults>>
    BY <1>1 DEF CreatePlan, PlanInv, v
  <1>6. versions' \in Seq(VersionRow) /\ versions' # <<>> /\ Len(versions') = 1 /\ versions'[1] = v
    BY <1>2, <1>5
  <1>7. Latest' = v
    BY <1>6 DEF Latest
  <1>8. VersionsFollowPlan'
    <2>1. Version(Latest.index, answered)' = v
      BY <1>1, <1>2, <1>7 DEF Version, v
    <2>2. DOMAIN versions' = {1}
      BY <1>5
    <2> QED
      BY <1>1, <1>2, <1>6, <1>7, <2>1, <2>2 DEF VersionsFollowPlan
  <1>9. \A f \in Editors : EditorInv(f)'
    BY <1>5, <1>6 DEF PlanInv, EditorInv
  <1>10. Grows
    BY <1>5, <1>6 DEF Grows
  <1> QED
    BY <1>1, <1>3, <1>4, <1>5, <1>6, <1>8, <1>9, <1>10 DEF PlanInv

LEMMA UpdateReadKeeps ==
  ASSUME PlanInv, NEW e \in Editors, UpdateRead(e)
  PROVE  PlanInv' /\ Grows
  <1>1. PICK b \in [amount : Amounts, trial : Trials, status : PlanStatus] :
          editor' = [editor EXCEPT ![e] = [pc |-> "commit", copy |-> plan, body |-> b,
                                           seen |-> Len(versions)]]
    BY DEF UpdateRead
  <1>2. UNCHANGED <<plan, versions, answered, dropped, faults>> /\ plan # NoPlan
    BY DEF UpdateRead
  <1>3. b \in Plan /\ b.amount \in Amounts /\ b.trial \in Trials
    BY DEF Plan
  <1>4. [pc |-> "commit", copy |-> plan, body |-> b, seen |-> Len(versions)]
          \in [pc : {"idle", "commit"}, copy : Plan, body : Plan, seen : Nat]
    BY <1>3 DEF PlanInv
  <1>5. editor' \in [Editors -> [pc : {"idle", "commit"}, copy : Plan, body : Plan, seen : Nat]]
    BY <1>1, <1>4 DEF PlanInv
  <1>6. versions # <<>>
    BY <1>2 DEF PlanInv
  <1>7. \A f \in Editors : EditorInv(f)'
    BY <1>1, <1>2, <1>3, <1>6 DEF PlanInv, EditorInv
  <1>8. VersionsFollowPlan'
    BY <1>2 DEF PlanInv, VersionsFollowPlan, Latest, Version
  <1> QED
    BY <1>2, <1>5, <1>7, <1>8 DEF PlanInv, Grows

LEMMA UpdateCommitKeeps ==
  ASSUME PlanInv, NEW e \in Editors, UpdateCommit(e)
  PROVE  PlanInv' /\ Grows
  <1> DEFINE p == editor[e].body
             v == Version(NextIndex(e), p)
  <1>1. /\ plan' = Updates(plan, p) /\ versions' = Append(versions, v) /\ answered' = p
        /\ editor' = [editor EXCEPT ![e] = IdleEditor] /\ UNCHANGED <<dropped, faults>>
    BY DEF UpdateCommit
  <1>2. p \in Plan /\ p.amount \in Amounts /\ p.trial \in Trials /\ versions # <<>>
    BY DEF PlanInv, EditorInv, UpdateCommit
  <1>3. Len(versions) \in Nat \ {0} /\ Latest.index = Len(versions)
    BY <1>2 DEF PlanInv, VersionsFollowPlan, Latest
  <1>4. /\ v \in VersionRow /\ v.index = Len(versions) + 1
        /\ v.amount = p.amount /\ v.trial = p.trial /\ v.status = p.status
    BY <1>2, <1>3 DEF Version, VersionRow, NextIndex, Plan, PlanStatus
  <1>5. Version(v.index, p) = v
    BY DEF Version
  <1> HIDE DEF v
  <1>6. /\ plan' \in Plan /\ plan'.amount = p.amount /\ plan'.status = p.status
        /\ p.trial \in {0, plan'.trial}
    BY <1>1, <1>2 DEF Updates, Plan, PlanInv
  <1> HIDE DEF p
  <1>7. /\ versions' \in Seq(VersionRow) /\ versions' # <<>> /\ Len(versions') = Len(versions) + 1
        /\ Latest' = v /\ versions'[Len(versions) + 1] = v /\ Grows
    BY <1>1, <1>4, Appended DEF PlanInv
  <1>8. VersionsFollowPlan'
    <2>1. \A i \in DOMAIN versions' : versions'[i].index = i
      <3>1. DOMAIN versions' = 1 .. Len(versions) + 1 /\ DOMAIN versions = 1 .. Len(versions)
        BY <1>7 DEF PlanInv
      <3> QED
        BY <3>1, <1>3, <1>4, <1>7 DEF PlanInv, VersionsFollowPlan, Grows
    <2>2. Version(Latest.index, answered)' = v
      BY <1>1, <1>5, <1>7 DEF Version
    <2>3. v.trial \in {0, plan'.trial} /\ v.amount = plan'.amount /\ v.status = plan'.status
      BY <1>4, <1>6
    <2> QED
      BY <1>7, <2>1, <2>2, <2>3 DEF VersionsFollowPlan
  <1>9. editor' \in [Editors -> [pc : {"idle", "commit"}, copy : Plan, body : Plan, seen : Nat]]
    BY <1>1, NoPlanType DEF PlanInv
  <1>10. \A f \in Editors : EditorInv(f)'
    BY <1>1, <1>7 DEF PlanInv, EditorInv, IdleEditor
  <1>11. plan' # NoPlan
    BY <1>2, <1>6, PlanAssumption DEF NoPlan
  <1> QED
    BY <1>1, <1>2, <1>6, <1>7, <1>8, <1>9, <1>10, <1>11 DEF PlanInv

LEMMA UpdateFailsKeeps ==
  ASSUME PlanInv, NEW e \in Editors, UpdateFails(e)
  PROVE  PlanInv' /\ Grows
  <1>1. /\ answered' = editor[e].body /\ dropped' = TRUE /\ faults' = faults + 1
        /\ editor' = [editor EXCEPT ![e] = IdleEditor] /\ UNCHANGED <<plan, versions>>
    BY DEF UpdateFails, Fault
  <1>2. editor' \in [Editors -> [pc : {"idle", "commit"}, copy : Plan, body : Plan, seen : Nat]]
    BY <1>1, NoPlanType DEF PlanInv
  <1>3. \A f \in Editors : EditorInv(f)'
    BY <1>1 DEF PlanInv, EditorInv, IdleEditor
  <1>4. VersionsFollowPlan'
    BY <1>1 DEF PlanInv, VersionsFollowPlan, Latest
  <1>5. faults' \in Nat /\ answered' \in Plan
    BY <1>1 DEF PlanInv
  <1> QED
    BY <1>1, <1>2, <1>3, <1>4, <1>5 DEF PlanInv, Grows

LEMMA PlanStepKeeps ==
  ASSUME PlanInv, NEW e \in Editors, PlanStep(e)
  PROVE  PlanInv' /\ Grows /\ faults' \in Nat /\ faults <= faults'
  <1>1. PlanInv' /\ Grows
    BY CreateKeeps, UpdateReadKeeps, UpdateCommitKeeps, UpdateFailsKeeps DEF PlanStep
  <1>2. faults' = faults \/ faults' = faults + 1
    BY DEF PlanStep, CreatePlan, UpdateRead, UpdateCommit, UpdateFails, Fault
  <1> QED
    BY <1>1, <1>2 DEF PlanInv

LEMMA PlanStays ==
  ASSUME PlanInv, UNCHANGED planVars, faults' \in Nat
  PROVE  PlanInv' /\ Grows
  <1>1. VersionsFollowPlan' /\ \A f \in Editors : EditorInv(f)'
    BY DEF PlanInv, planVars, VersionsFollowPlan, EditorInv, Latest, Version
  <1> QED
    BY <1>1 DEF PlanInv, planVars, Grows
-----------------------------------------------------------------------------
(* Counting workers *)

LEMMA WorkersFinite == IsFiniteSet(Workers) /\ Callers \subseteq Workers /\ TrialJobs \subseteq Workers
  BY LifecycleAssumption, FS_Union DEF Workers

LEMMA SomeWorkers ==
  ASSUME NEW S \in SUBSET Workers
  PROVE  IsFiniteSet(S) /\ Cardinality(S) \in Nat
  BY WorkersFinite, FS_Subset, FS_CardinalityType

\* A set that only grows does not get smaller, one that loses x gets smaller
\* by one, one that gains x bigger by one.
LEMMA MoreWorkers ==
  ASSUME NEW T \in SUBSET Workers, NEW S \in SUBSET T
  PROVE  Cardinality(S) <= Cardinality(T)
  BY SomeWorkers, FS_Subset

LEMMA LosesOne ==
  ASSUME NEW S \in SUBSET Workers, NEW T \in SUBSET Workers, NEW x, S \ {x} \subseteq T
  PROVE  Cardinality(S) <= Cardinality(T) + 1
  <1>1. S \ {x} \in SUBSET Workers
    OBVIOUS
  <1>2. Cardinality(S \ {x}) <= Cardinality(T)
    BY <1>1, MoreWorkers
  <1>3. IsFiniteSet(S) /\ Cardinality(S) \in Nat /\ Cardinality(T) \in Nat
        /\ Cardinality(S \ {x}) \in Nat
    BY <1>1, SomeWorkers
  <1>4. Cardinality(S \ {x}) = IF x \in S THEN Cardinality(S) - 1 ELSE Cardinality(S)
    BY <1>3, FS_RemoveElement
  <1> QED
    BY <1>2, <1>3, <1>4

LEMMA GainsOne ==
  ASSUME NEW S \in SUBSET Workers, NEW T \in SUBSET Workers, NEW x, T \subseteq S \cup {x}
  PROVE  Cardinality(T) <= Cardinality(S) + 1
  <1>1. T \ {x} \subseteq S
    OBVIOUS
  <1> QED
    BY <1>1, LosesOne

\* x itself is counted in T and no longer in S, or the other way round.
LEMMA ByOne ==
  ASSUME NEW S \in SUBSET Workers, NEW x, x \notin S, NEW T \in SUBSET Workers, T = S \cup {x}
  PROVE  Cardinality(T) = Cardinality(S) + 1
  <1>1. IsFiniteSet(S) /\ Cardinality(S) \in Nat
    BY SomeWorkers
  <1> QED
    BY <1>1, FS_AddElement

LEMMA SetsOfWorkers ==
  ASSUME NEW s \in Subs
  PROVE  /\ Attaching(s) \in SUBSET Workers /\ Flagging(s) \in SUBSET Workers
         /\ Announcing(s) \in SUBSET Workers
         /\ Attaching(s)' \in SUBSET Workers /\ Flagging(s)' \in SUBSET Workers
         /\ Announcing(s)' \in SUBSET Workers
         /\ Cardinality(Attaching(s)) \in Nat /\ Cardinality(Attaching(s)') \in Nat
         /\ Cardinality(Flagging(s)) \in Nat /\ Cardinality(Flagging(s)') \in Nat
         /\ Cardinality(Announcing(s)) \in Nat /\ Cardinality(Announcing(s)') \in Nat
  <1>1. /\ Attaching(s) \in SUBSET Workers /\ Flagging(s) \in SUBSET Workers
        /\ Announcing(s) \in SUBSET Workers
        /\ Attaching(s)' \in SUBSET Workers /\ Flagging(s)' \in SUBSET Workers
        /\ Announcing(s)' \in SUBSET Workers
    BY DEF Attaching, Flagging, Announcing, Workers
  <1> QED
    BY <1>1, SomeWorkers
-----------------------------------------------------------------------------
(* Rows and copies *)

LEMMA NoSubType == NoSub \in Sub /\ NoCopies \in [Subs -> Sub] /\ NoTime = -1
  BY DEF NoSub, Sub, NoCopies, SubStatus, NoTime

LEMMA IdleShape ==
  ASSUME NEW w \in Workers, now \in Nat
  PROVE  /\ IdleWorker \in WorkerRow /\ IdleWorker.pc = "idle" /\ IdleWorker.s = 0
         /\ IdleWorker.todo = {} /\ IdleWorker.old = {} /\ IdleWorker.at = 0
         /\ IdleWorker.copies = NoCopies
         /\ Shape(w, IdleWorker, now)
         /\ \A s \in Subs : ~Holds(IdleWorker, s)
  <1>1. /\ IdleWorker.pc = "idle" /\ IdleWorker.s = 0 /\ IdleWorker.todo = {}
        /\ IdleWorker.old = {} /\ IdleWorker.at = 0 /\ IdleWorker.copies = NoCopies
    BY DEF IdleWorker
  <1>2. IdleWorker \in WorkerRow
    BY NoSubType DEF IdleWorker, WorkerRow, CallerPcs
  <1>3. Shape(w, IdleWorker, now)
    BY <1>1, <1>2 DEF Shape, CallerPcs, JobPcs
  <1> QED
    BY <1>1, <1>2, <1>3, LifecycleAssumption DEF Holds

LEMMA TermsGrow ==
  ASSUME Grows, versions \in Seq(VersionRow), versions' \in Seq(VersionRow), NEW c,
         HasTerms(c, versions)
  PROVE  HasTerms(c, versions')
  BY DEF Grows, HasTerms

LEMMA CopyGrows ==
  ASSUME Grows, versions \in Seq(VersionRow), versions' \in Seq(VersionRow),
         NEW r, NEW s \in Subs, NEW row, CopyInv(r, s, row, versions)
  PROVE  CopyInv(r, s, row, versions')
  <1>1. HasTerms(r.copies[s], versions) => HasTerms(r.copies[s], versions')
    BY TermsGrow
  <1> QED
    BY <1>1 DEF CopyInv

\* Whatever does not touch subscriptions: time, calls, plans, cards.
LEMMA SubStays ==
  ASSUME SubInv, PlanInv, PlanInv', Grows,
         now' \in Nat, now <= now', calls' \in Nat, faults <= faults',
         UNCHANGED <<sub, invoices, wk, stale, notices, starts>>
  PROVE  SubInv'
  <1>1. SubTypes'
    BY DEF SubInv, SubTypes
  <1>v. versions \in Seq(VersionRow) /\ versions' \in Seq(VersionRow) /\ now \in Nat
    BY DEF PlanInv, SubInv, SubTypes
  <1>2. \A s \in Subs : RowInv(sub[s], versions)' /\ StartInv(s)'
    <2> SUFFICES ASSUME NEW s \in Subs PROVE RowInv(sub[s], versions') /\ StartInv(s)'
      OBVIOUS
    <2>1. RowInv(sub[s], versions) /\ StartInv(s)
      BY DEF SubInv, HoldInv
    <2>2. RowInv(sub[s], versions')
      BY <1>v, <2>1, TermsGrow DEF RowInv
    <2>3. sub[s].trialEnd \in Nat \cup {NoTime}
      BY DEF SubInv, SubTypes, Sub
    <2>4. StartInv(s)'
      BY <1>v, <2>1, <2>3, NoSubType DEF StartInv
    <2> QED
      BY <2>2, <2>4
  <1>3. \A w \in Workers : Shape(w, wk[w], now)'
    <2> SUFFICES ASSUME NEW w \in Workers PROVE Shape(w, wk[w], now')
      OBVIOUS
    <2>1. Shape(w, wk[w], now) /\ wk[w].at \in Nat
      BY DEF SubInv, HoldInv, SubTypes, WorkerRow
    <2> QED
      BY <1>v, <2>1 DEF Shape
  <1>4. \A w \in Workers, s \in Subs :
          Holds(wk[w], s)' => CopyInv(wk[w], s, sub[s], versions)'
    BY <1>v, CopyGrows DEF SubInv, HoldInv, Holds
  <1>5. OneInserts'
    BY DEF SubInv, HoldInv, OneInserts
  <1>6. OnceInv'
    <2> SUFFICES ASSUME NEW s \in Subs
                 PROVE  InvoiceCount(s)' /\ NoticeCount(s)' /\ StartCount(s)'
      BY DEF OnceInv
    <2>1. Attaching(s)' = Attaching(s) /\ Flagging(s)' = Flagging(s)
          /\ Announcing(s)' = Announcing(s)
      BY DEF Attaching, Flagging, Announcing, Workers
    <2>2. /\ invoices[s] \in Nat /\ notices[s] \in Nat /\ stale[s] \in Nat /\ starts[s] \in Nat
          /\ faults \in Nat /\ faults' \in Nat
      BY DEF SubInv, SubTypes, PlanInv
    <2>3. InvoiceCount(s) /\ NoticeCount(s) /\ StartCount(s)
      BY DEF SubInv, OnceInv
    <2>4. InvoiceCount(s)'
      BY <2>1, <2>2, <2>3, SetsOfWorkers DEF InvoiceCount, Bit
    <2>5. NoticeCount(s)'
      BY <2>1, <2>2, <2>3, SetsOfWorkers DEF NoticeCount, Bit
    <2>6. StartCount(s)'
      BY <2>1, <2>2, <2>3, SetsOfWorkers DEF StartCount, Bit
    <2> QED
      BY <2>4, <2>5, <2>6
  <1> QED
    BY <1>1, <1>2, <1>3, <1>4, <1>5, <1>6 DEF SubInv, HoldInv
-----------------------------------------------------------------------------
(* Steps of one worker, and stores of rows *)

LEMMA ShapeOf ==
  ASSUME SubInv, NEW w \in Workers
  PROVE  /\ wk[w] \in WorkerRow /\ Shape(w, wk[w], now) /\ now \in Nat
         /\ wk[w].copies \in [Subs -> Sub] /\ wk[w].todo \subseteq Subs
         /\ wk[w].old \subseteq Subs /\ wk[w].at \in Nat /\ wk[w].at <= now
         /\ wk[w].s \in Subs \cup {0} /\ wk[w].s \notin wk[w].todo
  <1>1. wk[w] \in WorkerRow /\ Shape(w, wk[w], now) /\ now \in Nat
    BY DEF SubInv, SubTypes, HoldInv
  <1> QED
    BY <1>1 DEF WorkerRow, Shape

LEMMA CopyOf ==
  ASSUME SubInv, NEW w \in Workers, NEW s \in Subs, Holds(wk[w], s)
  PROVE  CopyInv(wk[w], s, sub[s], versions)
  BY DEF SubInv, HoldInv

\* Worker w goes on as r and stores nothing.
LEMMA WorkerMoves ==
  ASSUME SubInv, NEW w \in Workers, NEW r \in WorkerRow, Shape(w, r, now),
         \A s \in Subs : Holds(r, s) => CopyInv(r, s, sub[s], versions),
         r.pc = "insert" => \A v \in Workers : v # w /\ wk[v].pc = "insert" => wk[v].s # r.s,
         \A s \in Subs : StartInv(s)',
         wk' = [wk EXCEPT ![w] = r], UNCHANGED <<versions, sub, now>>
  PROVE  HoldInv' /\ wk' \in [Workers -> WorkerRow]
  <1>1. wk \in [Workers -> WorkerRow]
    BY DEF SubInv, SubTypes
  <1>2. wk' \in [Workers -> WorkerRow]
    BY <1>1
  <1>3. wk'[w] = r /\ \A v \in Workers : v # w => wk'[v] = wk[v]
    BY <1>1
  <1>4. \A s \in Subs : RowInv(sub[s], versions)'
    BY DEF SubInv, HoldInv
  <1>5. \A v \in Workers : Shape(v, wk[v], now)'
    <2> SUFFICES ASSUME NEW v \in Workers PROVE Shape(v, wk'[v], now)
      OBVIOUS
    <2>1. Shape(v, wk[v], now)
      BY ShapeOf
    <2> QED
      BY <1>3, <2>1
  <1>6. \A v \in Workers, s \in Subs :
          Holds(wk[v], s)' => CopyInv(wk[v], s, sub[s], versions)'
    <2> SUFFICES ASSUME NEW v \in Workers, NEW s \in Subs, Holds(wk'[v], s)
                 PROVE  CopyInv(wk'[v], s, sub[s], versions)
      BY DEF Holds
    <2>1. CASE v = w
      BY <1>3, <2>1
    <2>2. CASE v # w
      BY <1>3, <2>2, CopyOf
    <2> QED
      BY <2>1, <2>2
  <1>7. OneInserts'
    <2>1. OneInserts
      BY DEF SubInv, HoldInv
    <2> QED
      BY <1>3, <2>1 DEF OneInserts
  <1> QED
    BY <1>2, <1>4, <1>5, <1>6, <1>7 DEF HoldInv

LEMMA AgedFields ==
  ASSUME SubInv, NEW v \in Workers, NEW s \in Subs
  PROVE  /\ AgedCopy(v, s) \in WorkerRow
         /\ AgedCopy(v, s).pc = wk[v].pc /\ AgedCopy(v, s).s = wk[v].s
         /\ AgedCopy(v, s).todo = wk[v].todo /\ AgedCopy(v, s).copies = wk[v].copies
         /\ AgedCopy(v, s).at = wk[v].at
         /\ wk[v].old \subseteq AgedCopy(v, s).old
         /\ AgedCopy(v, s).old \subseteq wk[v].old \cup {s}
         /\ Holds(wk[v], s) => s \in AgedCopy(v, s).old
  BY ShapeOf DEF AgedCopy, WorkerRow, Holds

\* Worker v after somebody stored row r of s, where one was before.
LEMMA AgedKnows ==
  ASSUME SubInv, NEW v \in Workers, NEW s \in Subs, NEW r \in Sub,
         sub[s].status # "none", r.status # "none", r.trialEnd = sub[s].trialEnd
  PROVE  /\ Shape(v, AgedCopy(v, s), now)
         /\ \A x \in Subs : Holds(AgedCopy(v, s), x) =>
              CopyInv(AgedCopy(v, s), x, IF x = s THEN r ELSE sub[x], versions)
  <1> DEFINE a == AgedCopy(v, s)
  <1>1. /\ a \in WorkerRow /\ a.pc = wk[v].pc /\ a.s = wk[v].s /\ a.todo = wk[v].todo
        /\ a.copies = wk[v].copies /\ a.at = wk[v].at
        /\ wk[v].old \subseteq a.old /\ a.old \subseteq wk[v].old \cup {s}
        /\ Holds(wk[v], s) => s \in a.old
    BY AgedFields
  <1> HIDE DEF a
  <1>2. Shape(v, a, now)
    BY <1>1, ShapeOf DEF Shape
  <1>3. ASSUME NEW x \in Subs, Holds(a, x)
        PROVE  CopyInv(a, x, IF x = s THEN r ELSE sub[x], versions)
    <2>1. Holds(wk[v], x)
      BY <1>1, <1>3 DEF Holds
    <2>2. CopyInv(wk[v], x, sub[x], versions)
      BY <2>1, CopyOf
    <2>3. CASE x = s
      <3>1. wk[v].pc # "insert" /\ s \in a.old
        BY <1>1, <2>1, <2>2, <2>3 DEF CopyInv
      <3> QED
        BY <1>1, <2>2, <2>3, <3>1 DEF CopyInv
    <2>4. CASE x # s
      BY <1>1, <2>2, <2>4 DEF CopyInv
    <2> QED
      BY <2>3, <2>4
  <1> QED
    BY <1>2, <1>3 DEF a

\* Row r of s is stored by worker w, who goes on as next.
LEMMA RowStored ==
  ASSUME SubInv, NEW w \in Workers, NEW s \in Subs, NEW r \in Sub, NEW next \in WorkerRow,
         sub[s].status # "none", r.status # "none", r.trialEnd = sub[s].trialEnd,
         RowInv(r, versions),
         Shape(w, next, now), next.pc # "insert",
         \A x \in Subs : Holds(next, x) =>
             CopyInv(next, x, IF x = s THEN r ELSE sub[x], versions),
         sub' = [sub EXCEPT ![s] = r],
         wk' = [v \in Workers |-> IF v = w THEN next ELSE AgedCopy(v, s)],
         UNCHANGED <<versions, now, starts>>
  PROVE  HoldInv' /\ wk' \in [Workers -> WorkerRow] /\ sub' \in [Subs -> Sub]
  <1>1. sub \in [Subs -> Sub]
    BY DEF SubInv, SubTypes
  <1>2. sub' \in [Subs -> Sub]
    BY <1>1
  <1>3. \A x \in Subs : sub'[x] = IF x = s THEN r ELSE sub[x]
    BY <1>1
  <1>4. wk' \in [Workers -> WorkerRow]
    BY AgedFields
  <1>5. \A x \in Subs : RowInv(sub[x], versions)' /\ StartInv(x)'
    <2> SUFFICES ASSUME NEW x \in Subs PROVE RowInv(sub'[x], versions) /\ StartInv(x)'
      OBVIOUS
    <2>1. RowInv(sub[x], versions) /\ StartInv(x)
      BY DEF SubInv, HoldInv
    <2> QED
      BY <1>3, <2>1 DEF StartInv
  <1>6. \A v \in Workers : Shape(v, wk[v], now)'
    BY AgedKnows
  <1>7. \A v \in Workers, x \in Subs :
          Holds(wk[v], x)' => CopyInv(wk[v], x, sub[x], versions)'
    <2> SUFFICES ASSUME NEW v \in Workers, NEW x \in Subs, Holds(wk'[v], x)
                 PROVE  CopyInv(wk'[v], x, sub'[x], versions)
      BY DEF Holds
    <2>1. CopyInv(wk'[v], x, IF x = s THEN r ELSE sub[x], versions)
      BY AgedKnows
    <2> QED
      BY <1>3, <2>1
  <1>8. OneInserts'
    <2>1. OneInserts
      BY DEF SubInv, HoldInv
    <2>2. \A v \in Workers : wk'[v].pc = "insert" => wk[v].pc = "insert" /\ wk'[v].s = wk[v].s
      BY AgedFields
    <2> QED
      BY <2>1, <2>2 DEF OneInserts
  <1> QED
    BY <1>2, <1>4, <1>5, <1>6, <1>7, <1>8 DEF HoldInv
-----------------------------------------------------------------------------
(* Counts *)

LEMMA CountsOf ==
  ASSUME SubInv, PlanInv, NEW s \in Subs
  PROVE  /\ invoices[s] \in Nat /\ notices[s] \in Nat /\ starts[s] \in Nat
         /\ stale[s] \in Nat /\ faults \in Nat /\ sub[s] \in Sub
         /\ sub[s].invoice \in Nat /\ sub[s].noticed \in BOOLEAN
         /\ sub[s].trialEnd \in Nat \cup {NoTime} /\ sub[s].started \in Nat \cup {NoTime}
         /\ InvoiceCount(s) /\ NoticeCount(s) /\ StartCount(s)
  <1>1. /\ invoices[s] \in Nat /\ notices[s] \in Nat /\ starts[s] \in Nat
        /\ stale[s] \in Nat /\ faults \in Nat /\ sub[s] \in Sub
    BY DEF SubInv, SubTypes, PlanInv
  <1>2. InvoiceCount(s) /\ NoticeCount(s) /\ StartCount(s)
    BY DEF SubInv, OnceInv
  <1> QED
    BY <1>1, <1>2 DEF Sub

LEMMA BitValue == \A b : Bit(b) \in {0, 1} /\ (b => Bit(b) = 1) /\ (~b => Bit(b) = 0)
  BY DEF Bit

\* A worker that counted for nothing and is not about to announce goes on.
LEMMA QuietMove ==
  ASSUME SubInv, PlanInv, NEW w \in Workers, NEW r \in WorkerRow,
         wk[w].pc \notin {"attach", "flag", "announce"}, r.pc # "announce",
         wk' = [wk EXCEPT ![w] = r], UNCHANGED <<sub, invoices, stale, notices, starts, faults>>
  PROVE  OnceInv'
  <1> SUFFICES ASSUME NEW s \in Subs PROVE InvoiceCount(s)' /\ NoticeCount(s)' /\ StartCount(s)'
    BY DEF OnceInv
  <1>1. wk'[w] = r /\ \A v \in Workers : v # w => wk'[v] = wk[v]
    BY DEF SubInv, SubTypes
  <1>2. Attaching(s) \subseteq Attaching(s)'
    BY <1>1 DEF Attaching, Workers
  <1>3. Flagging(s) \subseteq Flagging(s)'
    BY <1>1 DEF Flagging, Workers
  <1>4. Announcing(s)' \subseteq Announcing(s)
    BY <1>1 DEF Announcing, Workers
  <1>5. /\ Cardinality(Attaching(s)) <= Cardinality(Attaching(s)')
        /\ Cardinality(Flagging(s)) <= Cardinality(Flagging(s)')
        /\ Cardinality(Announcing(s)') <= Cardinality(Announcing(s))
    BY <1>2, <1>3, <1>4, SetsOfWorkers, MoreWorkers
  <1>6. InvoiceCount(s)'
    BY <1>5, CountsOf, SetsOfWorkers DEF InvoiceCount, Bit
  <1>7. NoticeCount(s)'
    BY <1>5, CountsOf, SetsOfWorkers DEF NoticeCount, Bit
  <1>8. StartCount(s)'
    BY <1>5, CountsOf, SetsOfWorkers DEF StartCount, Bit
  <1> QED
    BY <1>6, <1>7, <1>8

\* A worker fails and lets go of what it held.
LEMMA FaultMove ==
  ASSUME SubInv, PlanInv, NEW w \in Workers, NEW r \in WorkerRow,
         r.pc # "announce", faults' = faults + 1,
         wk' = [wk EXCEPT ![w] = r], UNCHANGED <<sub, invoices, stale, notices, starts>>
  PROVE  OnceInv'
  <1> SUFFICES ASSUME NEW s \in Subs PROVE InvoiceCount(s)' /\ NoticeCount(s)' /\ StartCount(s)'
    BY DEF OnceInv
  <1>1. wk'[w] = r /\ \A v \in Workers : v # w => wk'[v] = wk[v]
    BY DEF SubInv, SubTypes
  <1>2. Attaching(s) \ {w} \subseteq Attaching(s)'
    BY <1>1 DEF Attaching, Workers
  <1>3. Flagging(s) \ {w} \subseteq Flagging(s)'
    BY <1>1 DEF Flagging, Workers
  <1>4. Announcing(s)' \subseteq Announcing(s)
    BY <1>1 DEF Announcing, Workers
  <1>5. /\ Cardinality(Attaching(s)) <= Cardinality(Attaching(s)') + 1
        /\ Cardinality(Flagging(s)) <= Cardinality(Flagging(s)') + 1
        /\ Cardinality(Announcing(s)') <= Cardinality(Announcing(s))
    BY <1>2, <1>3, <1>4, SetsOfWorkers, MoreWorkers, LosesOne
  <1>6. InvoiceCount(s)'
    BY <1>5, CountsOf, SetsOfWorkers DEF InvoiceCount, Bit
  <1>7. NoticeCount(s)'
    BY <1>5, CountsOf, SetsOfWorkers DEF NoticeCount, Bit
  <1>8. StartCount(s)'
    BY <1>5, CountsOf, SetsOfWorkers DEF StartCount, Bit
  <1> QED
    BY <1>6, <1>7, <1>8

\* Row r of s is stored by w, who goes on as next: an out-of-date copy counts
\* as stale, any other keeps what was done; who attached or flagged stores it,
\* and who announces has stored the start.
LEMMA StoreCounts ==
  ASSUME SubInv, PlanInv, NEW w \in Workers, NEW s \in Subs, NEW r \in Sub, NEW next \in WorkerRow,
         Holds(wk[w], s), Save(w, s, r, next), \A x \in Subs : x # s => next.s # x,
         wk[w].pc \in {"attach", "cancel", "flag", "ended"}, wk[w].pc # "ended" => wk[w].s = s,
         wk[w].pc = "ended" => wk[w].s = 0,
         next.pc \notin {"attach", "flag"},
         s \notin wk[w].old =>
             /\ sub[s].invoice # 0 => r.invoice # 0
             /\ sub[s].noticed => r.noticed
             /\ sub[s].started # NoTime => r.started # NoTime,
         wk[w].pc = "attach" => r.invoice # 0,
         wk[w].pc = "flag" => r.noticed /\ (s \notin wk[w].old => ~sub[s].noticed),
         next.pc = "announce" =>
             r.started # NoTime /\ (s \notin wk[w].old => sub[s].started = NoTime),
         UNCHANGED <<invoices, notices, starts, faults>>
  PROVE  OnceInv' /\ stale' \in [Subs -> Nat]
  <1>1. /\ sub' = [sub EXCEPT ![s] = r] /\ sub'[s] = r
        /\ \A x \in Subs : x # s => sub'[x] = sub[x]
    BY DEF Save, SubInv, SubTypes
  <1>2. /\ stale' \in [Subs -> Nat]
        /\ stale'[s] = (IF s \in wk[w].old THEN stale[s] + 1 ELSE stale[s])
        /\ \A x \in Subs : x # s => stale'[x] = stale[x]
    BY DEF Save, SubInv, SubTypes
  <1>3. /\ wk'[w] = next
        /\ \A v \in Workers : v # w => wk'[v] = AgedCopy(v, s)
    BY DEF Save
  <1>4. \A v \in Workers : v # w =>
          /\ wk'[v].pc = wk[v].pc /\ wk'[v].s = wk[v].s
          /\ wk[v].old \subseteq wk'[v].old /\ wk'[v].old \subseteq wk[v].old \cup {s}
          /\ wk[v].s = s => s \in wk'[v].old
    BY <1>3, AgedFields DEF Holds
  <1>5. ASSUME NEW x \in Subs, x # s
        PROVE  InvoiceCount(x)' /\ NoticeCount(x)' /\ StartCount(x)'
    <2>1. wk[w].s # x /\ next.s # x
      BY <1>5, LifecycleAssumption
    <2>2. Attaching(x)' = Attaching(x)
      BY <1>1, <1>3, <1>4, <1>5, <2>1 DEF Attaching, Workers
    <2>3. Flagging(x)' = Flagging(x) /\ Announcing(x)' = Announcing(x)
      BY <1>1, <1>3, <1>4, <1>5, <2>1 DEF Flagging, Announcing, Workers
    <2> QED
      BY <1>1, <1>2, <1>5, <2>2, <2>3, CountsOf DEF InvoiceCount, NoticeCount, StartCount
  <1>6. InvoiceCount(s)'
    <2>1. Attaching(s) \ {w} \subseteq Attaching(s)'
      BY <1>3, <1>4 DEF Attaching, Workers
    <2>2. w \notin Attaching(s) => Attaching(s) \subseteq Attaching(s)'
      BY <2>1
    <2>3. /\ Cardinality(Attaching(s)) <= Cardinality(Attaching(s)') + 1
          /\ w \notin Attaching(s) => Cardinality(Attaching(s)) <= Cardinality(Attaching(s)')
      BY <2>1, <2>2, SetsOfWorkers, MoreWorkers, LosesOne
    <2>4. invoices'[s] = invoices[s] /\ sub'[s].invoice = r.invoice /\ faults' = faults
      BY <1>1
    <2>5. CASE w \in Attaching(s)
      <3>1. Bit(r.invoice # 0) = 1 /\ (s \in wk[w].old \/ Bit(sub[s].invoice # 0) = 0)
        BY <2>5, BitValue DEF Attaching
      <3> QED
        BY <1>2, <2>3, <2>4, <3>1, CountsOf, SetsOfWorkers, BitValue DEF InvoiceCount
    <2>6. CASE w \notin Attaching(s)
      <3>1. s \in wk[w].old \/ Bit(sub[s].invoice # 0) <= Bit(r.invoice # 0)
        BY DEF Bit
      <3> QED
        BY <1>2, <2>3, <2>4, <2>6, <3>1, CountsOf, SetsOfWorkers, BitValue DEF InvoiceCount
    <2> QED
      BY <2>5, <2>6
  <1>7. NoticeCount(s)'
    <2>1. Flagging(s) \ {w} \subseteq Flagging(s)'
      BY <1>3, <1>4 DEF Flagging, Workers
    <2>2. w \notin Flagging(s) => Flagging(s) \subseteq Flagging(s)'
      BY <2>1
    <2>3. /\ Cardinality(Flagging(s)) <= Cardinality(Flagging(s)') + 1
          /\ w \notin Flagging(s) => Cardinality(Flagging(s)) <= Cardinality(Flagging(s)')
      BY <2>1, <2>2, SetsOfWorkers, MoreWorkers, LosesOne
    <2>4. notices'[s] = notices[s] /\ sub'[s].noticed = r.noticed /\ faults' = faults
      BY <1>1
    <2>5. CASE w \in Flagging(s)
      <3>1. Bit(r.noticed) = 1 /\ (s \in wk[w].old \/ Bit(sub[s].noticed) = 0)
        BY <2>5, BitValue DEF Flagging
      <3> QED
        BY <1>2, <2>3, <2>4, <3>1, CountsOf, SetsOfWorkers, BitValue DEF NoticeCount
    <2>6. CASE w \notin Flagging(s)
      <3>1. s \in wk[w].old \/ Bit(sub[s].noticed) <= Bit(r.noticed)
        BY DEF Bit
      <3> QED
        BY <1>2, <2>3, <2>4, <2>6, <3>1, CountsOf, SetsOfWorkers, BitValue DEF NoticeCount
    <2> QED
      BY <2>5, <2>6
  <1>8. StartCount(s)'
    <2>1. Announcing(s)' \subseteq Announcing(s) \cup {w}
      BY <1>3, <1>4 DEF Announcing, Workers
    <2>2. next.pc # "announce" => Announcing(s)' \subseteq Announcing(s)
      BY <1>3, <1>4 DEF Announcing, Workers
    <2>3. /\ Cardinality(Announcing(s)') <= Cardinality(Announcing(s)) + 1
          /\ next.pc # "announce" => Cardinality(Announcing(s)') <= Cardinality(Announcing(s))
      BY <2>1, <2>2, SetsOfWorkers, MoreWorkers, GainsOne
    <2>4. starts'[s] = starts[s] /\ sub'[s].started = r.started
      BY <1>1
    <2>5. CASE next.pc = "announce"
      <3>1. Bit(r.started # NoTime) = 1
            /\ (s \in wk[w].old \/ Bit(sub[s].started # NoTime) = 0)
        BY <2>5, BitValue
      <3> QED
        BY <1>2, <2>3, <2>4, <3>1, CountsOf, SetsOfWorkers, BitValue DEF StartCount
    <2>6. CASE next.pc # "announce"
      <3>1. s \in wk[w].old \/ Bit(sub[s].started # NoTime) <= Bit(r.started # NoTime)
        BY DEF Bit
      <3> QED
        BY <1>2, <2>3, <2>4, <2>6, <3>1, CountsOf, SetsOfWorkers, BitValue DEF StartCount
    <2> QED
      BY <2>5, <2>6
  <1> QED
    BY <1>2, <1>5, <1>6, <1>7, <1>8 DEF OnceInv
-----------------------------------------------------------------------------
(* Creation of a subscription *)

LEMMA VersionRowType ==
  ASSUME NEW v \in VersionRow
  PROVE  v.index \in Nat /\ v.amount \in Nat /\ v.trial \in Nat
  <1>1. Amounts \subseteq Nat /\ Trials \subseteq Nat
    BY PlanAssumption
  <1>2. v.index \in Nat /\ v.amount \in Amounts /\ v.trial \in Trials
    BY DEF VersionRow
  <1> QED
    BY <1>1, <1>2

LEMMA TermsOf ==
  ASSUME PlanInv, NEW v \in VersionRow
  PROVE  /\ Terms(v) \in Sub /\ Terms(v).status = "attention" /\ Terms(v).version = v.index
         /\ Terms(v).amount = v.amount /\ Terms(v).trial = v.trial
         /\ Terms(v).trialEnd = NoTime /\ Terms(v).started = NoTime
         /\ Terms(v).invoice = 0 /\ Terms(v).noticed = FALSE
  <1>1. v.index \in Nat /\ v.amount \in Nat /\ v.trial \in Nat
    BY VersionRowType
  <1> QED
    BY <1>1, NoSubType DEF Terms, NoSub, Sub, SubStatus

LEMMA VersionAt ==
  ASSUME PlanInv, NEW i \in 1 .. Len(versions)
  PROVE  versions[i] \in VersionRow /\ versions[i].index = i /\ versions[i].trial \in Nat
  <1>1. versions[i] \in VersionRow /\ versions[i].index = i
    BY DEF PlanInv, VersionsFollowPlan
  <1> QED
    BY <1>1, VersionRowType

LEMMA SubscribeReadKeeps ==
  ASSUME SubInv, PlanInv, NEW w \in Callers, SubscribeRead(w), UNCHANGED <<planVars, faults>>
  PROVE  SubInv'
  <1>1. PICK s \in Subs :
          /\ sub[s].status = "none" /\ \A v \in Callers : wk[v].s # s
          /\ Becomes(w, [IdleWorker EXCEPT !.pc = "insert", !.s = s,
                           !.copies[s] = [Terms(Latest) EXCEPT !.status = "none"]])
    BY DEF SubscribeRead
  <1> DEFINE c == [Terms(Latest) EXCEPT !.status = "none"]
             r == [IdleWorker EXCEPT !.pc = "insert", !.s = s, !.copies[s] = c]
  <1>2. /\ wk[w].pc = "idle" /\ versions # <<>> /\ wk' = [wk EXCEPT ![w] = r]
        /\ UNCHANGED <<now, sub, invoices, stale, notices, starts, calls, versions, faults>>
    BY <1>1 DEF SubscribeRead, events, Becomes, planVars
  <1>3. w \in Workers
    BY DEF Workers
  <1>4. c \in Sub /\ HasTerms(c, versions)
    <2>1. Len(versions) \in 1 .. Len(versions)
      BY <1>2 DEF PlanInv
    <2>2. Latest \in VersionRow /\ Latest.index = Len(versions)
      BY <2>1, VersionAt DEF Latest
    <2>3. /\ Terms(Latest) \in Sub /\ Terms(Latest).version = Len(versions)
          /\ Terms(Latest).amount = versions[Len(versions)].amount
          /\ Terms(Latest).trial = versions[Len(versions)].trial
      BY <2>2, TermsOf DEF Latest
    <2>4. c \in Sub /\ c.version = Terms(Latest).version /\ c.amount = Terms(Latest).amount
          /\ c.trial = Terms(Latest).trial
      BY <2>3 DEF Sub, SubStatus
    <2> QED
      BY <2>1, <2>3, <2>4 DEF HasTerms
  <1> HIDE DEF c
  <1>5. /\ r.pc = "insert" /\ r.s = s /\ r.todo = {} /\ r.old = {} /\ r.at = 0
        /\ r.copies = [NoCopies EXCEPT ![s] = c]
    BY DEF IdleWorker
  <1>6. r.copies \in [Subs -> Sub] /\ r.copies[s] = c
    BY <1>4, <1>5, NoSubType
  <1>7. r \in WorkerRow
    <2> DEFINE cs == [NoCopies EXCEPT ![s] = c]
    <2>1. cs \in [Subs -> Sub]
      BY <1>5, <1>6
    <2>2. r = [IdleWorker EXCEPT !.pc = "insert", !.s = s, !.copies = cs]
      BY DEF IdleWorker
    <2> HIDE DEF cs, r
    <2>3. now \in Nat
      BY DEF SubInv, SubTypes
    <2> QED
      BY <1>3, <2>1, <2>2, <2>3, IdleShape DEF WorkerRow, CallerPcs
  <1> HIDE DEF r
  <1>8. Shape(w, r, now)
    <2>1. now \in Nat /\ w \notin TrialJobs /\ s # 0
      BY LifecycleAssumption DEF SubInv, SubTypes
    <2> QED
      BY <1>5, <1>7, <2>1 DEF Shape, CallerPcs
  <1>9. \A x \in Subs : Holds(r, x) => CopyInv(r, x, sub[x], versions)
    BY <1>1, <1>4, <1>5, <1>6 DEF Holds, CopyInv
  <1>10. \A v \in Workers : v # w /\ wk[v].pc = "insert" => wk[v].s # r.s
    <2>1. \A v \in Workers : wk[v].pc = "insert" => v \in Callers
      BY ShapeOf DEF Shape, JobPcs, Workers
    <2> QED
      BY <1>1, <1>5, <2>1
  <1>11. \A x \in Subs : StartInv(x)'
    BY <1>2 DEF SubInv, HoldInv, StartInv
  <1>12. HoldInv' /\ wk' \in [Workers -> WorkerRow]
    BY <1>2, <1>3, <1>7, <1>8, <1>9, <1>10, <1>11, WorkerMoves
  <1>13. OnceInv'
    BY <1>2, <1>3, <1>5, <1>7, QuietMove
  <1> QED
    BY <1>2, <1>12, <1>13 DEF SubInv, SubTypes

LEMMA SubscribeInsertKeeps ==
  ASSUME SubInv, PlanInv, NEW w \in Callers, SubscribeInsert(w), UNCHANGED <<planVars, faults>>
  PROVE  SubInv'
  <1> DEFINE s == wk[w].s
             v == versions[Copy(w).version]
             r == IF v.trial = 0 THEN [Terms(v) EXCEPT !.started = now]
                  ELSE [Terms(v) EXCEPT !.trialEnd = now + v.trial]
             next == [wk[w] EXCEPT !.pc = "invoice", !.copies[s] = r]
  <1>1. /\ wk[w].pc = "insert" /\ sub' = [sub EXCEPT ![s] = r] /\ wk' = [wk EXCEPT ![w] = next]
        /\ UNCHANGED <<now, invoices, stale, notices, starts, calls, versions, faults>>
    BY DEF SubscribeInsert, events, Becomes, planVars
  <1>2. w \in Workers /\ w \notin TrialJobs /\ now \in Nat
    BY LifecycleAssumption DEF Workers, SubInv, SubTypes
  <1>3. s \in Subs /\ Holds(wk[w], s) /\ wk[w].todo = {} /\ s # 0
    BY <1>1, <1>2, ShapeOf, LifecycleAssumption DEF Shape, Holds
  <1>4. sub[s].status = "none" /\ HasTerms(Copy(w), versions) /\ Copy(w) = wk[w].copies[s]
    BY <1>1, <1>2, <1>3, CopyOf DEF CopyInv, Copy
  <1>5. /\ v \in VersionRow /\ v.index = Copy(w).version /\ v.trial \in Nat
        /\ Copy(w).version \in 1 .. Len(versions)
    BY <1>4, VersionAt DEF HasTerms
  <1>6. /\ r \in Sub /\ r.status = "attention" /\ r.version = v.index /\ r.amount = v.amount
        /\ r.trial = v.trial /\ r.invoice = 0 /\ r.noticed = FALSE /\ InTime(r)
    <2>1. /\ Terms(v) \in Sub /\ Terms(v).status = "attention" /\ Terms(v).version = v.index
          /\ Terms(v).amount = v.amount /\ Terms(v).trial = v.trial
          /\ Terms(v).trialEnd = NoTime /\ Terms(v).started = NoTime
          /\ Terms(v).invoice = 0 /\ Terms(v).noticed = FALSE
      BY <1>5, TermsOf
    <2> HIDE DEF v
    <2>2. CASE v.trial = 0
      <3>1. r = [Terms(v) EXCEPT !.started = now]
        BY <2>2
      <3> HIDE DEF r
      <3> QED
        BY <1>2, <2>1, <3>1 DEF Sub, InTime
    <2>3. CASE v.trial # 0
      <3>1. r = [Terms(v) EXCEPT !.trialEnd = now + v.trial]
        BY <2>3
      <3>2. now + v.trial \in Nat
        BY <1>2, <1>5
      <3> HIDE DEF r
      <3> QED
        BY <1>2, <2>1, <3>1, <3>2 DEF Sub, InTime
    <2> QED
      BY <2>2, <2>3
  <1>7. HasTerms(r, versions)
    BY <1>5, <1>6 DEF HasTerms
  <1> HIDE DEF r, v
  <1>8. /\ next.pc = "invoice" /\ next.s = s /\ next.todo = {} /\ next.old = wk[w].old
        /\ next.at = wk[w].at /\ next.copies \in [Subs -> Sub] /\ next.copies[s] = r
        /\ next \in WorkerRow
    <2>1. wk[w] \in WorkerRow
      BY <1>2, ShapeOf
    <2> DEFINE cs == [wk[w].copies EXCEPT ![s] = r]
    <2>2. cs \in [Subs -> Sub] /\ cs[s] = r
      BY <1>2, <1>3, <1>6, ShapeOf
    <2>3. next = [wk[w] EXCEPT !.pc = "invoice", !.copies = cs]
      BY <2>1 DEF WorkerRow
    <2> HIDE DEF cs, next
    <2> QED
      BY <1>3, <2>1, <2>2, <2>3 DEF WorkerRow, CallerPcs
  <1> HIDE DEF next
  <1>9. Shape(w, next, now)
    BY <1>2, <1>3, <1>8, ShapeOf DEF Shape, CallerPcs
  <1>10. sub \in [Subs -> Sub] /\ wk \in [Workers -> WorkerRow]
    BY DEF SubInv, SubTypes
  <1>11. sub' \in [Subs -> Sub] /\ sub'[s] = r /\ \A x \in Subs : x # s => sub'[x] = sub[x]
    BY <1>1, <1>3, <1>6, <1>10
  <1>12. wk' \in [Workers -> WorkerRow] /\ wk'[w] = next
         /\ \A u \in Workers : u # w => wk'[u] = wk[u]
    BY <1>1, <1>2, <1>8, <1>10
  <1>13. \A u \in Workers : u # w => ~Holds(wk[u], s)
    <2> SUFFICES ASSUME NEW u \in Workers, u # w, Holds(wk[u], s) PROVE FALSE
      OBVIOUS
    <2>1. CopyInv(wk[u], s, sub[s], versions)
      BY <1>3, CopyOf
    <2>2. wk[u].pc = "insert"
      BY <1>4, <2>1 DEF CopyInv
    <2>3. u \in Callers /\ wk[u].todo = {}
      BY <2>2, ShapeOf DEF Shape, JobPcs, Workers
    <2>4. wk[u].s = s
      BY <2>3 DEF Holds
    <2> QED
      BY <1>1, <1>2, <2>2, <2>4 DEF SubInv, HoldInv, OneInserts
  <1>14. \A x \in Subs : RowInv(sub[x], versions)' /\ StartInv(x)'
    <2> SUFFICES ASSUME NEW x \in Subs PROVE RowInv(sub'[x], versions) /\ StartInv(x)'
      BY <1>1
    <2>1. RowInv(sub[x], versions) /\ StartInv(x)
      BY DEF SubInv, HoldInv
    <2>2. RowInv(r, versions)
      BY <1>6, <1>7 DEF RowInv
    <2>3. RowInv(sub'[x], versions)
      BY <1>11, <2>1, <2>2
    <2>4. StartInv(x)'
      BY <1>1, <1>4, <1>11, <2>1 DEF StartInv
    <2> QED
      BY <2>3, <2>4
  <1>15. \A u \in Workers : Shape(u, wk[u], now)'
    <2> SUFFICES ASSUME NEW u \in Workers PROVE Shape(u, wk'[u], now)
      BY <1>1
    <2> QED
      BY <1>9, <1>12, ShapeOf
  <1>16. \A u \in Workers, x \in Subs :
           Holds(wk[u], x)' => CopyInv(wk[u], x, sub[x], versions)'
    <2> SUFFICES ASSUME NEW u \in Workers, NEW x \in Subs, Holds(wk'[u], x)
                 PROVE  CopyInv(wk'[u], x, sub'[x], versions)
      BY <1>1 DEF Holds
    <2>1. CASE u = w
      <3>1. x = s
        BY <1>8, <1>12, <2>1 DEF Holds
      <3> QED
        BY <1>6, <1>7, <1>8, <1>11, <1>12, <2>1, <3>1 DEF CopyInv
    <2>2. CASE u # w
      BY <1>11, <1>12, <1>13, <2>2, CopyOf
    <2> QED
      BY <2>1, <2>2
  <1>17. OneInserts'
    BY <1>8, <1>12 DEF SubInv, HoldInv, OneInserts
  <1>18. OnceInv'
    <2> SUFFICES ASSUME NEW x \in Subs PROVE InvoiceCount(x)' /\ NoticeCount(x)' /\ StartCount(x)'
      BY DEF OnceInv
    <2>1. sub[x].status = "none" => sub[x] = NoSub
      BY DEF SubInv, HoldInv, RowInv
    <2>2. sub[s].invoice = 0 /\ sub[s].noticed = FALSE /\ sub[s].started = NoTime
      BY <1>3, <1>4 DEF SubInv, HoldInv, RowInv, NoSub
    <2>3. /\ sub'[x].invoice = sub[x].invoice /\ sub'[x].noticed = sub[x].noticed
          /\ sub[x].started # NoTime => sub'[x].started # NoTime
      BY <1>6, <1>11, <2>2
    <2>4. Attaching(x)' = Attaching(x)
      BY <1>1, <1>8, <1>12, <2>3 DEF Attaching, Workers
    <2>5. Flagging(x)' = Flagging(x) /\ Announcing(x)' = Announcing(x)
      BY <1>1, <1>8, <1>12 DEF Flagging, Announcing, Workers
    <2>6. InvoiceCount(x)' /\ NoticeCount(x)'
      BY <1>1, <2>3, <2>4, <2>5, CountsOf DEF InvoiceCount, NoticeCount
    <2>7. StartCount(x)'
      BY <1>1, <2>3, <2>5, CountsOf, SetsOfWorkers DEF StartCount, Bit
    <2> QED
      BY <2>6, <2>7
  <1> QED
    BY <1>1, <1>11, <1>12, <1>14, <1>15, <1>16, <1>17, <1>18 DEF SubInv, SubTypes, HoldInv

\* The invoice is created and its number put into the copy.
LEMMA FirstInvoiceKeeps ==
  ASSUME SubInv, PlanInv, NEW w \in Callers, FirstInvoice(w), UNCHANGED <<planVars, faults>>
  PROVE  SubInv'
  <1> DEFINE s == wk[w].s
             n == invoices[s] + 1
             c == wk[w].copies[s]
             d == [c EXCEPT !.invoice = n]
             r == [wk[w] EXCEPT !.pc = "attach", !.copies[s].invoice = n]
  <1>1. /\ wk[w].pc = "invoice" /\ invoices' = [invoices EXCEPT ![s] = n]
        /\ wk' = [wk EXCEPT ![w] = r]
        /\ UNCHANGED <<now, sub, stale, notices, starts, calls, versions, faults>>
    BY DEF FirstInvoice, events, Becomes, planVars
  <1>2. w \in Workers /\ w \notin TrialJobs /\ now \in Nat
    BY LifecycleAssumption DEF Workers, SubInv, SubTypes
  <1>3. s \in Subs /\ Holds(wk[w], s) /\ wk[w].todo = {} /\ s # 0
    BY <1>1, <1>2, ShapeOf, LifecycleAssumption DEF Shape, Holds
  <1>4. CopyInv(wk[w], s, sub[s], versions)
    BY <1>2, <1>3, CopyOf
  <1>5. n \in Nat /\ n # 0 /\ invoices \in [Subs -> Nat]
    BY <1>3 DEF SubInv, SubTypes
  <1>6. /\ c \in Sub /\ d \in Sub /\ d.invoice = n /\ d.status = c.status /\ d.version = c.version
        /\ d.amount = c.amount /\ d.trial = c.trial /\ d.trialEnd = c.trialEnd
        /\ d.started = c.started /\ d.noticed = c.noticed
    <2>1. c \in Sub
      BY <1>2, <1>3, ShapeOf
    <2> HIDE DEF n, c
    <2> QED
      BY <1>5, <2>1 DEF Sub
  <1> HIDE DEF n
  <1>7. /\ r \in WorkerRow /\ r.pc = "attach" /\ r.s = s /\ r.todo = {} /\ r.old = wk[w].old
        /\ r.at = wk[w].at /\ r.copies[s] = d
    <2>1. wk[w] \in WorkerRow
      BY <1>2, ShapeOf
    <2> DEFINE cs == [wk[w].copies EXCEPT ![s] = d]
    <2>2. cs \in [Subs -> Sub] /\ cs[s] = d
      BY <1>2, <1>3, <1>6, ShapeOf
    <2>3. r = [wk[w] EXCEPT !.pc = "attach", !.copies = cs]
      BY <2>1 DEF WorkerRow
    <2> HIDE DEF cs, r, d
    <2> QED
      BY <1>3, <2>1, <2>2, <2>3 DEF WorkerRow, CallerPcs
  <1> HIDE DEF r, d
  <1>8. Shape(w, r, now)
    BY <1>2, <1>3, <1>7, ShapeOf DEF Shape, CallerPcs
  <1>9. \A x \in Subs : Holds(r, x) => CopyInv(r, x, sub[x], versions)
    <2> SUFFICES ASSUME NEW x \in Subs, Holds(r, x) PROVE CopyInv(r, x, sub[x], versions)
      OBVIOUS
    <2>1. x = s
      BY <1>7 DEF Holds
    <2>2. HasTerms(d, versions) /\ InTime(d)
      BY <1>1, <1>4, <1>6 DEF CopyInv, HasTerms, InTime
    <2> QED
      BY <1>1, <1>4, <1>5, <1>6, <1>7, <2>1, <2>2 DEF CopyInv
  <1>10. \A x \in Subs : StartInv(x)'
    BY <1>1 DEF SubInv, HoldInv, StartInv
  <1>11. HoldInv' /\ wk' \in [Workers -> WorkerRow]
    BY <1>1, <1>2, <1>7, <1>8, <1>9, <1>10, WorkerMoves
  <1>12. invoices' \in [Subs -> Nat] /\ invoices'[s] = n
         /\ \A x \in Subs : x # s => invoices'[x] = invoices[x]
    BY <1>1, <1>3, <1>5
  <1>13. wk'[w] = r /\ \A v \in Workers : v # w => wk'[v] = wk[v]
    BY <1>1, <1>2 DEF SubInv, SubTypes
  <1>14. OnceInv'
    <2> SUFFICES ASSUME NEW x \in Subs PROVE InvoiceCount(x)' /\ NoticeCount(x)' /\ StartCount(x)'
      BY DEF OnceInv
    <2>1. Flagging(x)' = Flagging(x) /\ Announcing(x)' = Announcing(x)
      BY <1>1, <1>7, <1>13 DEF Flagging, Announcing, Workers
    <2>2. NoticeCount(x)' /\ StartCount(x)'
      BY <1>1, <2>1, CountsOf DEF NoticeCount, StartCount
    <2>3. CASE x # s
      <3>1. Attaching(x)' = Attaching(x)
        BY <1>1, <1>7, <1>13, <2>3 DEF Attaching, Workers
      <3> QED
        BY <1>1, <1>12, <2>2, <2>3, <3>1, CountsOf DEF InvoiceCount
    <2>4. CASE x = s
      <3>1. s \in wk[w].old \/ sub[s].invoice = 0
        BY <1>1, <1>4 DEF CopyInv
      <3>2. w \notin Attaching(x) /\ Attaching(x)' = Attaching(x) \cup {w}
        BY <1>1, <1>2, <1>7, <1>13, <2>4, <3>1 DEF Attaching, Workers
      <3>3. Cardinality(Attaching(x)') = Cardinality(Attaching(x)) + 1
        BY <3>2, ByOne, SetsOfWorkers
      <3>4. invoices'[x] = invoices[x] + 1
        BY <1>12, <2>4 DEF n
      <3> QED
        BY <1>1, <2>2, <3>3, <3>4, CountsOf, SetsOfWorkers, BitValue DEF InvoiceCount
    <2> QED
      BY <2>3, <2>4
  <1> QED
    BY <1>1, <1>11, <1>12, <1>14 DEF SubInv, SubTypes

\* What a copy that may be stored over its row says.
LEMMA HeldCopy ==
  ASSUME SubInv, NEW w \in Workers, NEW s \in Subs, Holds(wk[w], s), wk[w].pc # "insert"
  PROVE  LET c == wk[w].copies[s] IN
         /\ c \in Sub /\ c.status # "none" /\ HasTerms(c, versions) /\ InTime(c)
         /\ c.trialEnd = sub[s].trialEnd /\ sub[s].status # "none"
         /\ wk[w].pc = "attach" => c.invoice # 0
         /\ wk[w].pc \in {"ending", "flag"} => ~c.noticed
         /\ wk[w].pc = "ended" => c.started = NoTime /\ c.trialEnd <= wk[w].at
         /\ s \notin wk[w].old /\ wk[w].pc # "announce" =>
              /\ c.noticed = sub[s].noticed /\ c.started = sub[s].started
              /\ wk[w].pc # "attach" => c.invoice = sub[s].invoice
  BY CopyOf, ShapeOf DEF CopyInv

\* A row that is stored as r over s by a call that ends.
LEMMA CallStores ==
  ASSUME SubInv, PlanInv, NEW w \in Callers, wk[w].pc \in {"attach", "cancel"}, NEW r \in Sub,
         Save(w, wk[w].s, r, IdleWorker),
         r.status # "none", r.version = Copy(w).version, r.amount = Copy(w).amount,
         r.trial = Copy(w).trial, r.trialEnd = Copy(w).trialEnd, r.started = Copy(w).started,
         r.noticed = Copy(w).noticed, r.invoice = Copy(w).invoice,
         UNCHANGED <<planVars, faults, now, invoices, events, calls>>
  PROVE  SubInv'
  <1> DEFINE s == wk[w].s
  <1>1. w \in Workers /\ w \notin TrialJobs /\ now \in Nat
    BY LifecycleAssumption DEF Workers, SubInv, SubTypes
  <1>2. s \in Subs /\ Holds(wk[w], s) /\ wk[w].pc # "insert" /\ s # 0
    BY <1>1, ShapeOf, LifecycleAssumption DEF Shape, Holds
  <1>3. Copy(w) = wk[w].copies[s]
    BY DEF Copy
  <1>4. UNCHANGED <<versions, notices, starts>>
    BY DEF planVars, events
  <1>5. RowInv(r, versions)
    <2>1. HasTerms(Copy(w), versions) /\ InTime(Copy(w))
      BY <1>1, <1>2, <1>3, HeldCopy
    <2>2. HasTerms(r, versions) /\ InTime(r)
      BY <2>1 DEF HasTerms, InTime
    <2> QED
      BY <2>2 DEF RowInv
  <1>6. /\ sub[s].status # "none" /\ r.trialEnd = sub[s].trialEnd
    BY <1>1, <1>2, <1>3, HeldCopy
  <1>7. HoldInv' /\ wk' \in [Workers -> WorkerRow] /\ sub' \in [Subs -> Sub]
    BY <1>1, <1>2, <1>4, <1>5, <1>6, RowStored, IdleShape DEF Save
  <1>8. /\ s \notin wk[w].old =>
             /\ sub[s].invoice # 0 => r.invoice # 0
             /\ sub[s].noticed => r.noticed
             /\ sub[s].started # NoTime => r.started # NoTime
        /\ wk[w].pc = "attach" => r.invoice # 0
    BY <1>1, <1>2, <1>3, HeldCopy
  <1>9. OnceInv' /\ stale' \in [Subs -> Nat]
    BY <1>1, <1>2, <1>4, <1>8, StoreCounts, IdleShape, LifecycleAssumption
  <1> QED
    BY <1>4, <1>7, <1>9 DEF SubInv, SubTypes

LEMMA AttachKeeps ==
  ASSUME SubInv, PlanInv, NEW w \in Callers, AttachInvoice(w), UNCHANGED <<planVars, faults>>
  PROVE  SubInv'
  <1>1. /\ wk[w].pc = "attach" /\ Save(w, wk[w].s, Copy(w), IdleWorker)
        /\ UNCHANGED <<now, invoices, events, calls>>
    BY DEF AttachInvoice
  <1>2. w \in Workers
    BY DEF Workers
  <1>3. wk[w].s \in Subs /\ Holds(wk[w], wk[w].s)
    BY <1>1, <1>2, ShapeOf DEF Shape, Holds
  <1>4. Copy(w) \in Sub /\ Copy(w).status # "none"
    BY <1>1, <1>2, <1>3, HeldCopy DEF Copy
  <1> QED
    BY <1>1, <1>4, CallStores

LEMMA CancelKeeps ==
  ASSUME SubInv, PlanInv, NEW w \in Callers, CancelCommit(w), UNCHANGED <<planVars, faults>>
  PROVE  SubInv'
  <1> DEFINE r == [Copy(w) EXCEPT !.status = "canceled"]
  <1>1. /\ wk[w].pc = "cancel" /\ Save(w, wk[w].s, r, IdleWorker)
        /\ UNCHANGED <<now, invoices, events, calls>>
    BY DEF CancelCommit
  <1>2. w \in Workers
    BY DEF Workers
  <1>3. wk[w].s \in Subs /\ Holds(wk[w], wk[w].s)
    BY <1>1, <1>2, ShapeOf DEF Shape, Holds
  <1>4. Copy(w) \in Sub
    BY <1>1, <1>2, <1>3, HeldCopy DEF Copy
  <1>5. /\ r \in Sub /\ r.status # "none" /\ r.version = Copy(w).version
        /\ r.amount = Copy(w).amount /\ r.trial = Copy(w).trial
        /\ r.trialEnd = Copy(w).trialEnd /\ r.started = Copy(w).started
        /\ r.noticed = Copy(w).noticed /\ r.invoice = Copy(w).invoice
    BY <1>4 DEF Sub, SubStatus
  <1> HIDE DEF r
  <1> QED
    BY <1>1, <1>5, CallStores
-----------------------------------------------------------------------------
(* Other calls *)

\* What a row that exists says to who reads it now.
LEMMA RowOf ==
  ASSUME SubInv, NEW s \in Subs, sub[s].status # "none"
  PROVE  sub[s] \in Sub /\ HasTerms(sub[s], versions) /\ InTime(sub[s])
  BY DEF SubInv, SubTypes, HoldInv, RowInv

LEMMA CallReadKeeps ==
  ASSUME SubInv, PlanInv, NEW w \in Callers, CallRead(w), UNCHANGED <<planVars, faults>>
  PROVE  SubInv'
  <1>1. PICK s \in Subs, op \in {"link", "cancel"} :
          /\ sub[s].status \notin {"none", "canceled"}
          /\ Becomes(w, [IdleWorker EXCEPT
                 !.pc = IF op = "cancel" THEN "cancel"
                        ELSE IF sub[s].invoice = 0 THEN "invoice" ELSE "attach",
                 !.s = s, !.copies[s] = sub[s]])
    BY DEF CallRead
  <1> DEFINE pc == IF op = "cancel" THEN "cancel"
                   ELSE IF sub[s].invoice = 0 THEN "invoice" ELSE "attach"
             r == [IdleWorker EXCEPT !.pc = pc, !.s = s, !.copies[s] = sub[s]]
             cs == [NoCopies EXCEPT ![s] = sub[s]]
  <1>2. /\ wk[w].pc = "idle" /\ calls' = calls + 1 /\ wk' = [wk EXCEPT ![w] = r]
        /\ UNCHANGED <<now, sub, invoices, stale, notices, starts, versions, faults>>
    BY <1>1 DEF CallRead, events, Becomes, planVars
  <1>3. w \in Workers /\ w \notin TrialJobs /\ now \in Nat /\ s # 0
    BY LifecycleAssumption DEF Workers, SubInv, SubTypes
  <1>4. sub[s] \in Sub /\ HasTerms(sub[s], versions) /\ InTime(sub[s]) /\ sub[s].status # "none"
    BY <1>1, RowOf
  <1>5. cs \in [Subs -> Sub] /\ cs[s] = sub[s]
    BY <1>4, NoSubType
  <1>6. /\ pc \in {"cancel", "invoice", "attach"}
        /\ pc = "invoice" => sub[s].invoice = 0
        /\ pc = "attach" => sub[s].invoice # 0
    OBVIOUS
  <1>7. r = [IdleWorker EXCEPT !.pc = pc, !.s = s, !.copies = cs]
    BY DEF IdleWorker
  <1> HIDE DEF pc, r, cs
  <1>8. /\ r \in WorkerRow /\ r.pc = pc /\ r.s = s /\ r.todo = {} /\ r.old = {} /\ r.at = 0
        /\ r.copies = cs
    BY <1>3, <1>5, <1>6, <1>7, IdleShape DEF WorkerRow, CallerPcs
  <1>9. Shape(w, r, now)
    BY <1>3, <1>6, <1>8 DEF Shape, CallerPcs
  <1>10. \A x \in Subs : Holds(r, x) => CopyInv(r, x, sub[x], versions)
    BY <1>4, <1>5, <1>6, <1>8 DEF Holds, CopyInv
  <1>11. \A x \in Subs : StartInv(x)'
    BY <1>2 DEF SubInv, HoldInv, StartInv
  <1>12. HoldInv' /\ wk' \in [Workers -> WorkerRow]
    BY <1>2, <1>3, <1>6, <1>8, <1>9, <1>10, <1>11, WorkerMoves
  <1>13. OnceInv'
    BY <1>2, <1>3, <1>6, <1>8, QuietMove
  <1> QED
    BY <1>2, <1>12, <1>13 DEF SubInv, SubTypes

LEMMA CallFailsKeeps ==
  ASSUME SubInv, PlanInv, NEW w \in Workers, wk' = [wk EXCEPT ![w] = IdleWorker],
         faults' = faults + 1,
         UNCHANGED <<planVars, now, sub, invoices, stale, events, calls>>
  PROVE  SubInv'
  <1>1. UNCHANGED <<versions, sub, now, invoices, stale, notices, starts, calls>>
    BY DEF planVars, events
  <1>2. now \in Nat
    BY DEF SubInv, SubTypes
  <1>3. \A x \in Subs : StartInv(x)'
    BY <1>1 DEF SubInv, HoldInv, StartInv
  <1>4. HoldInv' /\ wk' \in [Workers -> WorkerRow]
    BY <1>1, <1>2, <1>3, IdleShape, WorkerMoves
  <1>5. OnceInv'
    BY <1>1, <1>2, IdleShape, FaultMove
  <1> QED
    BY <1>1, <1>4, <1>5 DEF SubInv, SubTypes

\* The webhook stores a fresh row; the copies of it are out of date from then on.
LEMMA ActivateKeeps ==
  ASSUME SubInv, PlanInv, NEW s \in Subs, Activate(s), UNCHANGED <<planVars, faults>>
  PROVE  SubInv'
  <1> DEFINE r == [sub[s] EXCEPT !.status = "active"]
  <1>1. /\ sub[s].status # "none" /\ sub' = [sub EXCEPT ![s].status = "active"]
        /\ wk' = [v \in Workers |-> AgedCopy(v, s)]
        /\ UNCHANGED <<now, invoices, stale, notices, starts, calls, versions, faults>>
    BY DEF Activate, events, planVars
  <1>2. sub' = [sub EXCEPT ![s] = r]
    BY <1>1
  <1>3. sub[s] \in Sub /\ HasTerms(sub[s], versions) /\ InTime(sub[s])
    BY <1>1, RowOf
  <1>4. /\ r \in Sub /\ r.status = "active" /\ r.version = sub[s].version
        /\ r.amount = sub[s].amount /\ r.trial = sub[s].trial
        /\ r.trialEnd = sub[s].trialEnd /\ r.started = sub[s].started
        /\ r.noticed = sub[s].noticed /\ r.invoice = sub[s].invoice
    BY <1>3 DEF Sub, SubStatus
  <1> HIDE DEF r
  <1>5. RowInv(r, versions)
    BY <1>3, <1>4 DEF RowInv, HasTerms, InTime
  <1>6. /\ sub \in [Subs -> Sub] /\ sub' \in [Subs -> Sub]
        /\ \A x \in Subs : sub'[x] = IF x = s THEN r ELSE sub[x]
    BY <1>2, <1>4 DEF SubInv, SubTypes
  <1>7. wk' \in [Workers -> WorkerRow]
    BY <1>1, AgedFields
  <1>8. \A x \in Subs : RowInv(sub[x], versions)' /\ StartInv(x)'
    <2> SUFFICES ASSUME NEW x \in Subs PROVE RowInv(sub'[x], versions) /\ StartInv(x)'
      BY <1>1
    <2>1. RowInv(sub[x], versions) /\ StartInv(x)
      BY DEF SubInv, HoldInv
    <2>2. RowInv(sub'[x], versions)
      BY <1>5, <1>6, <2>1
    <2>3. sub'[x].trialEnd = sub[x].trialEnd /\ (sub[x].status # "none" => sub'[x].status # "none")
      BY <1>4, <1>6
    <2>4. StartInv(x)'
      BY <1>1, <2>1, <2>3 DEF StartInv
    <2> QED
      BY <2>2, <2>4
  <1>9. \A v \in Workers : Shape(v, wk[v], now)'
    <2> SUFFICES ASSUME NEW v \in Workers PROVE Shape(v, wk'[v], now)
      BY <1>1
    <2> QED
      BY <1>1, <1>4, AgedKnows
  <1>10. \A v \in Workers, x \in Subs :
           Holds(wk[v], x)' => CopyInv(wk[v], x, sub[x], versions)'
    <2> SUFFICES ASSUME NEW v \in Workers, NEW x \in Subs, Holds(wk'[v], x)
                 PROVE  CopyInv(wk'[v], x, sub'[x], versions)
      BY <1>1 DEF Holds
    <2>1. wk'[v] = AgedCopy(v, s)
      BY <1>1
    <2>2. CopyInv(wk'[v], x, IF x = s THEN r ELSE sub[x], versions)
      BY <1>1, <1>4, <2>1, AgedKnows
    <2> QED
      BY <1>6, <2>2
  <1>11. OneInserts'
    <2>1. \A v \in Workers : wk'[v].pc = wk[v].pc /\ wk'[v].s = wk[v].s
      BY <1>1, AgedFields
    <2> QED
      BY <2>1 DEF SubInv, HoldInv, OneInserts
  <1>12. OnceInv'
    <2> SUFFICES ASSUME NEW x \in Subs PROVE InvoiceCount(x)' /\ NoticeCount(x)' /\ StartCount(x)'
      BY DEF OnceInv
    <2>1. \A v \in Workers : /\ wk'[v].pc = wk[v].pc /\ wk'[v].s = wk[v].s
                             /\ wk[v].old \subseteq wk'[v].old
      BY <1>1, AgedFields
    <2>2. /\ sub'[x].invoice = sub[x].invoice /\ sub'[x].noticed = sub[x].noticed
          /\ sub'[x].started = sub[x].started
      BY <1>4, <1>6
    <2>3. Attaching(x) \subseteq Attaching(x)'
      BY <2>1, <2>2 DEF Attaching, Workers
    <2>4. Flagging(x)' = Flagging(x) /\ Announcing(x)' = Announcing(x)
      BY <2>1 DEF Flagging, Announcing, Workers
    <2>5. Cardinality(Attaching(x)) <= Cardinality(Attaching(x)')
      BY <2>3, SetsOfWorkers, MoreWorkers
    <2>6. InvoiceCount(x)'
      BY <1>1, <2>2, <2>5, CountsOf, SetsOfWorkers, BitValue DEF InvoiceCount
    <2> QED
      BY <1>1, <2>2, <2>4, <2>6, CountsOf DEF NoticeCount, StartCount
  <1> QED
    BY <1>1, <1>6, <1>7, <1>8, <1>9, <1>10, <1>11, <1>12 DEF SubInv, SubTypes, HoldInv
-----------------------------------------------------------------------------
(* The trial jobs *)

\* Job w loads the rows of todo, which the filter has let through.
LEMMA LoadedKeeps ==
  ASSUME SubInv, PlanInv, NEW w \in TrialJobs, NEW pc \in {"ending", "ended"},
         NEW todo \in SUBSET Subs, Loaded(w, pc, todo), wk[w].pc = "idle",
         \A s \in todo : sub[s].status = "active",
         pc = "ending" => \A s \in todo : ~sub[s].noticed,
         pc = "ended" => \A s \in todo : sub[s].started = NoTime /\ sub[s].trialEnd <= now,
         UNCHANGED <<planVars, faults, now, sub, invoices, stale, events, calls>>
  PROVE  SubInv'
  <1> DEFINE cs == [s \in Subs |-> IF s \in todo THEN sub[s] ELSE NoSub]
             r == [pc |-> pc, s |-> 0, todo |-> todo, old |-> {}, at |-> now, copies |-> cs]
  <1>1. /\ wk' = [wk EXCEPT ![w] = r]
        /\ UNCHANGED <<now, sub, invoices, stale, notices, starts, calls, versions, faults>>
    BY DEF Loaded, events, Becomes, planVars
  <1>2. w \in Workers /\ w \notin Callers /\ now \in Nat
    BY LifecycleAssumption DEF Workers, SubInv, SubTypes
  <1>3. cs \in [Subs -> Sub] /\ \A s \in todo : cs[s] = sub[s]
    BY NoSubType DEF SubInv, SubTypes
  <1> HIDE DEF cs
  <1>4. /\ r.pc = pc /\ r.s = 0 /\ r.todo = todo /\ r.old = {} /\ r.at = now /\ r.copies = cs
        /\ r \in WorkerRow
    BY <1>2, <1>3 DEF WorkerRow, JobPcs
  <1> HIDE DEF r
  <1>5. Shape(w, r, now)
    BY <1>2, <1>4, LifecycleAssumption DEF Shape, JobPcs
  <1>6. \A x \in Subs : Holds(r, x) => CopyInv(r, x, sub[x], versions)
    <2> SUFFICES ASSUME NEW x \in Subs, Holds(r, x) PROVE CopyInv(r, x, sub[x], versions)
      OBVIOUS
    <2>1. x \in todo /\ r.copies[x] = sub[x]
      BY <1>3, <1>4, LifecycleAssumption DEF Holds
    <2>2. HasTerms(sub[x], versions) /\ InTime(sub[x]) /\ sub[x].status # "none"
      BY <2>1, RowOf
    <2> QED
      BY <1>4, <2>1, <2>2 DEF CopyInv
  <1>7. \A x \in Subs : StartInv(x)'
    BY <1>1 DEF SubInv, HoldInv, StartInv
  <1>8. HoldInv' /\ wk' \in [Workers -> WorkerRow]
    BY <1>1, <1>2, <1>4, <1>5, <1>6, <1>7, WorkerMoves
  <1>9. OnceInv'
    BY <1>1, <1>2, <1>4, QuietMove
  <1> QED
    BY <1>1, <1>8, <1>9 DEF SubInv, SubTypes

LEMMA LoadEndingKeeps ==
  ASSUME SubInv, PlanInv, NEW w \in TrialJobs, LoadEnding(w), UNCHANGED <<planVars, faults>>
  PROVE  SubInv'
  <1> DEFINE todo == {s \in Subs : Ending(s)}
  <1>1. /\ wk[w].pc = "idle" /\ Loaded(w, "ending", todo)
        /\ UNCHANGED <<now, sub, invoices, stale, events, calls>>
    BY DEF LoadEnding
  <1>2. todo \in SUBSET Subs /\ \A s \in todo : sub[s].status = "active" /\ ~sub[s].noticed
    BY DEF Ending
  <1> HIDE DEF todo
  <1> QED
    BY <1>1, <1>2, LoadedKeeps

LEMMA LoadEndedKeeps ==
  ASSUME SubInv, PlanInv, NEW w \in TrialJobs, LoadEnded(w), UNCHANGED <<planVars, faults>>
  PROVE  SubInv'
  <1> DEFINE todo == {s \in Subs : Ended(s)}
  <1>1. /\ wk[w].pc = "idle" /\ Loaded(w, "ended", todo)
        /\ UNCHANGED <<now, sub, invoices, stale, events, calls>>
    BY DEF LoadEnded
  <1>2. todo \in SUBSET Subs /\ \A s \in todo : /\ sub[s].status = "active"
                                                /\ sub[s].started = NoTime /\ sub[s].trialEnd <= now
    BY DEF Ended
  <1> HIDE DEF todo
  <1> QED
    BY <1>1, <1>2, LoadedKeeps

\* A job that has taken row s out of its loop.
LEMMA TakenFields ==
  ASSUME SubInv, NEW w \in TrialJobs, NEW s \in wk[w].todo, NEW pc \in {"flag", "announce"}
  PROVE  /\ Taken(w, s, pc) \in WorkerRow
         /\ Taken(w, s, pc).pc = pc /\ Taken(w, s, pc).s = s
         /\ Taken(w, s, pc).todo = wk[w].todo \ {s} /\ Taken(w, s, pc).old = wk[w].old
         /\ Taken(w, s, pc).at = wk[w].at /\ Taken(w, s, pc).copies = wk[w].copies
         /\ Shape(w, Taken(w, s, pc), now)
  <1>1. w \in Workers /\ w \notin Callers
    BY LifecycleAssumption DEF Workers
  <1>2. s \in Subs /\ s # 0
    BY <1>1, ShapeOf, LifecycleAssumption
  <1>3. /\ Taken(w, s, pc) \in WorkerRow
        /\ Taken(w, s, pc).pc = pc /\ Taken(w, s, pc).s = s
        /\ Taken(w, s, pc).todo = wk[w].todo \ {s} /\ Taken(w, s, pc).old = wk[w].old
        /\ Taken(w, s, pc).at = wk[w].at /\ Taken(w, s, pc).copies = wk[w].copies
    BY <1>1, <1>2, ShapeOf DEF Taken, WorkerRow, JobPcs
  <1> QED
    BY <1>1, <1>2, <1>3, ShapeOf DEF Shape, JobPcs

\* A job that is done with the row in hand.
LEMMA ReleasedFields ==
  ASSUME SubInv, NEW w \in TrialJobs, NEW pc \in {"ending", "ended"}, wk[w].pc \in {"flag", "announce"}
  PROVE  /\ Released(w, pc) \in WorkerRow /\ Shape(w, Released(w, pc), now)
         /\ Released(w, pc).pc \in {"idle", pc} /\ Released(w, pc).s = 0
         /\ Released(w, pc).todo = wk[w].todo
         /\ wk[w].todo # {} =>
              /\ Released(w, pc).pc = pc /\ Released(w, pc).at = wk[w].at
              /\ Released(w, pc).old = wk[w].old \ {wk[w].s}
              /\ \A x \in wk[w].todo : Released(w, pc).copies[x] = wk[w].copies[x]
  <1>1. w \in Workers /\ w \notin Callers /\ now \in Nat
    BY LifecycleAssumption DEF Workers, SubInv, SubTypes
  <1>2. CASE wk[w].todo = {}
    BY <1>1, <1>2, IdleShape DEF Released
  <1>3. CASE wk[w].todo # {}
    <2> DEFINE cs == [wk[w].copies EXCEPT ![wk[w].s] = NoSub]
               r == [wk[w] EXCEPT !.pc = pc, !.s = 0, !.copies = cs, !.old = @ \ {wk[w].s}]
    <2>1. wk[w] \in WorkerRow
      BY <1>1, ShapeOf
    <2>2. Released(w, pc) = r
      BY <1>3, <2>1 DEF Released, WorkerRow
    <2>3. cs \in [Subs -> Sub] /\ \A x \in wk[w].todo : cs[x] = wk[w].copies[x]
      BY <1>1, ShapeOf, NoSubType
    <2> HIDE DEF cs
    <2>4. /\ r \in WorkerRow /\ r.pc = pc /\ r.s = 0 /\ r.todo = wk[w].todo /\ r.at = wk[w].at
          /\ r.old = wk[w].old \ {wk[w].s} /\ r.copies = cs
      BY <2>1, <2>3 DEF WorkerRow, JobPcs
    <2> HIDE DEF r
    <2>5. Shape(w, r, now)
      BY <1>1, <2>4, ShapeOf, LifecycleAssumption DEF Shape, JobPcs
    <2> QED
      BY <2>2, <2>3, <2>4, <2>5
  <1> QED
    BY <1>2, <1>3

LEMMA ReleasedKnows ==
  ASSUME SubInv, NEW w \in TrialJobs, NEW pc \in {"ending", "ended"},
         wk[w].pc \in {"flag", "announce"}, (wk[w].pc = "flag") = (pc = "ending"),
         NEW x \in Subs, Holds(Released(w, pc), x)
  PROVE  x # wk[w].s /\ CopyInv(Released(w, pc), x, sub[x], versions)
  <1> DEFINE r == Released(w, pc)
  <1>1. w \in Workers
    BY DEF Workers
  <1>2. /\ r.pc \in {"idle", pc} /\ r.s = 0 /\ r.todo = wk[w].todo
        /\ wk[w].todo # {} =>
              /\ r.pc = pc /\ r.at = wk[w].at /\ r.old = wk[w].old \ {wk[w].s}
              /\ \A y \in wk[w].todo : r.copies[y] = wk[w].copies[y]
    BY ReleasedFields
  <1> HIDE DEF r
  <1>3. Holds(r, x)
    BY DEF r
  <1>4. x \in wk[w].todo /\ x # wk[w].s
    BY <1>1, <1>2, <1>3, ShapeOf, LifecycleAssumption DEF Holds
  <1>5. /\ r.pc = pc /\ r.at = wk[w].at /\ r.old = wk[w].old \ {wk[w].s}
        /\ r.copies[x] = wk[w].copies[x]
    BY <1>2, <1>4
  <1>6. CopyInv(wk[w], x, sub[x], versions)
    BY <1>1, <1>4, CopyOf DEF Holds
  <1>7. CopyInv(r, x, sub[x], versions)
    BY <1>2, <1>4, <1>5, <1>6 DEF CopyInv
  <1> QED
    BY <1>4, <1>7 DEF r

LEMMA SendNoticeKeeps ==
  ASSUME SubInv, PlanInv, NEW w \in TrialJobs, SendNotice(w), UNCHANGED <<planVars, faults>>
  PROVE  SubInv'
  <1>1. PICK s \in wk[w].todo :
          notices' = [notices EXCEPT ![s] = @ + 1] /\ Becomes(w, Taken(w, s, "flag"))
    BY DEF SendNotice
  <1> DEFINE r == Taken(w, s, "flag")
  <1>2. /\ wk[w].pc = "ending" /\ wk' = [wk EXCEPT ![w] = r]
        /\ UNCHANGED <<now, sub, invoices, stale, starts, calls, versions, faults>>
    BY <1>1 DEF SendNotice, Becomes, planVars
  <1>3. w \in Workers /\ s \in Subs /\ wk[w].s = 0
    BY <1>2, ShapeOf DEF Workers, Shape
  <1>4. /\ r \in WorkerRow /\ r.pc = "flag" /\ r.s = s /\ r.todo = wk[w].todo \ {s}
        /\ r.old = wk[w].old /\ r.at = wk[w].at /\ r.copies = wk[w].copies /\ Shape(w, r, now)
    BY TakenFields
  <1> HIDE DEF r
  <1>5. \A x \in Subs : Holds(r, x) => CopyInv(r, x, sub[x], versions)
    <2> SUFFICES ASSUME NEW x \in Subs, Holds(r, x) PROVE CopyInv(r, x, sub[x], versions)
      OBVIOUS
    <2>1. Holds(wk[w], x)
      BY <1>1, <1>4 DEF Holds
    <2>2. CopyInv(wk[w], x, sub[x], versions)
      BY <1>3, <2>1, CopyOf
    <2> QED
      BY <1>2, <1>4, <2>2 DEF CopyInv
  <1>6. \A x \in Subs : StartInv(x)'
    BY <1>2 DEF SubInv, HoldInv, StartInv
  <1>7. HoldInv' /\ wk' \in [Workers -> WorkerRow]
    BY <1>2, <1>3, <1>4, <1>5, <1>6, WorkerMoves
  <1>8. /\ notices' \in [Subs -> Nat] /\ notices'[s] = notices[s] + 1
        /\ \A x \in Subs : x # s => notices'[x] = notices[x]
    <2> DEFINE n == notices[s] + 1
    <2>1. n \in Nat /\ notices \in [Subs -> Nat]
      BY <1>3 DEF SubInv, SubTypes
    <2>2. notices' = [notices EXCEPT ![s] = n] /\ n = notices[s] + 1
      BY <1>1
    <2> HIDE DEF n
    <2> QED
      BY <1>3, <2>1, <2>2
  <1>9. wk'[w] = r /\ \A v \in Workers : v # w => wk'[v] = wk[v]
    BY <1>2, <1>3 DEF SubInv, SubTypes
  <1>10. OnceInv'
    <2> SUFFICES ASSUME NEW x \in Subs PROVE InvoiceCount(x)' /\ NoticeCount(x)' /\ StartCount(x)'
      BY DEF OnceInv
    <2>1. Attaching(x)' = Attaching(x) /\ Announcing(x)' = Announcing(x)
      BY <1>2, <1>4, <1>9 DEF Attaching, Announcing, Workers
    <2>2. InvoiceCount(x)' /\ StartCount(x)'
      BY <1>2, <2>1, CountsOf DEF InvoiceCount, StartCount
    <2>3. CASE x # s
      <3>1. Flagging(x)' = Flagging(x)
        BY <1>2, <1>4, <1>9, <2>3 DEF Flagging, Workers
      <3> QED
        BY <1>2, <1>8, <2>2, <2>3, <3>1, CountsOf DEF NoticeCount
    <2>4. CASE x = s
      <3>1. w \notin Flagging(x) /\ Flagging(x)' = Flagging(x) \cup {w}
        BY <1>2, <1>3, <1>4, <1>9, <2>4 DEF Flagging, Workers
      <3>2. Cardinality(Flagging(x)') = Cardinality(Flagging(x)) + 1
        BY <3>1, ByOne, SetsOfWorkers
      <3>3. notices'[x] = notices[x] + 1
        BY <1>8, <2>4
      <3> QED
        BY <1>2, <2>2, <3>2, <3>3, CountsOf, SetsOfWorkers, BitValue DEF NoticeCount
    <2> QED
      BY <2>3, <2>4
  <1> QED
    BY <1>2, <1>7, <1>8, <1>10 DEF SubInv, SubTypes

LEMMA StoreFlagKeeps ==
  ASSUME SubInv, PlanInv, NEW w \in TrialJobs, StoreFlag(w), UNCHANGED <<planVars, faults>>
  PROVE  SubInv'
  <1> DEFINE s == wk[w].s
             r == [Copy(w) EXCEPT !.noticed = TRUE]
             next == Released(w, "ending")
  <1>1. /\ wk[w].pc = "flag" /\ Save(w, s, r, next)
        /\ UNCHANGED <<now, invoices, notices, starts, calls, versions, faults>>
    BY DEF StoreFlag, events, planVars
  <1>2. w \in Workers /\ s \in Subs /\ Holds(wk[w], s)
    BY <1>1, ShapeOf DEF Shape, Workers, Holds
  <1>3. /\ Copy(w) \in Sub /\ Copy(w).status # "none" /\ HasTerms(Copy(w), versions)
        /\ InTime(Copy(w)) /\ Copy(w).trialEnd = sub[s].trialEnd /\ sub[s].status # "none"
        /\ ~Copy(w).noticed
        /\ s \notin wk[w].old =>
             /\ Copy(w).noticed = sub[s].noticed /\ Copy(w).started = sub[s].started
             /\ Copy(w).invoice = sub[s].invoice
    BY <1>1, <1>2, HeldCopy DEF Copy
  <1>4. /\ r \in Sub /\ r.status # "none" /\ r.version = Copy(w).version
        /\ r.amount = Copy(w).amount /\ r.trial = Copy(w).trial
        /\ r.trialEnd = Copy(w).trialEnd /\ r.started = Copy(w).started
        /\ r.noticed = TRUE /\ r.invoice = Copy(w).invoice
    BY <1>3 DEF Sub
  <1> HIDE DEF r
  <1>5. RowInv(r, versions)
    <2>1. HasTerms(r, versions) /\ InTime(r)
      BY <1>3, <1>4 DEF HasTerms, InTime
    <2> QED
      BY <1>4, <2>1 DEF RowInv
  <1>6. /\ next \in WorkerRow /\ Shape(w, next, now) /\ next.pc \in {"idle", "ending"} /\ next.s = 0
    BY <1>1, ReleasedFields
  <1>7. \A x \in Subs : Holds(next, x) => x # s /\ CopyInv(next, x, sub[x], versions)
    BY <1>1, ReleasedKnows
  <1> HIDE DEF next
  <1>8. HoldInv' /\ wk' \in [Workers -> WorkerRow] /\ sub' \in [Subs -> Sub]
    BY <1>1, <1>2, <1>3, <1>4, <1>5, <1>6, <1>7, RowStored DEF Save
  <1>9. OnceInv' /\ stale' \in [Subs -> Nat]
    <2>1. \A x \in Subs : next.s # x
      BY <1>6, LifecycleAssumption
    <2> QED
      BY <1>1, <1>2, <1>3, <1>4, <1>6, <2>1, StoreCounts
  <1> QED
    BY <1>1, <1>8, <1>9 DEF SubInv, SubTypes

LEMMA StoreStartKeeps ==
  ASSUME SubInv, PlanInv, NEW w \in TrialJobs, StoreStart(w), UNCHANGED <<planVars, faults>>
  PROVE  SubInv'
  <1>1. PICK s \in wk[w].todo :
          Save(w, s, [wk[w].copies[s] EXCEPT !.started = wk[w].at], Taken(w, s, "announce"))
    BY DEF StoreStart
  <1> DEFINE c == wk[w].copies[s]
             r == [c EXCEPT !.started = wk[w].at]
             next == Taken(w, s, "announce")
  <1>2. /\ wk[w].pc = "ended" /\ Save(w, s, r, next)
        /\ UNCHANGED <<now, invoices, notices, starts, calls, versions, faults>>
    BY <1>1 DEF StoreStart, events, planVars
  <1>3. w \in Workers /\ s \in Subs /\ Holds(wk[w], s) /\ wk[w].s = 0 /\ wk[w].at \in Nat
    BY <1>2, ShapeOf DEF Shape, Workers, Holds
  <1>4. /\ c \in Sub /\ c.status # "none" /\ HasTerms(c, versions)
        /\ c.trialEnd = sub[s].trialEnd /\ sub[s].status # "none"
        /\ c.started = NoTime /\ c.trialEnd <= wk[w].at
        /\ s \notin wk[w].old =>
             /\ c.noticed = sub[s].noticed /\ c.started = sub[s].started
             /\ c.invoice = sub[s].invoice
    BY <1>2, <1>3, HeldCopy
  <1>5. CopyInv(wk[w], s, sub[s], versions)
    BY <1>3, CopyOf
  <1>6. /\ r \in Sub /\ r.status = c.status /\ r.version = c.version
        /\ r.amount = c.amount /\ r.trial = c.trial
        /\ r.trialEnd = c.trialEnd /\ r.started = wk[w].at
        /\ r.noticed = c.noticed /\ r.invoice = c.invoice
    <2>1. c \in Sub
      BY <1>4
    <2> HIDE DEF c
    <2> QED
      BY <1>3, <2>1 DEF Sub
  <1>7. /\ next \in WorkerRow /\ next.pc = "announce" /\ next.s = s /\ next.todo = wk[w].todo \ {s}
        /\ next.old = wk[w].old /\ next.at = wk[w].at /\ next.copies = wk[w].copies
        /\ Shape(w, next, now)
    BY TakenFields
  <1> HIDE DEF r, next
  <1>8. r.started # NoTime /\ wk[w].at # NoTime
    BY <1>3, <1>6, NoSubType
  <1>9. RowInv(r, versions)
    <2>1. HasTerms(r, versions)
      BY <1>4, <1>6 DEF HasTerms
    <2>2. r.trialEnd \in Nat \cup {NoTime}
      BY <1>6 DEF Sub
    <2>3. InTime(r)
      BY <1>3, <1>4, <1>6, <2>2 DEF InTime
    <2> QED
      BY <1>4, <1>6, <2>1, <2>3 DEF RowInv
  <1>10. \A x \in Subs : Holds(next, x) =>
           CopyInv(next, x, IF x = s THEN r ELSE sub[x], versions)
    <2> SUFFICES ASSUME NEW x \in Subs, Holds(next, x)
                 PROVE  CopyInv(next, x, IF x = s THEN r ELSE sub[x], versions)
      OBVIOUS
    <2>1. CASE x = s
      BY <1>2, <1>4, <1>5, <1>6, <1>7, <2>1 DEF CopyInv
    <2>2. CASE x # s
      <3>1. Holds(wk[w], x)
        BY <1>7, <2>2 DEF Holds
      <3>2. CopyInv(wk[w], x, sub[x], versions)
        BY <1>3, <3>1, CopyOf
      <3> QED
        BY <1>2, <1>7, <2>2, <3>2 DEF CopyInv
    <2> QED
      BY <2>1, <2>2
  <1>11. HoldInv' /\ wk' \in [Workers -> WorkerRow] /\ sub' \in [Subs -> Sub]
    BY <1>2, <1>3, <1>4, <1>6, <1>7, <1>9, <1>10, RowStored DEF Save
  <1>12. OnceInv' /\ stale' \in [Subs -> Nat]
    BY <1>2, <1>3, <1>4, <1>6, <1>7, <1>8, StoreCounts
  <1> QED
    BY <1>2, <1>11, <1>12 DEF SubInv, SubTypes

LEMMA AnnounceKeeps ==
  ASSUME SubInv, PlanInv, NEW w \in TrialJobs, AnnounceStart(w), UNCHANGED <<planVars, faults>>
  PROVE  SubInv'
  <1>1. PICK s : s = wk[w].s
    OBVIOUS
  <1> DEFINE r == Released(w, "ended")
  <1>2. /\ wk[w].pc = "announce" /\ wk' = [wk EXCEPT ![w] = r]
        /\ starts' = [starts EXCEPT ![s] = @ + 1]
        /\ UNCHANGED <<now, sub, invoices, stale, notices, calls, versions, faults>>
    BY <1>1 DEF AnnounceStart, Becomes, planVars
  <1>3. w \in Workers /\ s \in Subs /\ Holds(wk[w], s) /\ now \in Nat /\ wk[w].at <= now
        /\ wk[w].at \in Nat
    BY <1>1, <1>2, ShapeOf DEF Shape, Workers, Holds
  <1>4. r \in WorkerRow /\ Shape(w, r, now) /\ r.pc \in {"idle", "ended"} /\ r.s = 0
    BY <1>2, ReleasedFields
  <1>5. \A x \in Subs : Holds(r, x) => CopyInv(r, x, sub[x], versions)
    BY <1>2, ReleasedKnows
  <1> HIDE DEF r
  <1>6. starts' \in [Subs -> Nat] /\ starts'[s] = starts[s] + 1
        /\ \A x \in Subs : x # s => starts'[x] = starts[x]
    <2> DEFINE n == starts[s] + 1
    <2>1. n \in Nat /\ starts \in [Subs -> Nat]
      BY <1>3 DEF SubInv, SubTypes
    <2>2. starts' = [starts EXCEPT ![s] = n] /\ n = starts[s] + 1
      BY <1>2
    <2> HIDE DEF n
    <2> QED
      BY <1>3, <2>1, <2>2
  <1>7. \A x \in Subs : StartInv(x)'
    <2>1. CopyInv(wk[w], s, sub[s], versions) /\ sub[s].trialEnd \in Nat \cup {NoTime}
      BY <1>3, CopyOf, CountsOf
    <2>2. sub[s].status # "none" /\ sub[s].trialEnd <= wk[w].at
      BY <1>1, <1>2, <2>1 DEF CopyInv
    <2>3. sub[s].trialEnd <= now
      BY <1>3, <2>1, <2>2, NoSubType
    <2> QED
      BY <1>2, <1>6, <2>2, <2>3 DEF SubInv, HoldInv, StartInv
  <1>8. HoldInv' /\ wk' \in [Workers -> WorkerRow]
    BY <1>2, <1>3, <1>4, <1>5, <1>7, WorkerMoves
  <1>9. wk'[w] = r /\ \A v \in Workers : v # w => wk'[v] = wk[v]
    BY <1>2, <1>3 DEF SubInv, SubTypes
  <1>10. OnceInv'
    <2> SUFFICES ASSUME NEW x \in Subs PROVE InvoiceCount(x)' /\ NoticeCount(x)' /\ StartCount(x)'
      BY DEF OnceInv
    <2>1. Attaching(x)' = Attaching(x) /\ Flagging(x)' = Flagging(x)
      BY <1>2, <1>4, <1>9 DEF Attaching, Flagging, Workers
    <2>2. InvoiceCount(x)' /\ NoticeCount(x)'
      BY <1>2, <2>1, CountsOf DEF InvoiceCount, NoticeCount
    <2>3. CASE x # s
      <3>1. Announcing(x)' = Announcing(x)
        BY <1>1, <1>4, <1>9, <2>3 DEF Announcing, Workers
      <3> QED
        BY <1>2, <1>6, <2>2, <2>3, <3>1, CountsOf DEF StartCount
    <2>4. CASE x = s
      <3>1. w \notin Announcing(x)' /\ Announcing(x) = Announcing(x)' \cup {w}
        BY <1>1, <1>2, <1>3, <1>4, <1>9, <2>4 DEF Announcing, Workers
      <3>2. Cardinality(Announcing(x)) = Cardinality(Announcing(x)') + 1
        BY <3>1, ByOne, SetsOfWorkers
      <3>3. starts'[x] = starts[x] + 1
        BY <1>6, <2>4
      <3> QED
        BY <1>2, <2>2, <3>2, <3>3, CountsOf, SetsOfWorkers, BitValue DEF StartCount
    <2> QED
      BY <2>3, <2>4
  <1> QED
    BY <1>2, <1>6, <1>8, <1>10 DEF SubInv, SubTypes

\* A job that goes on without the row it could not store.
LEMMA SkippedFields ==
  ASSUME SubInv, NEW w \in TrialJobs, wk[w].pc = "ended", NEW s \in wk[w].todo
  PROVE  /\ Skipped(w, s) \in WorkerRow /\ Shape(w, Skipped(w, s), now)
         /\ Skipped(w, s).pc \in {"idle", "ended"}
         /\ \A x \in Subs : Holds(Skipped(w, s), x) =>
               CopyInv(Skipped(w, s), x, sub[x], versions)
  <1>1. w \in Workers /\ w \notin Callers /\ now \in Nat /\ s \in Subs
    BY ShapeOf, LifecycleAssumption DEF Workers, SubInv, SubTypes, WorkerRow
  <1>2. CASE wk[w].todo = {s}
    BY <1>1, <1>2, IdleShape DEF Skipped
  <1>3. CASE wk[w].todo # {s}
    <2> DEFINE cs == [wk[w].copies EXCEPT ![s] = NoSub]
               r == [wk[w] EXCEPT !.todo = @ \ {s}, !.copies = cs, !.old = @ \ {s}]
    <2>1. wk[w] \in WorkerRow
      BY <1>1, ShapeOf
    <2>2. Skipped(w, s) = r
      BY <1>3, <2>1 DEF Skipped, WorkerRow
    <2>3. cs \in [Subs -> Sub] /\ \A x \in Subs : x # s => cs[x] = wk[w].copies[x]
      BY <1>1, ShapeOf, NoSubType
    <2> HIDE DEF cs
    <2>4. /\ r \in WorkerRow /\ r.pc = "ended" /\ r.s = wk[w].s /\ r.todo = wk[w].todo \ {s}
          /\ r.at = wk[w].at /\ r.old = wk[w].old \ {s} /\ r.copies = cs
      BY <2>1, <2>3 DEF WorkerRow
    <2> HIDE DEF r
    <2>5. r.todo # {} /\ r.todo \subseteq wk[w].todo
      BY <1>3, <2>4
    <2>6. Shape(w, r, now)
      BY <1>1, <2>4, <2>5, ShapeOf, LifecycleAssumption DEF Shape, JobPcs
    <2>7. ASSUME NEW x \in Subs, Holds(r, x)
          PROVE  CopyInv(r, x, sub[x], versions)
      <3>1. x \in wk[w].todo /\ x # s
        BY <1>1, <2>4, <2>7, ShapeOf, LifecycleAssumption DEF Holds, Shape
      <3>2. CopyInv(wk[w], x, sub[x], versions)
        BY <1>1, <3>1, CopyOf DEF Holds
      <3> QED
        BY <2>3, <2>4, <3>1, <3>2 DEF CopyInv
    <2> QED
      BY <2>2, <2>4, <2>6, <2>7
  <1> QED
    BY <1>2, <1>3

LEMMA JobFailsKeeps ==
  ASSUME SubInv, PlanInv, NEW w \in TrialJobs, JobFails(w), UNCHANGED planVars
  PROVE  SubInv'
  <1>1. w \in Workers
    BY DEF Workers
  <1>2. /\ faults' = faults + 1
        /\ UNCHANGED <<now, sub, invoices, stale, notices, starts, calls, versions>>
    BY DEF JobFails, Fault, events, planVars
  <1>3. CASE wk' = [wk EXCEPT ![w] = IdleWorker]
    BY <1>1, <1>2, <1>3, CallFailsKeeps DEF JobFails
  <1>4. ASSUME NEW r \in WorkerRow, Shape(w, r, now), r.pc \in {"idle", "ending", "ended"},
               \A x \in Subs : Holds(r, x) => CopyInv(r, x, sub[x], versions),
               wk' = [wk EXCEPT ![w] = r]
        PROVE  SubInv'
    <2>1. \A x \in Subs : StartInv(x)'
      BY <1>2 DEF SubInv, HoldInv, StartInv
    <2>2. HoldInv' /\ wk' \in [Workers -> WorkerRow]
      BY <1>1, <1>2, <1>4, <2>1, WorkerMoves
    <2>3. OnceInv'
      BY <1>1, <1>2, <1>4, FaultMove
    <2> QED
      BY <1>2, <2>2, <2>3 DEF SubInv, SubTypes
  <1>5. CASE wk[w].pc = "flag" /\ wk' = [wk EXCEPT ![w] = Released(w, "ending")]
    <2> DEFINE r == Released(w, "ending")
    <2>1. r \in WorkerRow /\ Shape(w, r, now) /\ r.pc \in {"idle", "ending"}
      BY <1>5, ReleasedFields
    <2>2. \A x \in Subs : Holds(r, x) => CopyInv(r, x, sub[x], versions)
      BY <1>5, ReleasedKnows
    <2>3. wk' = [wk EXCEPT ![w] = r]
      BY <1>5
    <2> HIDE DEF r
    <2> QED
      BY <1>4, <2>1, <2>2, <2>3
  <1>6. ASSUME wk[w].pc = "ended", NEW s \in wk[w].todo, wk' = [wk EXCEPT ![w] = Skipped(w, s)]
        PROVE  SubInv'
    <2> DEFINE r == Skipped(w, s)
    <2>1. /\ r \in WorkerRow /\ Shape(w, r, now) /\ r.pc \in {"idle", "ended"}
          /\ \A x \in Subs : Holds(r, x) => CopyInv(r, x, sub[x], versions)
      BY <1>6, SkippedFields
    <2>2. wk' = [wk EXCEPT ![w] = r]
      BY <1>6
    <2> HIDE DEF r
    <2> QED
      BY <1>4, <2>1, <2>2
  <1> QED
    BY <1>3, <1>5, <1>6 DEF JobFails, Becomes
-----------------------------------------------------------------------------
(* Steps of the subscriptions together *)

LEMMA SubInitially == PlanInit /\ SubInit => SubInv
  <1> SUFFICES ASSUME PlanInit, SubInit PROVE SubInv
    OBVIOUS
  <1>1. now = 0 /\ calls = 0 /\ faults = 0
        /\ \A s \in Subs : /\ sub[s] = NoSub /\ invoices[s] = 0 /\ stale[s] = 0
                           /\ notices[s] = 0 /\ starts[s] = 0
    BY DEF SubInit, PlanInit
  <1>2. \A w \in Workers : /\ wk[w] = IdleWorker /\ IdleWorker \in WorkerRow
                           /\ Shape(w, IdleWorker, now) /\ IdleWorker.pc = "idle"
                           /\ \A s \in Subs : ~Holds(IdleWorker, s)
    BY <1>1, IdleShape DEF SubInit
  <1>3. SubTypes
    BY <1>1, <1>2, NoSubType DEF SubInit, SubTypes
  <1>4. HoldInv
    <2>1. \A s \in Subs : RowInv(sub[s], versions) /\ StartInv(s)
      <3>1. NoSub.status = "none" /\ NoSub.trialEnd = NoTime
        BY DEF NoSub
      <3>2. RowInv(NoSub, versions)
        BY <3>1 DEF RowInv, InTime
      <3>3. \A s \in Subs : StartInv(s)
        BY <1>1 DEF StartInv
      <3> QED
        BY <1>1, <3>2, <3>3
    <2>2. OneInserts
      BY <1>2 DEF OneInserts
    <2> QED
      BY <1>2, <2>1, <2>2 DEF HoldInv
  <1>5. OnceInv
    <2> SUFFICES ASSUME NEW s \in Subs PROVE InvoiceCount(s) /\ NoticeCount(s) /\ StartCount(s)
      BY DEF OnceInv
    <2>1. Announcing(s) = {}
      BY <1>2 DEF Announcing
    <2>2. Cardinality(Announcing(s)) = 0
      BY <2>1, FS_EmptySet
    <2>3. InvoiceCount(s) /\ NoticeCount(s)
      BY <1>1, SetsOfWorkers, BitValue DEF InvoiceCount, NoticeCount
    <2>4. StartCount(s)
      BY <1>1, <2>2, BitValue DEF StartCount
    <2> QED
      BY <2>3, <2>4
  <1> QED
    BY <1>3, <1>4, <1>5 DEF SubInv

LEMMA SubscribingKeeps ==
  ASSUME SubInv, PlanInv, NEW w \in Callers, Subscribing(w), UNCHANGED <<planVars, faults>>
  PROVE  SubInv'
  BY SubscribeReadKeeps, SubscribeInsertKeeps, FirstInvoiceKeeps, AttachKeeps DEF Subscribing

LEMMA JobKeeps ==
  ASSUME SubInv, PlanInv, NEW w \in TrialJobs, Job(w), UNCHANGED <<planVars, faults>>
  PROVE  SubInv'
  BY LoadEndingKeeps, SendNoticeKeeps, StoreFlagKeeps, LoadEndedKeeps, StoreStartKeeps,
     AnnounceKeeps DEF Job

\* Time and calls of other components.
LEMMA TickKeeps ==
  ASSUME SubInv, PlanInv, Tick, UNCHANGED <<planVars, faults>>
  PROVE  SubInv'
  <1>1. /\ now' = now + 1 /\ calls' = calls /\ faults' = faults
        /\ UNCHANGED <<sub, invoices, wk, stale, notices, starts>>
    BY DEF Tick, events
  <1>2. now \in Nat /\ calls \in Nat /\ faults \in Nat
    BY DEF SubInv, SubTypes, PlanInv
  <1>3. now' \in Nat /\ now <= now' /\ calls' \in Nat /\ faults' \in Nat /\ faults <= faults'
    BY <1>1, <1>2
  <1>4. PlanInv' /\ Grows
    BY <1>3, PlanStays
  <1> QED
    BY <1>1, <1>3, <1>4, SubStays

LEMMA SubStepKeeps ==
  ASSUME SubInv, PlanInv, SubStep, UNCHANGED <<planVars, faults>>
  PROVE  SubInv'
  BY TickKeeps, SubscribingKeeps, CallReadKeeps, CancelKeeps, ActivateKeeps, JobKeeps DEF SubStep

LEMMA SubFaultKeeps ==
  ASSUME SubInv, PlanInv, SubFault, UNCHANGED planVars
  PROVE  SubInv'
  <1>1. ASSUME NEW w \in Callers, CallFails(w) PROVE SubInv'
    <2>1. w \in Workers
      BY DEF Workers
    <2> QED
      BY <1>1, <2>1, CallFailsKeeps DEF CallFails, Fault, Becomes
  <1> QED
    BY <1>1, JobFailsKeeps DEF SubFault
-----------------------------------------------------------------------------
(* Cards *)

CardRow == [pc : {"idle", "check", "notify", "flag", "remind", "disable"}, copy : Source,
            old : BOOLEAN]

LEMMA IdleCardType ==
  /\ 1 \in Cards /\ Cards \subseteq Nat
  /\ IdleCard \in CardRow /\ IdleCard.pc = "idle"
  <1>1. 1 \in Cards /\ Cards \subseteq Nat
    BY CardAssumption DEF Cards
  <1> QED
    BY <1>1 DEF IdleCard, CardRow, Source, SourceStatus

LEMMA CardSets ==
  ASSUME NEW c \in Cards
  PROVE  /\ CardFlagging(c) \in SUBSET Workers /\ CardFlagging(c)' \in SUBSET Workers
         /\ Cardinality(CardFlagging(c)) \in Nat /\ Cardinality(CardFlagging(c)') \in Nat
  <1>1. CardFlagging(c) \in SUBSET Workers /\ CardFlagging(c)' \in SUBSET Workers
    BY DEF CardFlagging, Workers
  <1> QED
    BY <1>1, SomeWorkers

LEMMA CardsOf ==
  ASSUME CardInv
  PROVE  /\ source \in Source /\ source.card \in Cards /\ source.status \in SourceStatus
         /\ source.noticed \in BOOLEAN /\ source.card <= newest
         /\ newest \in Cards /\ newest \in Nat /\ cardStale \in Nat /\ disabled \in BOOLEAN
         /\ ck \in [Workers -> CardRow] /\ cardNotices \in [Cards -> Nat]
         /\ \A w \in Workers : CardCopyInv(w) /\ ck[w] \in CardRow /\ ck[w].copy \in Source
                               /\ ck[w].copy.card \in Cards /\ ck[w].copy.noticed \in BOOLEAN
                               /\ ck[w].copy.status \in SourceStatus
         /\ \A c \in Cards : CardCount(c) /\ c \in Nat
         /\ \A c \in Cards : c > newest => cardNotices[c] = 0
  <1>1. /\ source \in Source /\ newest \in Cards /\ cardStale \in Nat /\ disabled \in BOOLEAN
        /\ ck \in [Workers -> CardRow] /\ cardNotices \in [Cards -> Nat]
    BY DEF CardInv, CardTypeOK, CardRow
  <1>2. \A w \in Workers : ck[w] \in CardRow
    BY <1>1
  <1>3. \A w \in Workers : ck[w].copy \in Source
    BY <1>2 DEF CardRow
  <1> QED
    BY <1>1, <1>2, <1>3, IdleCardType DEF CardInv, Source

LEMMA CardInitially == PlanInit /\ CardInit => CardInv
  <1> SUFFICES ASSUME PlanInit, CardInit PROVE CardInv
    OBVIOUS
  <1>1. source \in Source /\ source.card = 1 /\ source.status = "active"
    BY IdleCardType DEF CardInit, Source, SourceStatus
  <1>2. CardTypeOK
    BY <1>1, IdleCardType DEF CardInit, CardTypeOK, CardRow
  <1>3. \A w \in Workers : CardCopyInv(w)
    BY IdleCardType DEF CardInit, CardCopyInv
  <1>4. \A c \in Cards : CardCount(c) /\ cardNotices[c] = 0
    <2> SUFFICES ASSUME NEW c \in Cards PROVE CardCount(c) /\ cardNotices[c] = 0
      OBVIOUS
    <2>1. cardNotices[c] = 0 /\ cardStale = 0 /\ faults = 0
      BY DEF CardInit, PlanInit
    <2> QED
      BY <2>1, CardSets, BitValue DEF CardCount
  <1>5. newest = 1 /\ source.card = newest /\ source.card <= newest
    BY <1>1 DEF CardInit
  <1>6. (source.status = "inactive") = disabled
    BY <1>1 DEF CardInit
  <1> QED
    BY <1>2, <1>3, <1>4, <1>5, <1>6 DEF CardInv

\* Faults elsewhere leave cards as they are.
LEMMA CardStays ==
  ASSUME CardInv, faults \in Nat, faults' \in Nat, faults <= faults', UNCHANGED cardVars
  PROVE  CardInv'
  <1>1. UNCHANGED <<source, ck, newest, disabled, cardStale, cardNotices, reminded>>
    BY DEF cardVars
  <1>2. CardTypeOK'
    BY <1>1 DEF CardInv, CardTypeOK
  <1>3. \A w \in Workers : CardCopyInv(w)'
    BY <1>1, CardsOf DEF CardCopyInv
  <1>4. \A c \in Cards : CardCount(c)'
    <2> SUFFICES ASSUME NEW c \in Cards PROVE CardCount(c)'
      OBVIOUS
    <2>1. CardFlagging(c)' = CardFlagging(c)
      BY <1>1 DEF CardFlagging
    <2>2. cardNotices[c] \in Nat
      BY CardsOf
    <2> QED
      BY <1>1, <2>1, <2>2, CardsOf, CardSets, BitValue DEF CardCount
  <1> QED
    BY <1>1, <1>2, <1>3, <1>4, CardsOf DEF CardInv

\* Worker w goes on as r, or is gone, and the row stays.
LEMMA CardMoves ==
  ASSUME CardInv, NEW w \in Workers, NEW r \in CardRow, ck' = [ck EXCEPT ![w] = r],
         w \in TrialJobs => r.pc \in {"idle", "check", "notify", "flag"},
         w \in Callers => r.pc \notin {"check", "notify"},
         r.pc # "idle" =>
             /\ r.copy.card <= newest
             /\ ~r.old => r.copy = source
             /\ w \in TrialJobs => ~r.copy.noticed,
         cardNotices' \in [Cards -> Nat], reminded' \subseteq Cards,
         \A c \in Cards : c > newest => cardNotices'[c] = 0,
         \A c \in Cards : CardCount(c)',
         UNCHANGED <<source, newest, disabled, cardStale>>
  PROVE  CardInv'
  <1>1. ck' \in [Workers -> CardRow] /\ ck'[w] = r /\ \A v \in Workers : v # w => ck'[v] = ck[v]
    BY CardsOf
  <1>2. CardTypeOK'
    BY <1>1, CardsOf DEF CardTypeOK, CardRow
  <1>3. \A v \in Workers : CardCopyInv(v)'
    BY <1>1, CardsOf DEF CardCopyInv
  <1> QED
    BY <1>2, <1>3, CardsOf DEF CardInv

\* A worker that reads the row.
LEMMA ReadSourceKeeps ==
  ASSUME CardInv, faults \in Nat, NEW w \in Workers, NEW pc \in {"check", "remind", "disable"},
         ck[w].pc = "idle", ReadSource(w, pc),
         w \in TrialJobs => pc = "check" /\ ~source.noticed,
         w \in Callers => pc # "check",
         UNCHANGED <<source, newest, disabled, cardStale, cardNotices, reminded, faults>>
  PROVE  CardInv'
  <1> DEFINE r == [pc |-> pc, copy |-> source, old |-> FALSE]
  <1>1. ck' = [ck EXCEPT ![w] = r]
    BY DEF ReadSource
  <1>2. r \in CardRow /\ r.pc = pc /\ r.copy = source /\ r.old = FALSE
    BY CardsOf DEF CardRow
  <1> HIDE DEF r
  <1>3. ck'[w] = r /\ \A v \in Workers : v # w => ck'[v] = ck[v]
    BY <1>1, CardsOf
  <1>4. \A c \in Cards : CardCount(c)'
    <2> SUFFICES ASSUME NEW c \in Cards PROVE CardCount(c)'
      OBVIOUS
    <2>1. CardFlagging(c)' = CardFlagging(c)
      BY <1>2, <1>3 DEF CardFlagging, Workers
    <2> QED
      BY <2>1, CardsOf DEF CardCount
  <1> QED
    BY <1>1, <1>2, <1>4, CardsOf, CardMoves DEF CardInv, CardTypeOK

\* The step of a worker to "flag" with the copy it has.
LEMMA FlagRow ==
  ASSUME CardInv, NEW w \in Workers, CardGoto(w, "flag"), ck[w].pc # "idle"
  PROVE  \E r \in CardRow : /\ ck' = [ck EXCEPT ![w] = r]
                            /\ r.pc = "flag" /\ r.copy = ck[w].copy /\ r.old = ck[w].old
  <1> DEFINE r == [ck[w] EXCEPT !.pc = "flag"]
  <1>1. ck' = [ck EXCEPT ![w] = r]
    BY CardsOf DEF CardGoto
  <1>2. r \in CardRow /\ r.pc = "flag" /\ r.copy = ck[w].copy /\ r.old = ck[w].old
    BY CardsOf DEF CardRow
  <1> QED
    BY <1>1, <1>2

LEMMA CheckKeeps ==
  ASSUME CardInv, faults \in Nat, NEW w \in TrialJobs, CheckExpiring(w), UNCHANGED faults
  PROVE  CardInv'
  <1>1. w \in Workers /\ w \notin Callers
    BY LifecycleAssumption DEF Workers
  <1>2. /\ ck[w].pc = "check"
        /\ UNCHANGED <<source, newest, disabled, cardStale, cardNotices, reminded>>
    BY DEF CheckExpiring
  <1>3. PICK r \in CardRow :
          /\ ck' = [ck EXCEPT ![w] = r] /\ r.pc \in {"idle", "notify"}
          /\ r.pc = "notify" => r.copy = ck[w].copy /\ r.old = ck[w].old
    <2>1. CASE CardGoto(w, "notify")
      <3> DEFINE r == [ck[w] EXCEPT !.pc = "notify"]
      <3>1. ck' = [ck EXCEPT ![w] = r]
        BY <1>1, <2>1, CardsOf DEF CardGoto
      <3>2. r \in CardRow /\ r.pc = "notify" /\ r.copy = ck[w].copy /\ r.old = ck[w].old
        BY <1>1, CardsOf DEF CardRow
      <3> QED
        BY <3>1, <3>2
    <2>2. CASE ck' = [ck EXCEPT ![w] = IdleCard]
      BY <2>2, IdleCardType
    <2> QED
      BY <2>1, <2>2 DEF CheckExpiring
  <1>4. ck'[w] = r /\ \A v \in Workers : v # w => ck'[v] = ck[v]
    BY <1>1, <1>3, CardsOf
  <1>5. \A c \in Cards : CardCount(c)'
    <2> SUFFICES ASSUME NEW c \in Cards PROVE CardCount(c)'
      OBVIOUS
    <2>1. CardFlagging(c)' = CardFlagging(c)
      BY <1>2, <1>3, <1>4 DEF CardFlagging, Workers
    <2> QED
      BY <1>2, <2>1, CardsOf DEF CardCount
  <1>6. r.pc # "idle" => /\ r.copy.card <= newest
                         /\ ~r.old => r.copy = source
                         /\ ~r.copy.noticed
    BY <1>1, <1>2, <1>3, CardsOf DEF CardCopyInv
  <1> QED
    BY <1>1, <1>2, <1>3, <1>5, <1>6, CardsOf, CardMoves DEF CardInv, CardTypeOK

LEMMA NotifyKeeps ==
  ASSUME CardInv, faults \in Nat, NEW w \in TrialJobs, NotifyExpiring(w), UNCHANGED faults
  PROVE  CardInv'
  <1>0. w \in Workers /\ w \notin Callers
    BY LifecycleAssumption DEF Workers
  <1>1. PICK n \in {0, 1} : cardNotices' = [cardNotices EXCEPT ![ck[w].copy.card] = @ + n]
    BY DEF NotifyExpiring
  <1>2. /\ ck[w].pc = "notify" /\ CardGoto(w, "flag")
        /\ UNCHANGED <<source, newest, disabled, cardStale, reminded>>
    BY DEF NotifyExpiring
  <1>3. PICK r \in CardRow : /\ ck' = [ck EXCEPT ![w] = r]
                             /\ r.pc = "flag" /\ r.copy = ck[w].copy /\ r.old = ck[w].old
    BY <1>0, <1>2, FlagRow
  <1>4. ck'[w] = r /\ \A v \in Workers : v # w => ck'[v] = ck[v]
    BY <1>0, <1>3, CardsOf
  <1>5. PICK d : d = ck[w].copy.card
    OBVIOUS
  <1>6. d \in Cards /\ d <= newest /\ ~ck[w].copy.noticed /\ (~ck[w].old => ck[w].copy = source)
    BY <1>0, <1>2, <1>5, CardsOf DEF CardCopyInv
  <1>7. /\ cardNotices' \in [Cards -> Nat] /\ cardNotices'[d] = cardNotices[d] + n
        /\ \A c \in Cards : c # d => cardNotices'[c] = cardNotices[c]
    <2> DEFINE m == cardNotices[d] + n
    <2>1. m \in Nat /\ cardNotices \in [Cards -> Nat]
      BY <1>6, CardsOf
    <2>2. cardNotices' = [cardNotices EXCEPT ![d] = m] /\ m = cardNotices[d] + n
      BY <1>1, <1>5
    <2> HIDE DEF m
    <2> QED
      BY <1>6, <2>1, <2>2
  <1>8. \A c \in Cards : c > newest => cardNotices'[c] = 0
    BY <1>6, <1>7, CardsOf
  <1>9. \A c \in Cards : CardCount(c)'
    <2> SUFFICES ASSUME NEW c \in Cards PROVE CardCount(c)'
      OBVIOUS
    <2>1. CASE c # d
      <3>1. CardFlagging(c)' = CardFlagging(c)
        BY <1>2, <1>3, <1>4, <1>5, <2>1 DEF CardFlagging, Workers
      <3> QED
        BY <1>2, <1>7, <2>1, <3>1, CardsOf DEF CardCount
    <2>2. CASE c = d
      <3>1. w \notin CardFlagging(c) /\ CardFlagging(c)' = CardFlagging(c) \cup {w}
        BY <1>2, <1>3, <1>4, <1>5, <2>2 DEF CardFlagging, Workers
      <3>2. Cardinality(CardFlagging(c)') = Cardinality(CardFlagging(c)) + 1
        BY <3>1, CardSets, ByOne
      <3>3. cardNotices'[c] <= cardNotices[c] + 1 /\ cardNotices[c] \in Nat /\ cardNotices'[c] \in Nat
        BY <1>7, <2>2, CardsOf
      <3> QED
        BY <1>2, <3>2, <3>3, CardsOf, CardSets, BitValue DEF CardCount
    <2> QED
      BY <2>1, <2>2
  <1>10. w \in TrialJobs /\ r.pc \notin {"check", "notify"} /\ r.copy.card <= newest /\ (~r.old => r.copy = source)
         /\ ~r.copy.noticed
    BY <1>3, <1>5, <1>6
  <1>11. reminded' \subseteq Cards
    BY <1>2 DEF CardInv, CardTypeOK
  <1> QED
    BY <1>0, <1>2, <1>3, <1>7, <1>8, <1>9, <1>10, <1>11, CardMoves

LEMMA RemindMailKeeps ==
  ASSUME CardInv, faults \in Nat, NEW w \in Callers, RemindMail(w), UNCHANGED faults
  PROVE  CardInv'
  <1>0. w \in Workers /\ w \notin TrialJobs
    BY LifecycleAssumption DEF Workers
  <1>1. /\ ck[w].pc = "remind" /\ CardGoto(w, "flag") /\ reminded' = reminded \cup {ck[w].copy.card}
        /\ UNCHANGED <<source, newest, disabled, cardStale, cardNotices>>
    BY DEF RemindMail
  <1>2. PICK r \in CardRow : /\ ck' = [ck EXCEPT ![w] = r]
                             /\ r.pc = "flag" /\ r.copy = ck[w].copy /\ r.old = ck[w].old
    BY <1>0, <1>1, FlagRow
  <1>3. ck'[w] = r /\ \A v \in Workers : v # w => ck'[v] = ck[v]
    BY <1>0, <1>2, CardsOf
  <1>4. r.copy.card <= newest /\ (~r.old => r.copy = source)
    BY <1>0, <1>1, <1>2, CardsOf DEF CardCopyInv
  <1>5. \A c \in Cards : CardCount(c)'
    <2> SUFFICES ASSUME NEW c \in Cards PROVE CardCount(c)'
      OBVIOUS
    <2>1. CardFlagging(c)' = CardFlagging(c)
      BY <1>0, <1>3 DEF CardFlagging, Workers
    <2> QED
      BY <1>1, <2>1, CardsOf DEF CardCount
  <1>6. reminded' \subseteq Cards
    BY <1>0, <1>1, CardsOf DEF CardInv, CardTypeOK
  <1> QED
    BY <1>0, <1>1, <1>2, <1>4, <1>5, <1>6, CardsOf, CardMoves

LEMMA CardFailsKeeps ==
  ASSUME CardInv, faults \in Nat, NEW w \in Workers, CardFails(w)
  PROVE  CardInv' /\ faults' = faults + 1
  <1>1. /\ ck' = [ck EXCEPT ![w] = IdleCard] /\ faults' = faults + 1
        /\ UNCHANGED <<source, newest, disabled, cardStale, cardNotices, reminded>>
    BY DEF CardFails, Fault
  <1>2. ck'[w] = IdleCard /\ \A v \in Workers : v # w => ck'[v] = ck[v]
    BY <1>1, CardsOf
  <1>3. \A c \in Cards : CardCount(c)'
    <2> SUFFICES ASSUME NEW c \in Cards PROVE CardCount(c)'
      OBVIOUS
    <2>1. CardFlagging(c) \ {w} \subseteq CardFlagging(c)'
      BY <1>2 DEF CardFlagging, Workers
    <2>2. Cardinality(CardFlagging(c)) <= Cardinality(CardFlagging(c)') + 1
      BY <2>1, CardSets, LosesOne
    <2>3. cardNotices[c] \in Nat
      BY CardsOf
    <2> QED
      BY <1>1, <2>2, <2>3, CardsOf, CardSets, BitValue DEF CardCount
  <1>4. reminded' \subseteq Cards /\ IdleCard \in CardRow /\ IdleCard.pc = "idle"
    BY <1>1, IdleCardType DEF CardInv, CardTypeOK
  <1> QED
    BY <1>1, <1>3, <1>4, CardsOf, CardMoves

LEMMA AgedSourceFields ==
  ASSUME CardInv, NEW v \in Workers
  PROVE  /\ AgedSource(v) \in CardRow /\ AgedSource(v).pc = ck[v].pc
         /\ AgedSource(v).copy = ck[v].copy
         /\ ck[v].pc # "idle" => AgedSource(v).old
  <1>1. ck[v] \in CardRow
    BY CardsOf
  <1> QED
    BY <1>1 DEF AgedSource, CardRow

\* Worker w stores r, made from its copy, over the row.
LEMMA SourceSaved ==
  ASSUME CardInv, faults \in Nat, NEW w \in Workers, NEW r \in Source, SaveSource(w, r),
         ck[w].pc \in {"flag", "disable"}, r.card = ck[w].copy.card,
         r.noticed = (ck[w].pc = "flag" \/ ck[w].copy.noticed),
         disabled' \in BOOLEAN,
         ~ck[w].old /\ cardStale = 0 => (r.status = "inactive") = disabled',
         UNCHANGED <<newest, cardNotices, reminded, faults>>
  PROVE  CardInv'
  <1>1. /\ source' = r /\ cardStale' = (IF ck[w].old THEN cardStale + 1 ELSE cardStale)
        /\ ck' = [v \in Workers |-> IF v = w THEN IdleCard ELSE AgedSource(v)]
    BY DEF SaveSource
  <1>2. /\ ck'[w] = IdleCard /\ ck' \in [Workers -> CardRow]
        /\ \A v \in Workers : v # w => /\ ck'[v].pc = ck[v].pc /\ ck'[v].copy = ck[v].copy
                                       /\ ck[v].pc # "idle" => ck'[v].old
    BY <1>1, AgedSourceFields, IdleCardType
  <1>3. /\ r.card \in Cards /\ r.card <= newest
        /\ ~ck[w].old => ck[w].copy = source
        /\ w \in TrialJobs => ck[w].pc = "flag" /\ ~ck[w].copy.noticed
    BY CardsOf DEF CardCopyInv
  <1>4. cardStale' \in Nat
    BY <1>1, CardsOf
  <1>5. CardTypeOK'
    BY <1>1, <1>2, <1>4 DEF CardInv, CardTypeOK, CardRow
  <1>6. \A v \in Workers : CardCopyInv(v)'
    <2> SUFFICES ASSUME NEW v \in Workers PROVE CardCopyInv(v)'
      OBVIOUS
    <2>1. CASE v = w
      BY <1>2, <2>1, IdleCardType DEF CardCopyInv
    <2>2. CASE v # w
      BY <1>2, <2>2, CardsOf DEF CardCopyInv
    <2> QED
      BY <2>1, <2>2
  <1>7. \A c \in Cards : CardCount(c)'
    <2> SUFFICES ASSUME NEW c \in Cards PROVE CardCount(c)'
      OBVIOUS
    <2>1. CardFlagging(c) \ {w} \subseteq CardFlagging(c)'
      BY <1>2 DEF CardFlagging, Workers
    <2>2. w \notin CardFlagging(c) => CardFlagging(c) \subseteq CardFlagging(c)'
      BY <2>1
    <2>3. /\ Cardinality(CardFlagging(c)) <= Cardinality(CardFlagging(c)') + 1
          /\ w \notin CardFlagging(c) =>
               Cardinality(CardFlagging(c)) <= Cardinality(CardFlagging(c)')
      BY <2>1, <2>2, CardSets, MoreWorkers, LosesOne
    <2> DEFINE b == source.card = c => source.noticed
               d == r.card = c => r.noticed
    <2>4. cardNotices[c] <= Bit(b) + cardStale + faults + Cardinality(CardFlagging(c))
      BY CardsOf DEF CardCount
    <2>5. CardCount(c)' <=>
            cardNotices[c] <= Bit(d) + cardStale' + faults + Cardinality(CardFlagging(c)')
      BY <1>1 DEF CardCount
    <2>6. cardNotices[c] \in Nat /\ cardStale \in Nat /\ Bit(b) \in {0, 1} /\ Bit(d) \in {0, 1}
      BY CardsOf, BitValue
    <2>7. CASE w \in CardFlagging(c)
      <3>1. r.noticed /\ Bit(d) = 1
        BY <2>7, BitValue DEF CardFlagging
      <3>2. ~ck[w].old => Bit(b) = 0
        BY <1>3, <2>7, BitValue DEF CardFlagging
      <3> HIDE DEF b, d
      <3> QED
        BY <1>1, <2>3, <2>4, <2>5, <2>6, <3>1, <3>2, CardSets
    <2>8. CASE w \notin CardFlagging(c)
      <3>1. ~ck[w].old => Bit(b) <= Bit(d)
        <4>1. ~ck[w].old /\ b => d
          BY <1>3
        <4> HIDE DEF b, d
        <4> QED
          BY <4>1 DEF Bit
      <3> HIDE DEF b, d
      <3> QED
        BY <1>1, <2>3, <2>4, <2>5, <2>6, <2>8, <3>1, CardSets
    <2> QED
      BY <2>7, <2>8
  <1>8. cardStale' = 0 => source'.card = newest
    BY <1>1, <1>3, CardsOf DEF CardInv
  <1>9. cardStale' = 0 => (source'.status = "inactive") = disabled'
    BY <1>1, CardsOf
  <1> QED
    BY <1>1, <1>3, <1>5, <1>6, <1>7, <1>8, <1>9, CardsOf DEF CardInv

LEMMA FlagExpiringKeeps ==
  ASSUME CardInv, faults \in Nat, NEW w \in Workers, FlagExpiring(w), UNCHANGED faults
  PROVE  CardInv'
  <1> DEFINE r == [ck[w].copy EXCEPT !.noticed = TRUE]
  <1>1. /\ ck[w].pc = "flag" /\ SaveSource(w, r)
        /\ UNCHANGED <<newest, disabled, cardNotices, reminded>>
    BY DEF FlagExpiring
  <1>2. ck[w].copy \in Source /\ (~ck[w].old => ck[w].copy = source)
    BY <1>1, CardsOf DEF CardCopyInv
  <1>3. /\ r \in Source /\ r.card = ck[w].copy.card /\ r.status = ck[w].copy.status
        /\ r.noticed = TRUE
    BY <1>2 DEF Source
  <1> HIDE DEF r
  <1>4. ~ck[w].old /\ cardStale = 0 => (r.status = "inactive") = disabled
    BY <1>2, <1>3 DEF CardInv
  <1>5. disabled \in BOOLEAN /\ disabled' = disabled
    BY <1>1, CardsOf
  <1> QED
    BY <1>1, <1>3, <1>4, <1>5, SourceSaved

LEMMA DisableKeeps ==
  ASSUME CardInv, faults \in Nat, NEW w \in Workers, DisableCommit(w), UNCHANGED faults
  PROVE  CardInv'
  <1> DEFINE r == [ck[w].copy EXCEPT !.status = "inactive"]
  <1>1. /\ ck[w].pc = "disable" /\ SaveSource(w, r) /\ disabled' = TRUE
        /\ UNCHANGED <<newest, cardNotices, reminded>>
    BY DEF DisableCommit
  <1>2. ck[w].copy \in Source /\ ck[w].copy.noticed \in BOOLEAN
    BY CardsOf
  <1>3. /\ r \in Source /\ r.card = ck[w].copy.card /\ r.status = "inactive"
        /\ r.noticed = ck[w].copy.noticed
    BY <1>2 DEF Source, SourceStatus
  <1> HIDE DEF r
  <1>4. r.noticed = (ck[w].pc = "flag" \/ ck[w].copy.noticed)
    BY <1>1, <1>2, <1>3
  <1>5. (r.status = "inactive") = disabled' /\ disabled' \in BOOLEAN
    BY <1>1, <1>3
  <1> QED
    BY <1>1, <1>3, <1>4, <1>5, SourceSaved

\* The webhook stores a fresh row.
LEMMA CardUpdatedKeeps ==
  ASSUME CardInv, faults \in Nat, CardUpdated, UNCHANGED faults
  PROVE  CardInv'
  <1> DEFINE n == newest + 1
             r == WithCard(n)
  <1>1. /\ n \in Cards /\ newest' = n /\ source' = r
        /\ ck' = [v \in Workers |-> AgedSource(v)] /\ disabled' = FALSE
        /\ UNCHANGED <<cardStale, cardNotices, reminded>>
    BY DEF CardUpdated
  <1>2. r \in Source /\ r.card = n /\ r.status = "active" /\ r.noticed = FALSE
    BY <1>1 DEF WithCard, Source, SourceStatus
  <1>n. n = newest + 1 /\ newest \in Nat
    BY CardsOf
  <1> HIDE DEF n, r
  <1>3. /\ ck' \in [Workers -> CardRow]
        /\ \A v \in Workers : /\ ck'[v].pc = ck[v].pc /\ ck'[v].copy = ck[v].copy
                              /\ ck[v].pc # "idle" => ck'[v].old
    BY <1>1, AgedSourceFields
  <1>4. CardTypeOK'
    BY <1>1, <1>2, <1>3 DEF CardInv, CardTypeOK, CardRow
  <1>5. \A v \in Workers : CardCopyInv(v)'
    <2> SUFFICES ASSUME NEW v \in Workers PROVE CardCopyInv(v)'
      OBVIOUS
    <2>1. ck[v].copy.card \in Nat /\ (ck[v].pc # "idle" => ck[v].copy.card <= newest)
      BY CardsOf, IdleCardType DEF CardCopyInv
    <2>2. ck[v].pc # "idle" => ck[v].copy.card <= n
      BY <1>n, <2>1
    <2> QED
      BY <1>1, <1>3, <2>2, CardsOf DEF CardCopyInv
  <1>6. \A c \in Cards : c > newest' => cardNotices'[c] = 0
    <2> SUFFICES ASSUME NEW c \in Cards, c > n PROVE cardNotices[c] = 0
      BY <1>1
    <2>1. c > newest
      BY <1>n, IdleCardType
    <2> QED
      BY <2>1, CardsOf
  <1>7. \A c \in Cards : CardCount(c)'
    <2> SUFFICES ASSUME NEW c \in Cards PROVE CardCount(c)'
      OBVIOUS
    <2>1. CardFlagging(c)' = CardFlagging(c)
      BY <1>3 DEF CardFlagging, Workers
    <2>2. cardNotices[c] \in Nat
      BY CardsOf
    <2>3. CASE c = n
      <3>1. cardNotices[c] = 0
        BY <1>n, <2>3, CardsOf
      <3> QED
        BY <1>1, <2>1, <3>1, CardsOf, CardSets, BitValue DEF CardCount
    <2>4. CASE c # n
      <3>1. Bit(r.card = c => r.noticed) = 1
        BY <1>2, <2>4, BitValue
      <3> QED
        BY <1>1, <2>1, <2>2, <3>1, CardsOf, CardSets, BitValue DEF CardCount
    <2> QED
      BY <2>3, <2>4
  <1>8. source'.card <= newest' /\ source'.card = newest'
    BY <1>1, <1>2, <1>n
  <1>9. (source'.status = "inactive") = disabled'
    BY <1>1, <1>2
  <1> QED
    BY <1>4, <1>5, <1>6, <1>7, <1>8, <1>9 DEF CardInv

LEMMA CardStepKeeps ==
  ASSUME CardInv, faults \in Nat, CardStep, UNCHANGED faults
  PROVE  CardInv'
  <1>1. ASSUME NEW w \in TrialJobs, LoadExpiring(w) PROVE CardInv'
    <2>1. w \in Workers /\ w \notin Callers
      BY LifecycleAssumption DEF Workers
    <2>2. /\ ck[w].pc = "idle" /\ ~source.noticed /\ ReadSource(w, "check")
          /\ UNCHANGED <<source, newest, disabled, cardStale, cardNotices, reminded>>
      BY <1>1 DEF LoadExpiring
    <2> QED
      BY <2>1, <2>2, ReadSourceKeeps
  <1>2. Callers \subseteq Workers /\ TrialJobs \subseteq Workers
    BY DEF Workers
  <1> QED
    BY <1>1, <1>2, CheckKeeps, NotifyKeeps, FlagExpiringKeeps, RemindMailKeeps, DisableKeeps,
       CardUpdatedKeeps DEF CardStep, CardJob

LEMMA CardCallKeeps ==
  ASSUME CardInv, faults \in Nat, CardCall, UNCHANGED faults
  PROVE  CardInv'
  <1>1. PICK w \in Callers : RemindRead(w) \/ DisableRead(w)
    BY DEF CardCall
  <1>2. w \in Workers /\ w \notin TrialJobs
    BY LifecycleAssumption DEF Workers
  <1>3. UNCHANGED <<source, newest, disabled, cardStale, cardNotices, reminded>> /\ ck[w].pc = "idle"
    BY <1>1 DEF RemindRead, DisableRead
  <1>4. PICK pc \in {"remind", "disable"} : ReadSource(w, pc)
    BY <1>1 DEF RemindRead, DisableRead
  <1> QED
    BY <1>2, <1>3, <1>4, ReadSourceKeeps
-----------------------------------------------------------------------------
(* The catalog *)

LEMMA PlansKeep == CatalogInv /\ Plans => CatalogInv'
  <1> SUFFICES ASSUME CatalogInv, Plans PROVE CatalogInv'
    OBVIOUS
  <1>1. PlanInv /\ SubInv /\ CardInv /\ surface' = surface /\ UNCHANGED cardVars /\ faults \in Nat
    BY DEF CatalogInv, Plans, PlanInv
  <1>2. ASSUME NEW e \in Editors, PlanStep(e), UNCHANGED subVars PROVE CatalogInv'
    <2>1. PlanInv' /\ Grows /\ faults' \in Nat /\ faults <= faults'
      BY <1>1, <1>2, PlanStepKeeps
    <2>2. /\ now' = now /\ calls' = calls
          /\ UNCHANGED <<sub, invoices, wk, stale, notices, starts>>
      BY <1>2 DEF subVars, events
    <2>3. now' \in Nat /\ now <= now' /\ calls' \in Nat
      BY <1>1, <2>2 DEF SubInv, SubTypes
    <2>4. SubInv'
      BY <1>1, <2>1, <2>2, <2>3, SubStays
    <2>5. CardInv'
      BY <1>1, <2>1, CardStays
    <2> QED
      BY <1>1, <2>1, <2>4, <2>5 DEF CatalogInv
  <1>3. ASSUME NEW w \in Callers, Subscribing(w), UNCHANGED <<planVars, faults>> PROVE CatalogInv'
    <2>1. SubInv' /\ PlanInv' /\ CardInv'
      BY <1>1, <1>3, SubscribingKeeps, PlanStays, CardStays
    <2> QED
      BY <1>1, <2>1 DEF CatalogInv
  <1> QED
    BY <1>2, <1>3 DEF Plans

LEMMA SubscriptionsKeep == CatalogInv /\ Subscriptions => CatalogInv'
  <1> SUFFICES ASSUME CatalogInv, Subscriptions PROVE CatalogInv'
    OBVIOUS
  <1>1. PlanInv /\ SubInv /\ CardInv /\ surface' = surface /\ UNCHANGED cardVars /\ faults \in Nat
    BY DEF CatalogInv, Subscriptions, PlanInv
  <1>2. ASSUME NEW e \in Editors, CreatePlan(e), UNCHANGED subVars PROVE CatalogInv'
    <2>1. PlanInv' /\ Grows /\ faults' = faults
      BY <1>1, <1>2, CreateKeeps DEF CreatePlan
    <2>2. /\ now' = now /\ calls' = calls
          /\ UNCHANGED <<sub, invoices, wk, stale, notices, starts>>
      BY <1>2 DEF subVars, events
    <2>3. now' \in Nat /\ now <= now' /\ calls' \in Nat
      BY <1>1, <2>2 DEF SubInv, SubTypes
    <2>4. SubInv'
      BY <1>1, <2>1, <2>2, <2>3, SubStays
    <2>5. CardInv'
      BY <1>1, <2>1, CardStays
    <2> QED
      BY <1>1, <2>1, <2>4, <2>5 DEF CatalogInv
  <1>3. ASSUME SubStep, UNCHANGED <<planVars, faults>> PROVE CatalogInv'
    <2>1. SubInv' /\ PlanInv' /\ CardInv'
      BY <1>1, <1>3, SubStepKeeps, PlanStays, CardStays
    <2> QED
      BY <1>1, <2>1 DEF CatalogInv
  <1>4. ASSUME SubFault, UNCHANGED planVars PROVE CatalogInv'
    <2>1. faults' = faults + 1
      BY <1>4 DEF SubFault, CallFails, JobFails, Fault
    <2>2. SubInv' /\ PlanInv' /\ CardInv'
      BY <1>1, <1>4, <2>1, SubFaultKeeps, PlanStays, CardStays
    <2> QED
      BY <1>1, <2>2 DEF CatalogInv
  <1> QED
    BY <1>2, <1>3, <1>4 DEF Subscriptions

LEMMA CardScenarioKeeps == CatalogInv /\ CardScenario => CatalogInv'
  <1> SUFFICES ASSUME CatalogInv, CardScenario PROVE CatalogInv'
    OBVIOUS
  <1>1. PlanInv /\ SubInv /\ CardInv /\ surface' = surface /\ UNCHANGED planVars /\ faults \in Nat
        /\ now \in Nat /\ calls \in Nat
    BY DEF CatalogInv, CardScenario, PlanInv, SubInv, SubTypes
  <1>2. CASE Tick /\ UNCHANGED <<faults, cardVars>>
    BY <1>1, <1>2, TickKeeps, PlanStays, CardStays DEF CatalogInv
  <1>3. ASSUME CardInv', faults' \in Nat, faults <= faults', calls' \in Nat,
               UNCHANGED <<now, subOthers>>
        PROVE  CatalogInv'
    <2>1. UNCHANGED <<sub, invoices, wk, stale, notices, starts>> /\ now' \in Nat /\ now <= now'
      BY <1>1, <1>3 DEF subOthers, events
    <2>2. PlanInv' /\ Grows
      BY <1>1, <1>3, PlanStays
    <2>3. SubInv'
      BY <1>1, <1>3, <2>1, <2>2, SubStays
    <2> QED
      BY <1>1, <1>3, <2>2, <2>3 DEF CatalogInv
  <1>4. CASE CardStep /\ UNCHANGED <<faults, now, calls, subOthers>>
    BY <1>1, <1>3, <1>4, CardStepKeeps
  <1>5. CASE CardCall /\ calls' = calls + 1 /\ UNCHANGED <<faults, now, subOthers>>
    BY <1>1, <1>3, <1>5, CardCallKeeps
  <1>6. CASE CardFault /\ UNCHANGED <<now, calls, subOthers>>
    BY <1>1, <1>3, <1>6, CardFailsKeeps DEF CardFault
  <1> QED
    BY <1>2, <1>4, <1>5, <1>6 DEF CardScenario

\* The invariant of the catalog.
THEOREM CatalogInductive == Spec => []CatalogInv
  <1>1. Init => CatalogInv
    BY PlanInitially, SubInitially, CardInitially DEF Init, CatalogInv
  <1>2. CatalogInv /\ [Next]_vars => CatalogInv'
    <2> SUFFICES ASSUME CatalogInv, [Next]_vars PROVE CatalogInv'
      OBVIOUS
    <2>1. CASE Next
      BY <2>1, PlansKeep, SubscriptionsKeep, CardScenarioKeeps DEF Next
    <2>2. CASE UNCHANGED vars
      <3>1. /\ surface' = surface /\ UNCHANGED planVars /\ faults' = faults /\ UNCHANGED cardVars
            /\ now' = now /\ calls' = calls
            /\ UNCHANGED <<sub, invoices, wk, stale, notices, starts>>
        BY <2>2 DEF vars, subVars, events
      <3>2. /\ PlanInv /\ SubInv /\ CardInv /\ faults \in Nat /\ now \in Nat /\ calls \in Nat
        BY DEF CatalogInv, PlanInv, SubInv, SubTypes
      <3>3. PlanInv' /\ Grows
        BY <3>1, <3>2, PlanStays
      <3>4. SubInv' /\ CardInv'
        BY <3>1, <3>2, <3>3, SubStays, CardStays
      <3> QED
        BY <3>1, <3>3, <3>4 DEF CatalogInv
    <2> QED
      BY <2>1, <2>2
  <1> QED
    BY <1>1, <1>2, PTL DEF Spec

\* Rows, copies and histories keep their types, for any set of editors, prices,
\* trials, subscriptions, callers, jobs and cards (plan.go, subscription.go and
\* subscription_lifecycle.go store only what they read or were asked for).
THEOREM TypeCorrect == Spec => []TypeOK
  <1>1. ASSUME CatalogInv PROVE TypeOK
    <2>1. PlanTypeOK /\ faults \in Nat
      <3>1. \A i \in DOMAIN versions : versions[i] \in VersionRow
        BY <1>1 DEF CatalogInv, PlanInv
      <3>2. \A i \in DOMAIN versions :
              versions[i] \in [index : Nat, amount : Amounts, trial : Trials, status : PlanStatus]
        BY <3>1 DEF VersionRow
      <3> QED
        BY <1>1, <3>2 DEF CatalogInv, PlanInv, PlanTypeOK
    <2>2. SubTypeOK
      <3>1. \A w \in Workers : wk[w] \in WorkerRow
        BY <1>1 DEF CatalogInv, SubInv, SubTypes
      <3> QED
        BY <1>1, <3>1 DEF CatalogInv, SubInv, SubTypes, SubTypeOK, WorkerRow, CallerPcs, JobPcs
    <2> QED
      BY <1>1, <2>1, <2>2 DEF CatalogInv, CardInv, TypeOK
  <1> QED
    BY <1>1, CatalogInductive, PTL

\* However edits of a plan overlap, its newest version is what the plan says,
\* and a subscription has the terms of the version it names (UpdatePlan,
\* plan.go:138, and CreateSubscription, subscription.go).
THEOREM VersionsKeptCorrect == Spec => []VersionsKept
  <1>1. ASSUME CatalogInv PROVE VersionsKept
    <2>1. VersionsFollowPlan
      BY <1>1 DEF CatalogInv, PlanInv
    <2>2. TermsKept
      BY <1>1 DEF CatalogInv, SubInv, HoldInv, RowInv, HasTerms, TermsKept
    <2> QED
      BY <2>1, <2>2 DEF VersionsKept
  <1> QED
    BY <1>1, CatalogInductive, PTL

\* The first invoice, the notice of the end of a trial and the start of billing
\* happen once, but for each out-of-date copy stored and each fault: the jobs
\* of subscription_lifecycle.go and the calls of subscription.go store whole
\* rows without a lock.
THEOREM NothingTwiceCorrect == Spec => []NothingTwice
  <1>1. ASSUME CatalogInv, NEW s \in Subs
        PROVE  /\ invoices[s] <= 1 + stale[s] + faults + Busy(s, {"attach"})
               /\ notices[s] <= 1 + stale[s] + faults + Busy(s, {"flag"})
               /\ starts[s] <= 1 + stale[s]
               /\ sub[s].trialEnd # NoTime =>
                    /\ sub[s].started # NoTime => sub[s].started >= sub[s].trialEnd
                    /\ starts[s] > 0 => sub[s].trialEnd <= now
                    /\ starts[s] > 0 /\ stale[s] = 0 => sub[s].started # NoTime
    <2>1. SubInv /\ PlanInv
      BY <1>1 DEF CatalogInv
    <2> DEFINE A == {w \in Workers : wk[w].s = s /\ wk[w].pc \in {"attach"}}
               F == {w \in Workers : wk[w].s = s /\ wk[w].pc \in {"flag"}}
    <2>2. A \in SUBSET Workers /\ F \in SUBSET Workers
      OBVIOUS
    <2>3. Attaching(s) \subseteq A /\ Flagging(s) \subseteq F
      BY DEF Attaching, Flagging
    <2>4. Busy(s, {"attach"}) = Cardinality(A) /\ Busy(s, {"flag"}) = Cardinality(F)
      BY DEF Busy
    <2> HIDE DEF A, F
    <2>5. /\ Cardinality(Attaching(s)) <= Cardinality(A) /\ Cardinality(A) \in Nat
          /\ Cardinality(Flagging(s)) <= Cardinality(F) /\ Cardinality(F) \in Nat
      BY <2>2, <2>3, MoreWorkers, SomeWorkers
    <2>6. invoices[s] <= 1 + stale[s] + faults + Busy(s, {"attach"})
      BY <2>1, <2>4, <2>5, CountsOf, SetsOfWorkers, BitValue DEF InvoiceCount
    <2>7. notices[s] <= 1 + stale[s] + faults + Busy(s, {"flag"})
      BY <2>1, <2>4, <2>5, CountsOf, SetsOfWorkers, BitValue DEF NoticeCount
    <2>8. starts[s] <= 1 + stale[s]
      BY <2>1, CountsOf, SetsOfWorkers, BitValue DEF StartCount
    <2>9. starts[s] > 0 /\ stale[s] = 0 => sub[s].started # NoTime
      <3>1. sub[s].started = NoTime => Bit(sub[s].started # NoTime) = 0
        BY DEF Bit
      <3> QED
        BY <2>1, <3>1, CountsOf, SetsOfWorkers DEF StartCount
    <2>10. InTime(sub[s]) /\ StartInv(s)
      BY <2>1 DEF SubInv, HoldInv, RowInv
    <2> QED
      BY <2>6, <2>7, <2>8, <2>9, <2>10 DEF InTime, StartInv
  <1>2. ASSUME CatalogInv PROVE NothingTwice
    BY <1>1, <1>2 DEF NothingTwice
  <1> QED
    BY <1>2, CatalogInductive, PTL

\* The source has the newest card and is disabled exactly when the customer
\* disabled it, unless an out-of-date copy was stored; the notice of a card is
\* repeated only for such stores, faults and jobs that run at once
\* (ProcessCardExpirations, DisablePaymentSource, payment_success).
THEOREM CardKeptCorrect == Spec => []CardKept
  <1>1. ASSUME CatalogInv PROVE CardKept
    <2>1. CardInv /\ faults \in Nat
      BY <1>1 DEF CatalogInv, PlanInv
    <2>2. ASSUME NEW c \in Cards
          PROVE  cardNotices[c] <= 1 + cardStale + faults + Cardinality(Noticing(c))
      <3>1. Noticing(c) \in SUBSET Workers /\ CardFlagging(c) \subseteq Noticing(c)
        BY DEF Noticing, CardFlagging, Workers
      <3>2. /\ Cardinality(CardFlagging(c)) <= Cardinality(Noticing(c))
            /\ Cardinality(Noticing(c)) \in Nat
        BY <3>1, MoreWorkers, SomeWorkers
      <3>3. cardNotices[c] \in Nat
        BY <2>1, CardsOf
      <3> QED
        BY <2>1, <3>2, <3>3, CardsOf, CardSets, BitValue DEF CardCount
    <2> QED
      BY <2>1, <2>2 DEF CardInv, CardKept
  <1> QED
    BY <1>1, CatalogInductive, PTL
=============================================================================
