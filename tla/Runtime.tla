------------------------------- MODULE Runtime -------------------------------
(***************************************************************************)
(* One loop_guard::Runtime on its durable store: the fence vector, the     *)
(* finding registry, containment plans, intents and their applications,    *)
(* and what survives a stop.  Every public entry point of runtime.cpp runs *)
(* under the one runtime mutex, so each is one action.  The store is the   *)
(* abstract document the Journal module implements: a write either commits *)
(* or, when StoreMayFail, is refused and changes nothing.  A stop may fall *)
(* between any two writes of one entry point.                              *)
(*                                                                         *)
(* The evidence ledger and the detector appear as `proven`, the set of     *)
(* loops whose every hop resolves as proven open at the current fence and  *)
(* tick; the planner as Cover, the target set it computes for a set of     *)
(* witnesses ({}: the plan authorizes nothing).  Digests are their         *)
(* content; a finding's identity is the value of a hash in no particular   *)
(* order, chosen when its content is first seen.                           *)
(***************************************************************************)
EXTENDS FenceVector, FiniteSets, Sequences

CONSTANTS
    Witness,        \* the loops the detector can prove
    Resource,       \* the resources a plan may name as targets
    Cover,          \* Cover[W]: the target set planned for witness set W
    LastId,         \* the largest finding identity
    MaxFindings,    \* limits.max_retained_findings
    MaxPlans,       \* limits.max_retained_plans
    MaxLineage,     \* limits.max_retained_lineage
    AckLimit,       \* acknowledgements kept for one intent
    StoreMayFail,   \* TRUE: a durable write may be refused
    NoPlan, NoIntent,
    MaxTick,        \* bound: the last tick a caller supplies
    MaxMoves,       \* bound: fence moves and restarts together
    MaxGeneration,  \* bound: the largest generation a caller installs
    MaxHeld,        \* bound: assessments callers still hold
    MaxIntents      \* bound: intents issued by one incarnation

ASSUME IdAssumption == LastId \in Nat
ASSUME LimitAssumption ==
    /\ MaxFindings \in Nat \ {0}
    /\ MaxPlans \in Nat \ {0}
    /\ MaxLineage \in Nat \ {0}
    /\ AckLimit \in Nat
    /\ MaxGeneration \in Nat
    /\ StoreMayFail \in BOOLEAN
ASSUME CoverAssumption == Cover \in [SUBSET Witness -> SUBSET Resource]

VARIABLES
    up,             \* the process has the runtime open
    now,            \* the tick callers supply
    fence,          \* impl.fence; while down, the last fence in force
    topology,       \* generation of the installed topology, 0: none
    policy,         \* generation of the installed policy, 0: none
    proven,         \* the loops the ledger proves at the current fence
    held,           \* assessments the detector returned to callers
    findings,       \* the FindingRegistry, by identity
    minted,         \* content -> identity: the hash, as far as it was used
    plans,          \* retained containment plans
    applications,   \* intent -> acknowledgements and effects
    audit,          \* the retained lineage since the last move or start
    disk            \* the durable document

vars == <<up, now, fence, topology, policy, proven, held, findings, minted,
          plans, applications, audit, disk>>

-----------------------------------------------------------------------------
(* Data *)

FindingId == 1..LastId

Assessment == [fence : Fence, witnesses : SUBSET Witness]
Plan == [assessment : Assessment, targets : SUBSET Resource]
Intent == [finding : FindingId, plan : Plan,
           targets : SUBSET Resource, issued : Nat]

\* The states a finding takes; "Proposed", "Rejected" and
\* "ContainmentAuthorized" are never assigned by the runtime.
Terminal == {"Withdrawn", "Stale", "Fenced"}
Live == {"Confirmed", "Requested", "AppliedUnverified", "Verified"}
Cause == Component \cup {"none", "withdrawal"}

Finding == [generation : Nat, assessment : Assessment, created : Nat,
            updated : Nat, state : Terminal \cup Live, cause : Cause,
            plan : Plan \cup {NoPlan}, intent : Intent \cup {NoIntent}]

Application == [acks : Nat, effects : SUBSET Resource]

AuthorityKind == {"FenceMove", "Recommendation", "Eligibility", "Withdrawal",
                  "Authorization", "Acknowledgement", "VerifiedEffect"}

\* What the properties tell apart of a LineageRecord.
LineageRecord == [kind : AuthorityKind, finding : FindingId \cup {0},
                  subject : Plan \cup Intent \cup {NoIntent}]

\* No plan is the plan that is not there.
ASSUME NoPlanAssumption == NoPlan \notin Plan

\* What the store keeps of the above.
DurableFinding == [id : FindingId, body : Finding]
Document == [topology : Nat, policy : Nat, fence : Fence, boot : Nat,
             epoch : Nat, findings : Seq(DurableFinding)]

IsTerminal(f) == f.state \in Terminal
LiveIds(fs) == {id \in DOMAIN fs : ~IsTerminal(fs[id])}

Empty == [id \in {} |-> {}]
With(fn, key, value) ==
    [k \in DOMAIN fn \cup {key} |-> IF k = key THEN value ELSE fn[k]]
Without(fn, key) == [k \in DOMAIN fn \ {key} |-> fn[k]]

Largest(S) == CHOOSE n \in S : \A m \in S : m <= n
Smallest(S) == CHOOSE n \in S : \A m \in S : n <= m

\* How many times the fence moved, a restart (which moves two components)
\* counting once: only the bound MaxMoves reads it.
Moves(f) == f.epoch + f.fabric + f.topology + f.forwarding + f.policy
MayMove(f) == Moves(f) <= 5 + MaxMoves

-----------------------------------------------------------------------------
(* FindingRegistry *)

\* The oldest terminal finding: what makes room when the registry is full.
Victim(fs) ==
    CHOOSE v \in DOMAIN fs \ LiveIds(fs) :
        \A o \in DOMAIN fs \ LiveIds(fs) :
            \/ fs[v].updated < fs[o].updated
            \/ fs[v].updated = fs[o].updated /\ v <= o

CanRegister(fs, id) ==
    /\ id \notin DOMAIN fs
    /\ Cardinality(DOMAIN fs) >= MaxFindings => DOMAIN fs # LiveIds(fs)

Register(fs, id, f) ==
    With(IF Cardinality(DOMAIN fs) >= MaxFindings
         THEN Without(fs, Victim(fs)) ELSE fs, id, f)

\* Mutant: update_state without its refusal to move a terminal finding.
UpdateStateAlways(fs, id, state, cause) ==
    IF id \in DOMAIN fs
    THEN [fs EXCEPT ![id] =
            [fs[id] EXCEPT
                !.state = state,
                !.cause = IF cause = "none" THEN fs[id].cause ELSE cause,
                !.updated = now]]
    ELSE fs

\* Mutant: the state and the cause of a finding are swapped.
UpdateStateSwapped(fs, id, state, cause) ==
    IF id \in DOMAIN fs /\ (IsTerminal(fs[id]) => state = "Withdrawn")
    THEN [fs EXCEPT ![id].state = cause, ![id].cause = state,
                    ![id].updated = now]
    ELSE fs

\* update_state: a terminal finding moves to "Withdrawn" and nowhere else.
UpdateState(fs, id, state, cause) ==
    IF id \in DOMAIN fs /\ (IsTerminal(fs[id]) => state = "Withdrawn")
    THEN [fs EXCEPT ![id] =
            [fs[id] EXCEPT
                !.state = state,
                !.cause = IF cause = "none" THEN fs[id].cause ELSE cause,
                !.updated = now]]
    ELSE fs

FenceStale(fs, current) ==
    [id \in DOMAIN fs |->
        LET cause == FenceCause(fs[id].assessment.fence, current)
        IN  IF IsTerminal(fs[id]) \/ cause = "none"
            THEN fs[id]
            ELSE [fs[id] EXCEPT !.state = "Stale", !.cause = cause,
                                !.updated = now]]

-----------------------------------------------------------------------------
(* The durable document, as DurableStore applies it *)

\* upsert_finding: replace in place, else append and drop the oldest entry.
Upserted(s, id, f) ==
    LET entry == [id |-> id, body |-> f]
        known == \E i \in DOMAIN s : s[i].id = id
        long == Append(s, entry)
    IN  IF known
        THEN [i \in DOMAIN s |-> IF s[i].id = id THEN entry ELSE s[i]]
        ELSE IF Len(long) > MaxFindings THEN Tail(long) ELSE long

DurablyKnown(id) == \E i \in DOMAIN disk.findings : disk.findings[i].id = id

Withdrawn(s, id) ==
    [i \in DOMAIN s |->
        IF s[i].id = id
        THEN [s[i] EXCEPT !.body =
                [s[i].body EXCEPT !.state = "Withdrawn",
                                  !.cause = "withdrawal", !.updated = now]]
        ELSE s[i]]

\* Mutant: restored findings are Fenced, but keep the cause they were stored with.
RestoredUncaused(s) ==
    [id \in {s[i].id : i \in DOMAIN s} |->
        LET i == CHOOSE j \in DOMAIN s : s[j].id = id
        IN  [s[i].body EXCEPT !.state = "Fenced"]]

\* Runtime::open: durable findings come back as fenced history only.
Restored(s) ==
    [id \in {s[i].id : i \in DOMAIN s} |->
        LET i == CHOOSE j \in DOMAIN s : s[j].id = id
        IN  [s[i].body EXCEPT !.state = "Fenced", !.cause = "boot",
                              !.updated = now]]

\* Mutant: a full lineage drops the record it is given.
RetainedPrefix(log, r) ==
    IF Len(log) = MaxLineage THEN log ELSE Append(log, r)

\* The lineage after a record: the oldest one is erased when it is one too many.
\* Records from before the last move go first, so those since it are a suffix.
Retained(log, r) ==
    IF Len(log) = MaxLineage THEN Append(Tail(log), r) ELSE Append(log, r)

Entry(kind, id, subject) == [kind |-> kind, finding |-> id, subject |-> subject]

\* append_lineage: the record is durable before it is kept in memory.
AuditAfter(log, kind, id, subject) ==
    \/ audit' = Retained(log, Entry(kind, id, subject))
    \/ StoreMayFail /\ audit' = log

Audit(kind, id, subject) == AuditAfter(audit, kind, id, subject)

\* The process ends: nothing but the document (and the hash) survives.
Halt ==
    /\ up' = FALSE
    /\ topology' = 0 /\ policy' = 0
    /\ proven' = {} /\ held' = {} /\ plans' = {}
    /\ findings' = Empty /\ applications' = Empty /\ audit' = <<>>
    /\ UNCHANGED <<now, fence>>

-----------------------------------------------------------------------------
(* Runtime::open on a fresh path *)

FirstFence == [c \in Component |-> 1]

Init ==
    /\ up = TRUE /\ now = 0
    /\ fence = FirstFence
    /\ topology = 0 /\ policy = 0
    /\ proven = {} /\ held = {} /\ plans = {} /\ audit = <<>>
    /\ findings = Empty /\ minted = Empty /\ applications = Empty
    /\ disk = [topology |-> 0, policy |-> 0, fence |-> FirstFence,
               boot |-> 1, epoch |-> 1, findings |-> <<>>]

-----------------------------------------------------------------------------
(* Fence moves *)

\* What the evidence can prove after a move.  No observation binds a policy
\* generation; of the other components it may already bind the new value.
Reassessed(f) ==
    IF topology' = 0 \/ f = [fence EXCEPT !["policy"] = f["policy"]]
    THEN {proven}
    ELSE SUBSET Witness

\* advance_fence, fence_stale, append_lineage: the tail of every entry point
\* that moves a component.  d is the document after the earlier writes of the
\* same entry point.  A refused write returns before anything is fenced.
MoveFence(f, d, lineage) ==
    /\ MayMove(f)
    /\ fence' = f
    /\ proven' \in Reassessed(f)
    /\ UNCHANGED <<up, now, held, minted, plans, applications>>
    /\ \/ /\ disk' = [d EXCEPT !.fence = f]
          /\ findings' = FenceStale(findings, f)
          /\ LET since == IF f = fence THEN audit ELSE <<>>
             IN  IF lineage THEN AuditAfter(since, "FenceMove", 0, NoIntent)
                 ELSE audit' = since
       \/ /\ StoreMayFail
          /\ disk' = d
          /\ UNCHANGED <<findings, audit>>

AdvanceForwarding(generation) ==
    /\ up
    /\ generation > fence.forwarding
    /\ UNCHANGED <<topology, policy>>
    /\ MoveFence([fence EXCEPT !["forwarding"] = generation], disk, TRUE)

AdvanceFabricEpoch(epoch) ==
    /\ up
    /\ epoch > fence.fabric
    /\ UNCHANGED <<topology, policy>>
    /\ MoveFence([fence EXCEPT !["fabric"] = epoch], disk, TRUE)

AdvanceEpoch ==
    /\ up
    /\ UNCHANGED <<topology, policy>>
    /\ MoveFence([fence EXCEPT !["epoch"] = @ + 1], disk, TRUE)

\* Two writes, the definition and then the fence: a stop may fall between them.
SetTopology(generation) ==
    /\ up
    /\ generation > topology
    /\ LET d == [disk EXCEPT !.topology = generation] IN
       \/ /\ topology' = generation
          /\ MoveFence([fence EXCEPT !["topology"] = generation], d, TRUE)
          /\ UNCHANGED policy
       \/ /\ disk' = d
          /\ Halt
          /\ UNCHANGED minted

\* As SetTopology, but without a lineage record.
SetPolicy(generation) ==
    /\ up
    /\ generation > policy
    /\ LET d == [disk EXCEPT !.policy = generation] IN
       \/ /\ policy' = generation
          /\ UNCHANGED topology
          /\ MoveFence([fence EXCEPT !["policy"] = generation], d, FALSE)
       \/ /\ disk' = d
          /\ Halt
          /\ UNCHANGED minted

-----------------------------------------------------------------------------
(* Evidence and detection *)

\* submit_observation: new evidence may establish, contradict or evict.
SubmitObservation(S) ==
    /\ up /\ topology # 0
    /\ proven' = S
    /\ UNCHANGED <<up, now, fence, topology, policy, held, findings, minted,
                   plans, applications, audit, disk>>

ClearEvidence ==
    /\ up
    /\ proven' = {}
    /\ UNCHANGED <<up, now, fence, topology, policy, held, findings, minted,
                   plans, applications, audit, disk>>

\* Time passes: leases of observations and grants begin and run out.  The end
\* of a contradicting observation can prove a loop as well as disprove one.
Tick(S) ==
    /\ now < MaxTick
    /\ topology = 0 => S = {}
    /\ now' = now + 1
    /\ proven' = S
    /\ UNCHANGED <<up, fence, topology, policy, held, findings, minted, plans,
                   applications, audit, disk>>

\* detect: affirmative exactly when a witness was found.  The budgets of the
\* search may leave loops out.
Detect(W) ==
    /\ up /\ topology # 0
    /\ W \subseteq proven
    /\ \E kept \in SUBSET held :
          /\ Cardinality(kept) < MaxHeld
          /\ held' = kept \cup {[fence |-> fence, witnesses |-> W]}
    /\ UNCHANGED <<up, now, fence, topology, policy, proven, findings, minted,
                   plans, applications, audit, disk>>

-----------------------------------------------------------------------------
(* Findings *)

\* The facts of a finding; its identity is their hash.
Content(a) ==
    [generation |-> IF findings = Empty
                    THEN 1
                    ELSE findings[Largest(DOMAIN findings)].generation + 1,
     assessment |-> a,
     created |-> now]

Identities(content) ==
    IF content \in DOMAIN minted
    THEN {minted[content]}
    ELSE FindingId \ {minted[c] : c \in DOMAIN minted}

NewFinding(a) ==
    [generation |-> Content(a).generation, assessment |-> a, created |-> now,
     updated |-> now, state |-> "Confirmed", cause |-> "none",
     plan |-> NoPlan, intent |-> NoIntent]

\* Refusals of publish_finding that leave everything as it was.
Publishable(a) ==
    /\ a.witnesses # {}
    /\ a.fence = fence
    /\ topology = a.fence.topology
    /\ a.witnesses \subseteq proven

\* The finding is durable before it is registered; registration may still be
\* refused, and a stop may fall before the lineage record.
PublishFinding(a) ==
    /\ up /\ a \in held
    /\ Publishable(a)
    /\ \E id \in Identities(Content(a)) :
          /\ minted' = With(minted, Content(a), id)
          /\ disk' = [disk EXCEPT !.findings = Upserted(@, id, NewFinding(a))]
          /\ \/ /\ CanRegister(findings, id)
                /\ findings' = Register(findings, id, NewFinding(a))
                /\ Audit("Recommendation", id, NoIntent)
                /\ UNCHANGED <<up, now, fence, topology, policy, proven, held,
                               plans, applications>>
             \/ /\ ~CanRegister(findings, id)
                /\ UNCHANGED <<up, now, fence, topology, policy, proven, held,
                               findings, plans, applications, audit>>
             \/ Halt

\* Mutant: a plan is attached to a live finding of another assessment.
ContainedByAny(a) == LiveIds(findings)

\* The live findings that were published for an assessment.
ContainedBy(a) == {id \in LiveIds(findings) : findings[id].assessment = a}

\* The plan is retained whether or not it authorizes anything, and attached to
\* the first live finding of the assessment.
PlanContainment(a) ==
    /\ up /\ a \in held
    /\ topology # 0 /\ policy # 0
    /\ policy = a.fence.policy
    /\ LET p == [assessment |-> a, targets |-> Cover[a.witnesses]]
           first == Smallest(ContainedBy(a))
       IN  /\ IF Cardinality(plans) >= MaxPlans
              THEN \E evicted \in plans : plans' = (plans \ {evicted}) \cup {p}
              ELSE plans' = plans \cup {p}
           /\ IF ContainedBy(a) = {}
              THEN UNCHANGED <<findings, audit>>
              ELSE /\ findings' = [findings EXCEPT ![first].plan = p,
                                                   ![first].updated = now]
                   /\ Audit("Eligibility", first, p)
    /\ UNCHANGED <<up, now, fence, topology, policy, proven, held, minted,
                   applications, disk>>

\* The record of a withdrawal is in the file before the store answers NotFound
\* for a finding it does not hold.  It changes no finding of the document; that
\* replay then refuses the file is Document!Applicable's guard.
WithdrawFinding(id) ==
    /\ up /\ id \in DOMAIN findings
    /\ disk' = [disk EXCEPT !.findings = Withdrawn(@, id)]
    /\ IF DurablyKnown(id)
       THEN /\ findings' = UpdateState(findings, id, "Withdrawn", "withdrawal")
            /\ Audit("Withdrawal", id, NoIntent)
       ELSE UNCHANGED <<findings, audit>>
    /\ UNCHANGED <<up, now, fence, topology, policy, proven, held, minted,
                   plans, applications>>

-----------------------------------------------------------------------------
(* Containment: a grant, an intent, acknowledgements, verified effects *)

\* ContainmentGrant::authorize.  The budgets of a grant are part of its scope:
\* both only cut down the target sets it covers.
GrantAuthorizes(grant, targets) ==
    /\ grant.fence = fence
    /\ now <= grant.expires
    /\ targets # {} /\ targets \subseteq grant.scope

AuthorizeContainment(id, grant, targets) ==
    /\ up /\ id \in LiveIds(findings)
    /\ LET f == findings[id]
           intent == [finding |-> id, plan |-> f.plan, targets |-> targets,
                      issued |-> now]
       IN  /\ f.assessment.fence = fence
           /\ f.plan \in plans
           /\ f.plan.targets # {} /\ f.plan.assessment.fence = fence
           /\ targets \subseteq f.plan.targets
           /\ GrantAuthorizes(grant, targets)
           /\ Cardinality(DOMAIN applications \cup {intent}) <= MaxIntents
           /\ applications' =
                  With(applications, intent, [acks |-> 0, effects |-> {}])
           /\ findings' =
                  UpdateState([findings EXCEPT ![id].intent = intent],
                              id, "Requested", "none")
           /\ Audit("Authorization", id, intent)
    /\ UNCHANGED <<up, now, fence, topology, policy, proven, held, minted,
                   plans, disk>>

\* The application's fence is the one its plan was authorized under.
FenceOf(intent) == intent.plan.assessment.fence

\* At tick 0 the code keeps any number of acknowledgements: AckLimit is then
\* only a bound of the model.
RecordAcknowledgement(intent) ==
    /\ up /\ intent \in DOMAIN applications
    /\ FenceOf(intent) = fence
    /\ applications[intent].acks < AckLimit
    /\ applications' = [applications EXCEPT ![intent].acks = @ + 1]
    /\ findings' = UpdateState(findings, intent.finding,
                               "AppliedUnverified", "none")
    /\ Audit("Acknowledgement", intent.finding, intent)
    /\ UNCHANGED <<up, now, fence, topology, policy, proven, held, minted,
                   plans, disk>>

\* Mutant: one observed effect stands for all targets.
FullyVerifiedByOne(intent, effects) == effects # {}

FullyVerified(intent, effects) == intent.targets \subseteq effects

RecordVerifiedEffect(intent, target, observed) ==
    /\ up /\ intent \in DOMAIN applications
    /\ FenceOf(intent) = fence
    /\ target \in intent.targets
    /\ observed = fence
    /\ target \notin applications[intent].effects
    /\ LET effects == applications[intent].effects \cup {target} IN
       /\ applications' = [applications EXCEPT ![intent].effects = effects]
       /\ findings' = UpdateState(findings, intent.finding,
                          IF FullyVerified(intent, effects)
                          THEN "Verified" ELSE "AppliedUnverified", "none")
    /\ Audit("VerifiedEffect", intent.finding, intent)
    /\ UNCHANGED <<up, now, fence, topology, policy, proven, held, minted,
                   plans, disk>>

-----------------------------------------------------------------------------
(* Stop and reopen *)

\* A crash, or Runtime::close: the owner makes no call after it.
Stop ==
    /\ up
    /\ Halt
    /\ UNCHANGED <<minted, disk>>

\* DurableStore::open_or_create mints the identity, Runtime::open the fence.
\* Mutant: epochs advanced without a restart are forgotten.
NextEpochOfBoots == disk.epoch + 1

NextEpoch == Largest({disk.epoch, disk.fence.epoch}) + 1

\* Mutant: the fence is restored as committed, whatever topology is installed.
ReopenedFenceAsCommitted ==
    [disk.fence EXCEPT !["boot"] = disk.boot + 1, !["epoch"] = NextEpoch]

ReopenedFence ==
    [disk.fence EXCEPT
        !["boot"] = disk.boot + 1,
        !["epoch"] = NextEpoch,
        !["topology"] = IF disk.topology # 0 THEN disk.topology ELSE 1]

Open ==
    /\ ~up /\ MayMove(ReopenedFence)
    /\ up' = TRUE
    /\ disk' = [disk EXCEPT !.boot = @ + 1, !.epoch = NextEpoch]
    /\ fence' = ReopenedFence
    /\ topology' = disk.topology /\ policy' = disk.policy
    /\ findings' = Restored(disk.findings)
    /\ UNCHANGED <<now, proven, held, minted, plans, applications, audit>>

-----------------------------------------------------------------------------

Generation == 1..MaxGeneration

\* Grants a caller may present: of this fence or of the one before a move.
Grant == [fence : {fence, FirstFence}, expires : 0..MaxTick,
          scope : SUBSET Resource]

Next ==
    \/ \E generation \in Generation :
          \/ AdvanceForwarding(generation)
          \/ AdvanceFabricEpoch(generation)
          \/ SetTopology(generation)
          \/ SetPolicy(generation)
    \/ AdvanceEpoch
    \/ \E S \in SUBSET Witness :
          SubmitObservation(S) \/ Tick(S) \/ Detect(S)
    \/ ClearEvidence
    \/ \E a \in held : PublishFinding(a) \/ PlanContainment(a)
    \/ \E id \in DOMAIN findings :
          \/ WithdrawFinding(id)
          \/ \E grant \in Grant, targets \in SUBSET Resource :
                AuthorizeContainment(id, grant, targets)
    \/ \E intent \in DOMAIN applications :
          \/ RecordAcknowledgement(intent)
          \/ \E target \in Resource, observed \in {fence, FirstFence} :
                RecordVerifiedEffect(intent, target, observed)
    \/ Stop
    \/ Open

Spec == Init /\ [][Next]_vars

-----------------------------------------------------------------------------
(* Properties *)

\* What is retained of the lineage never exceeds its bound.
LineageBounded == audit \in Seq(LineageRecord) /\ Len(audit) <= MaxLineage

\* Type invariant: every variable of the runtime has the shape the code gives it.
TypeOK ==
    /\ up \in BOOLEAN /\ now \in Nat
    /\ fence \in Fence
    /\ topology \in Nat /\ policy \in Nat
    /\ proven \subseteq Witness
    /\ held \subseteq Assessment
    /\ DOMAIN findings \subseteq FindingId
    /\ findings \in [DOMAIN findings -> Finding]
    /\ minted \in [DOMAIN minted -> FindingId]
    /\ plans \subseteq Plan
    /\ DOMAIN applications \subseteq Intent
    /\ applications \in [DOMAIN applications -> Application]
    /\ LineageBounded
    /\ disk \in Document

\* A finding that carries authority binds exactly the fence in force: whichever
\* component moves, by whichever entry point, no live finding is left behind
\* (README section 2; fence_stale in finding.cpp and its callers).
LiveFindingsCurrent ==
    \A id \in LiveIds(findings) : findings[id].assessment.fence = fence

\* A finding reads as verified only if some intent for it, issued under its own
\* fence, has an independently observed effect for every one of its targets;
\* acknowledgements never suffice (record_verified_effect, update_state).  Other
\* intents for it may have targets without one: each intent is judged alone.
VerifiedIsObserved ==
    \A id \in DOMAIN findings :
        findings[id].state = "Verified" =>
            \E i \in DOMAIN applications :
                /\ i.finding = id
                /\ FenceOf(i) = findings[id].assessment.fence
                /\ i.targets # {}
                /\ i.targets \subseteq applications[i].effects

\* Containment is only ever asked for the loop that was proven: every intent
\* under the fence in force names targets planned for the assessment of the
\* finding it was issued for, and a live finding's plan is its own assessment's.
ContainmentIsForTheProvenLoop ==
    /\ \A i \in DOMAIN applications :
          /\ i.targets # {}
          /\ i.targets \subseteq Cover[i.plan.assessment.witnesses]
          /\ i.finding \in LiveIds(findings) =>
                i.plan.assessment = findings[i.finding].assessment
    /\ \A id \in DOMAIN findings :
          findings[id].plan # NoPlan =>
             findings[id].plan.assessment = findings[id].assessment

\* The recorded cause of a fenced finding is true and stays true: the component
\* it names still differs from the fence in force (fence_cause, fence_boot).
CauseIsAccurate ==
    up => \A id \in DOMAIN findings :
        /\ IsTerminal(findings[id]) <=> findings[id].cause # "none"
        /\ findings[id].state \in {"Stale", "Fenced"} =>
              LET c == findings[id].cause
              IN  /\ c \in Component
                  /\ findings[id].assessment.fence[c] # fence[c]

Kept(log, r) == \E n \in DOMAIN log : log[n] = r
Full(log) == Len(log) = MaxLineage

Recommendation(id) == Entry("Recommendation", id, NoIntent)
Eligibility(id, p) == Entry("Eligibility", id, p)
Authorization(i) == Entry("Authorization", i.finding, i)
Effect(i) == Entry("VerifiedEffect", i.finding, i)

\* Nothing acts without a trace: every live finding, every plan it carries and
\* every intent issued has its lineage record before the next call is answered.
\* Retention is the exception, finding live or not: the record may be gone once
\* MaxLineage records were made since the move.  What is erased is the oldest,
\* so a trace loses its beginning and never its end: while the recommendation of
\* a finding is there, so are its plan and its intent, and while an intent is
\* there, so is its effect (append_lineage and its callers).
LineageCoversAuthority ==
    /\ \A id \in LiveIds(findings) :
          LET f == findings[id] IN
          /\ Kept(audit, Recommendation(id)) \/ Full(audit)
          /\ f.plan # NoPlan =>
                /\ Kept(audit, Eligibility(id, f.plan)) \/ Full(audit)
                /\ Kept(audit, Recommendation(id)) =>
                      Kept(audit, Eligibility(id, f.plan))
          /\ f.intent # NoIntent =>
                (Kept(audit, Recommendation(id)) =>
                    Kept(audit, Authorization(f.intent)))
    /\ \A i \in DOMAIN applications :
       FenceOf(i) = fence =>
          /\ Kept(audit, Authorization(i)) \/ Full(audit)
          /\ applications[i].effects # {} =>
                /\ Kept(audit, Effect(i)) \/ Full(audit)
                /\ Kept(audit, Authorization(i)) => Kept(audit, Effect(i))

\* The installed topology is the one the fence names, also after a stop between
\* the two writes of set_topology: Runtime::open takes the generation from the
\* definition and not from the committed fence.  A stop between the two writes
\* of set_policy leaves the fence behind the policy, and never ahead of it
\* (runtime.cpp:102-146, 335-410).
FenceNamesDefinitions ==
    up => /\ topology # 0 => fence.topology = topology
          /\ policy # 0 => fence.policy <= policy

\* A terminal finding stays terminal for as long as it is registered, through
\* every late answer and every restart; it can only become "Withdrawn" or,
\* restored, "Fenced" (update_state, Runtime::open).
TerminalIsFinal ==
    [][\A id \in DOMAIN findings \cap DOMAIN findings' :
          IsTerminal(findings[id]) => IsTerminal(findings'[id])]_vars

\* The runtime implements the contract of FencedAuthority.
Authority == INSTANCE FencedAuthority WITH
    current <- fence,
    live <- LiveIds(findings),
    contained <- {id \in DOMAIN findings : findings[id].state = "Verified"},
    running <- up

\* Every step is a step of the contract or changes nothing it speaks of: a move
\* of the fence revokes all authority at once, nothing else does, the fence
\* never goes back, and a restart runs under a boot and an epoch larger than
\* any the store's earlier incarnations ran under.
ImplementsAuthority == Authority!Contract
==============================================================================
