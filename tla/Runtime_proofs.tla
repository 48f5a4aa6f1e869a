--------------------------- MODULE Runtime_proofs ---------------------------
(***************************************************************************)
(* What the Runtime module guarantees for every choice of its constants:   *)
(* its types; that no finding carries authority under a fence that was     *)
(* superseded, provided the store commits every write; its other safety    *)
(* properties; and that it implements the contract of FencedAuthority.     *)
(***************************************************************************)
EXTENDS Runtime, SequenceTheorems, WellFoundedInduction, TLAPS

-----------------------------------------------------------------------------
(* Fence vectors *)

\* Two different fence vectors differ in the component that is reported as the
\* cause: fence_cause answers "none" for equal vectors only.
LEMMA FenceCauseOfMove ==
    ASSUME NEW f \in Fence, NEW g \in Fence, f # g
    PROVE  /\ FenceCause(f, g) \in Component
           /\ f[FenceCause(f, g)] # g[FenceCause(f, g)]
<1> DEFINE D == {i \in 1..6 : f[Precedence[i]] # g[Precedence[i]]}
<1>1. \A c \in Component : \E i \in 1..6 : c = Precedence[i]
  BY DEF Component, Precedence
<1>2. \E c \in Component : f[c] # g[c]
  BY DEF Fence
<1>3. \E i \in 1..6 : i \in D
  BY <1>1, <1>2
<1>4. \E i \in D : \A j \in 1..(i - 1) : j \notin D
  <2>1. CASE 1 \in D
    BY <2>1
  <2>2. CASE 1 \notin D /\ 2 \in D
    BY <2>2
  <2>3. CASE 1 \notin D /\ 2 \notin D /\ 3 \in D
    BY <2>3
  <2>4. CASE 1 \notin D /\ 2 \notin D /\ 3 \notin D /\ 4 \in D
    BY <2>4
  <2>5. CASE 1 \notin D /\ 2 \notin D /\ 3 \notin D /\ 4 \notin D /\ 5 \in D
    BY <2>5
  <2>6. CASE D \subseteq {6}
    BY <2>6, <1>3
  <2> QED BY <1>3, <2>1, <2>2, <2>3, <2>4, <2>5, <2>6
<1>5. \E i \in 1..6 : /\ f[Precedence[i]] # g[Precedence[i]]
                      /\ \A j \in 1..(i - 1) : f[Precedence[j]] = g[Precedence[j]]
  <2>1. PICK i \in D : \A j \in 1..(i - 1) : j \notin D
    BY <1>4
  <2> QED BY <2>1
<1>6. \A i \in 1..6 : Precedence[i] \in Component
  BY DEF Precedence, Component
<1> QED
  BY <1>5, <1>6 DEF FenceCause

\* An update of one component by a natural number is a fence vector again.
LEMMA FenceExcept ==
    ASSUME NEW f \in Fence, NEW c \in Component, NEW n \in Nat
    PROVE  [f EXCEPT ![c] = n] \in Fence
BY DEF Fence

-----------------------------------------------------------------------------
(* The registry *)

\* fence_stale returns findings.
LEMMA FenceStaleType ==
    ASSUME NEW fs, fs \in [DOMAIN fs -> Finding], NEW g \in Fence, now \in Nat
    PROVE  /\ DOMAIN FenceStale(fs, g) = DOMAIN fs
           /\ FenceStale(fs, g) \in [DOMAIN fs -> Finding]
<1> SUFFICES ASSUME NEW id \in DOMAIN fs
             PROVE  FenceStale(fs, g)[id] \in Finding
  BY DEF FenceStale
<1>1. fs[id] \in Finding /\ fs[id].assessment.fence \in Fence
  BY DEF Finding, Assessment
<1>2. FenceCause(fs[id].assessment.fence, g) \in Cause
  BY <1>1, FenceCauseOfMove DEF Cause, FenceCause
<1> DEFINE c == FenceCause(fs[id].assessment.fence, g)
<1>3. [fs[id] EXCEPT !.state = "Stale", !.cause = c, !.updated = now] \in Finding
  BY <1>1, <1>2 DEF Finding, Terminal
<1> QED
  BY <1>1, <1>3 DEF FenceStale

\* update_state returns findings.
LEMMA UpdateStateType ==
    ASSUME NEW fs, fs \in [DOMAIN fs -> Finding], now \in Nat,
           NEW id, NEW state \in Terminal \cup Live, NEW cause \in Cause
    PROVE  /\ DOMAIN UpdateState(fs, id, state, cause) = DOMAIN fs
           /\ UpdateState(fs, id, state, cause) \in [DOMAIN fs -> Finding]
<1> DEFINE g == [fs[id] EXCEPT !.state = state,
                               !.cause = IF cause = "none" THEN fs[id].cause ELSE cause,
                               !.updated = now]
<1>1. ASSUME id \in DOMAIN fs
      PROVE  g \in Finding
  <2>1. fs[id] \in Finding
    BY <1>1
  <2> QED BY <2>1 DEF Finding
<1>2. \/ UpdateState(fs, id, state, cause) = fs
      \/ id \in DOMAIN fs /\ UpdateState(fs, id, state, cause) = [fs EXCEPT ![id] = g]
  BY DEF UpdateState
<1> QED
  BY <1>1, <1>2

\* A registered finding is one of the findings.
LEMMA RegisterType ==
    ASSUME NEW fs, DOMAIN fs \subseteq FindingId, fs \in [DOMAIN fs -> Finding],
           NEW id \in FindingId, NEW f \in Finding
    PROVE  /\ DOMAIN Register(fs, id, f) \subseteq FindingId
           /\ Register(fs, id, f) \in [DOMAIN Register(fs, id, f) -> Finding]
BY DEF Register, With, Without

-----------------------------------------------------------------------------
(* The durable document *)

\* The stored findings stay a sequence of stored findings.
LEMMA UpsertedType ==
    ASSUME NEW s \in Seq(DurableFinding), NEW id \in FindingId, NEW f \in Finding
    PROVE  Upserted(s, id, f) \in Seq(DurableFinding)
<1> DEFINE entry == [id |-> id, body |-> f]
<1>1. entry \in DurableFinding
  BY DEF DurableFinding
<1>2. Append(s, entry) \in Seq(DurableFinding)
  BY <1>1
<1>3. Append(s, entry) # << >>
  BY <1>1, AppendProperties
<1>4. Tail(Append(s, entry)) \in Seq(DurableFinding)
  BY <1>2, <1>3
<1>5. [i \in DOMAIN s |-> IF s[i].id = id THEN entry ELSE s[i]]
         \in Seq(DurableFinding)
  <2>1. DOMAIN s = 1..Len(s) /\ Len(s) \in Nat
    OBVIOUS
  <2>2. [i \in DOMAIN s |-> IF s[i].id = id THEN entry ELSE s[i]]
           \in [1..Len(s) -> DurableFinding]
    BY <1>1, <2>1
  <2> QED BY <2>1, <2>2, SeqDef
<1> QED
  BY <1>2, <1>4, <1>5 DEF Upserted

\* So they do when one is withdrawn.
LEMMA WithdrawnType ==
    ASSUME NEW s \in Seq(DurableFinding), NEW id, now \in Nat
    PROVE  Withdrawn(s, id) \in Seq(DurableFinding)
<1>1. DOMAIN s = 1..Len(s) /\ Len(s) \in Nat
  OBVIOUS
<1>2. ASSUME NEW i \in DOMAIN s
      PROVE  Withdrawn(s, id)[i] \in DurableFinding
  <2> DEFINE body == [s[i].body EXCEPT !.state = "Withdrawn",
                                       !.cause = "withdrawal", !.updated = now]
  <2>1. s[i] \in DurableFinding
    BY <1>1
  <2>2. body \in Finding
    BY <2>1 DEF DurableFinding, Finding, Terminal, Cause
  <2>3. [s[i] EXCEPT !.body = body] \in DurableFinding
    BY <2>1, <2>2 DEF DurableFinding
  <2> QED BY <2>1, <2>3 DEF Withdrawn
<1>3. Withdrawn(s, id) \in [1..Len(s) -> DurableFinding]
  BY <1>1, <1>2 DEF Withdrawn
<1> QED BY <1>1, <1>3, SeqDef

\* What is restored is a registry of findings.
LEMMA RestoredType ==
    ASSUME NEW s \in Seq(DurableFinding), now \in Nat
    PROVE  /\ DOMAIN Restored(s) \subseteq FindingId
           /\ Restored(s) \in [DOMAIN Restored(s) -> Finding]
           /\ \A id \in DOMAIN Restored(s) : IsTerminal(Restored(s)[id])
<1>1. \A i \in DOMAIN s : s[i] \in DurableFinding
  OBVIOUS
<1>2. DOMAIN Restored(s) = {s[i].id : i \in DOMAIN s}
  BY DEF Restored
<1>3. ASSUME NEW id \in DOMAIN Restored(s)
      PROVE  Restored(s)[id] \in Finding /\ IsTerminal(Restored(s)[id])
  <2> DEFINE i == CHOOSE j \in DOMAIN s : s[j].id = id
  <2>1. i \in DOMAIN s
    BY <1>2
  <2>2. s[i].body \in Finding
    BY <1>1, <2>1 DEF DurableFinding
  <2>3. Restored(s)[id] = [s[i].body EXCEPT !.state = "Fenced", !.cause = "boot",
                                            !.updated = now]
    BY <1>2 DEF Restored
  <2> QED
    BY <2>2, <2>3 DEF Finding, IsTerminal, Terminal, Cause, Component
<1>4. Restored(s) \in [DOMAIN Restored(s) -> Finding]
  BY <1>3 DEF Restored
<1>5. DOMAIN Restored(s) \subseteq FindingId
  BY <1>1, <1>2 DEF DurableFinding
<1> QED
  BY <1>3, <1>4, <1>5

-----------------------------------------------------------------------------
(* Type correctness *)

\* Largest picks a member of every set of numbers that has a bound.
LEMMA LargestIsMember ==
    ASSUME NEW S \in SUBSET Nat, S # {},
           NEW bound \in Nat, \A n \in S : n <= bound
    PROVE  Largest(S) \in S
<1> DEFINE Bounds == {b \in Nat : \A n \in S : n <= b}
<1>1. PICK least \in Bounds : \A b \in Bounds : least <= b
  <2> DEFINE Less == {pair \in Nat \X Nat : pair[1] < pair[2]}
  <2>1. IsWellFoundedOn(Less, Nat)
    BY NatLessThanWellFounded DEF OpToRel
  <2>2. Bounds \subseteq Nat /\ Bounds # {}
    OBVIOUS
  <2> HIDE DEF Bounds
  <2>3. PICK b \in Bounds : \A c \in Bounds : <<c, b>> \notin Less
    BY <2>1, <2>2, WFMin
  <2>4. \A c \in Bounds : ~(c < b)
    BY <2>2, <2>3
  <2> QED BY <2>2, <2>4
<1>2. least \in S
  <2> SUFFICES ASSUME least \notin S PROVE FALSE
    OBVIOUS
  <2>1. \A n \in S : n \in Nat /\ n < least
    BY <1>1
  <2>2. least \in Nat /\ least # 0
    <3>1. least \in Nat
      BY <1>1
    <3>2. PICK n \in S : TRUE
      OBVIOUS
    <3> QED BY <2>1, <3>1, <3>2
  <2>3. \A n \in S : n <= least - 1
    BY <2>1, <2>2
  <2>4. least - 1 \in Bounds
    BY <2>2, <2>3
  <2> QED BY <2>2, <2>4, <1>1
<1> QED
  BY <1>1, <1>2 DEF Largest

\* A non-empty set of numbers has a least one.
LEMMA LeastExists ==
    ASSUME NEW S \in SUBSET Nat, S # {}
    PROVE  \E m \in S : \A n \in S : m <= n
<1> DEFINE Less == {pair \in Nat \X Nat : pair[1] < pair[2]}
<1>1. IsWellFoundedOn(Less, Nat)
  BY NatLessThanWellFounded DEF OpToRel
<1>2. PICK m \in S : \A n \in S : <<n, m>> \notin Less
  BY <1>1, WFMin
<1>3. \A n \in S : ~ (n < m)
  BY <1>2
<1> QED BY <1>3

\* A record leaves the lineage well typed and within its retention.
LEMMA AuditType ==
    ASSUME NEW log \in Seq(LineageRecord), Len(log) <= MaxLineage,
           NEW kind \in AuthorityKind, NEW id \in FindingId \cup {0},
           NEW subject \in Plan \cup Intent \cup {NoIntent},
           AuditAfter(log, kind, id, subject)
    PROVE  LineageBounded'
<1>1. Entry(kind, id, subject) \in LineageRecord
  BY DEF Entry, LineageRecord
<1>2. CASE audit' = log
  BY <1>2 DEF LineageBounded
<1>3. CASE audit' = Retained(log, Entry(kind, id, subject))
  <2>1. CASE Len(log) = MaxLineage
    <3>1. Tail(log) \in Seq(LineageRecord) /\ Len(Tail(log)) = MaxLineage - 1
      BY <2>1, LimitAssumption, HeadTailProperties
    <3> QED BY <1>1, <1>3, <2>1, <3>1, LimitAssumption, AppendProperties
            DEF Retained, LineageBounded
  <2>2. CASE Len(log) # MaxLineage
    BY <1>1, <1>3, <2>2, LimitAssumption, AppendProperties
       DEF Retained, LineageBounded
  <2> QED BY <2>1, <2>2
<1> QED BY <1>2, <1>3 DEF AuditAfter, LineageBounded

\* The empty lineage.
LEMMA NoRecord == << >> \in Seq(LineageRecord) /\ Len(<< >>) <= MaxLineage
BY LimitAssumption

\* A fresh store is well typed.
LEMMA TypeInit == Init => TypeOK
<1>1. FirstFence \in Fence
  BY DEF FirstFence, Fence
<1>2. << >> \in Seq(DurableFinding)
  OBVIOUS
<1> QED
  BY <1>1, <1>2, NoRecord DEF Init, TypeOK, LineageBounded, Document, Empty

\* A process that ended keeps no state whose shape could be wrong.
LEMMA HaltType ==
    ASSUME TypeOK, Halt, minted' = minted, disk' \in Document
    PROVE  TypeOK'
BY NoRecord DEF TypeOK, Halt, Empty, LineageBounded

\* The tail of every fence move.
LEMMA MoveFenceType ==
    ASSUME TypeOK, NEW f \in Fence, NEW d \in Document, NEW lineage,
           MoveFence(f, d, lineage), topology' \in Nat, policy' \in Nat
    PROVE  TypeOK'
<1>1. [d EXCEPT !.fence = f] \in Document
  BY DEF Document
<1>2. disk' \in Document
  BY <1>1 DEF MoveFence
<1>3. findings' = findings \/ findings' = FenceStale(findings, f)
  BY DEF MoveFence
<1>4. DOMAIN findings' \subseteq FindingId /\ findings' \in [DOMAIN findings' -> Finding]
  BY <1>3, FenceStaleType DEF TypeOK
<1>5. proven' \subseteq Witness
  BY DEF TypeOK, MoveFence, Reassessed
<1>6. LineageBounded'
  <2> DEFINE since == IF f = fence THEN audit ELSE << >>
  <2>1. since \in Seq(LineageRecord) /\ Len(since) <= MaxLineage
    BY NoRecord DEF TypeOK, LineageBounded
  <2>2. \/ audit' = audit \/ audit' = since
        \/ AuditAfter(since, "FenceMove", 0, NoIntent)
    BY DEF MoveFence
  <2> HIDE DEF since
  <2> QED BY <2>1, <2>2, AuditType DEF TypeOK, LineageBounded, AuthorityKind
<1> QED
  BY <1>2, <1>4, <1>5, <1>6 DEF TypeOK, MoveFence

\* The generation of a new finding follows that of one that is registered.
LEMMA NewFindingType ==
    ASSUME TypeOK, NEW a \in held
    PROVE  NewFinding(a) \in Finding
<1>1. a \in Assessment
  BY DEF TypeOK
<1>2. Content(a).generation \in Nat
  <2>1. CASE findings = Empty
    BY <2>1 DEF Content
  <2>2. CASE findings # Empty
    <3>1. DOMAIN findings # {}
      BY <2>2 DEF Empty, TypeOK
    <3>2. Largest(DOMAIN findings) \in DOMAIN findings
      BY <3>1, LargestIsMember, IdAssumption DEF TypeOK, FindingId
    <3> QED BY <2>2, <3>2 DEF Content, TypeOK, Finding
  <2> QED BY <2>1, <2>2
<1> QED
  BY <1>1, <1>2 DEF NewFinding, Finding, Live, Cause, TypeOK

\* publish_finding keeps the types.
LEMMA PublishType ==
    ASSUME TypeOK, NEW a \in held, PublishFinding(a)
    PROVE  TypeOK'
<1> DEFINE f == NewFinding(a)
<1>3. f \in Finding
  BY NewFindingType
<1>4. PICK id \in Identities(Content(a)) :
         /\ minted' = With(minted, Content(a), id)
         /\ disk' = [disk EXCEPT !.findings = Upserted(@, id, f)]
         /\ \/ /\ findings' = Register(findings, id, f)
               /\ Audit("Recommendation", id, NoIntent)
               /\ UNCHANGED <<up, now, fence, topology, policy, proven, held,
                              plans, applications>>
            \/ UNCHANGED <<up, now, fence, topology, policy, proven, held,
                           findings, plans, applications, audit>>
            \/ Halt
  BY DEF PublishFinding
<1>5. id \in FindingId
  BY <1>4 DEF Identities, TypeOK
<1>6. minted' \in [DOMAIN minted' -> FindingId]
  BY <1>4, <1>5 DEF With, TypeOK
<1>7. disk' \in Document
  <2>1. disk.findings \in Seq(DurableFinding)
    BY DEF TypeOK, Document
  <2>2. Upserted(disk.findings, id, f) \in Seq(DurableFinding)
    BY <2>1, <1>3, <1>5, UpsertedType
  <2> QED BY <2>2, <1>4 DEF TypeOK, Document
<1>8. CASE Halt
  BY <1>6, <1>7, <1>8, NoRecord DEF TypeOK, Halt, Empty, LineageBounded
<1>9. CASE ~Halt
  <2>1. /\ DOMAIN findings' \subseteq FindingId
        /\ findings' \in [DOMAIN findings' -> Finding]
    BY <1>3, <1>4, <1>5, <1>9, RegisterType DEF TypeOK
  <2>2. LineageBounded'
    BY <1>4, <1>5, <1>9, AuditType DEF TypeOK, LineageBounded, Audit, AuthorityKind
  <2> QED
    BY <2>1, <2>2, <1>4, <1>6, <1>7, <1>9 DEF TypeOK
<1> QED BY <1>8, <1>9

\* plan_containment keeps the types.
LEMMA PlanType ==
    ASSUME TypeOK, NEW a \in held, PlanContainment(a)
    PROVE  TypeOK'
<1> DEFINE p == [assessment |-> a, targets |-> Cover[a.witnesses]]
           first == Smallest(ContainedBy(a))
<1>1. p \in Plan
  BY CoverAssumption DEF TypeOK, Plan, Assessment
<1>2. plans' \subseteq Plan
  BY <1>1 DEF PlanContainment, TypeOK
<1>3. \/ findings' = findings
      \/ findings' = [findings EXCEPT ![first].plan = p, ![first].updated = now]
  BY DEF PlanContainment
<1>4. /\ DOMAIN findings' = DOMAIN findings
      /\ findings' \in [DOMAIN findings -> Finding]
  BY <1>1, <1>3 DEF TypeOK, Finding
<1>5. ContainedBy(a) # {} => first \in FindingId
  <2>1. ContainedBy(a) \subseteq DOMAIN findings /\ DOMAIN findings \subseteq FindingId
    BY DEF ContainedBy, LiveIds, TypeOK
  <2>2. ContainedBy(a) \in SUBSET Nat
    BY <2>1, IdAssumption DEF FindingId
  <2> QED BY <2>1, <2>2, LeastExists DEF Smallest
<1>6. \/ audit' = audit
      \/ ContainedBy(a) # {} /\ Audit("Eligibility", first, p)
  BY DEF PlanContainment
<1> HIDE DEF p, first
<1>7. LineageBounded'
  BY <1>1, <1>5, <1>6, AuditType DEF TypeOK, LineageBounded, Audit, AuthorityKind
<1> QED
  BY <1>2, <1>4, <1>7 DEF PlanContainment, TypeOK

\* withdraw_finding keeps the types.
LEMMA WithdrawType ==
    ASSUME TypeOK, NEW id \in DOMAIN findings, WithdrawFinding(id)
    PROVE  TypeOK'
<1>1. disk' \in Document
  <2>1. disk.findings \in Seq(DurableFinding)
    BY DEF TypeOK, Document
  <2>2. Withdrawn(disk.findings, id) \in Seq(DurableFinding)
    BY <2>1, WithdrawnType DEF TypeOK
  <2> QED BY <2>2 DEF WithdrawFinding, TypeOK, Document
<1>2. /\ DOMAIN findings' = DOMAIN findings
      /\ findings' \in [DOMAIN findings -> Finding]
  <2>1. \/ findings' = findings
        \/ findings' = UpdateState(findings, id, "Withdrawn", "withdrawal")
    BY DEF WithdrawFinding
  <2>2. "Withdrawn" \in Terminal \cup Live /\ "withdrawal" \in Cause
    BY DEF Terminal, Cause
  <2> QED BY <2>1, <2>2, UpdateStateType DEF TypeOK
<1>3. LineageBounded'
  <2>1. id \in FindingId /\ (audit' = audit \/ Audit("Withdrawal", id, NoIntent))
    BY DEF WithdrawFinding, TypeOK
  <2> QED BY <2>1, AuditType DEF TypeOK, LineageBounded, Audit, AuthorityKind
<1> QED
  BY <1>1, <1>2, <1>3 DEF WithdrawFinding, TypeOK

\* authorize_containment keeps the types.
LEMMA AuthorizeType ==
    ASSUME TypeOK, NEW id \in DOMAIN findings, NEW grant,
           NEW targets \in SUBSET Resource,
           AuthorizeContainment(id, grant, targets)
    PROVE  TypeOK'
<1> DEFINE f == findings[id]
           intent == [finding |-> id, plan |-> f.plan, targets |-> targets,
                      issued |-> now]
           asked == [findings EXCEPT ![id].intent = intent]
<1>1. intent \in Intent
  BY DEF AuthorizeContainment, TypeOK, Intent
<1>2. /\ DOMAIN applications' \subseteq Intent
      /\ applications' \in [DOMAIN applications' -> Application]
  BY <1>1 DEF AuthorizeContainment, TypeOK, With, Application
<1>3. asked \in [DOMAIN asked -> Finding] /\ DOMAIN asked = DOMAIN findings
  BY <1>1 DEF TypeOK, Finding
<1>4. findings' = UpdateState(asked, id, "Requested", "none")
  BY DEF AuthorizeContainment
<1> HIDE DEF asked
<1>5. /\ DOMAIN findings' = DOMAIN findings
      /\ findings' \in [DOMAIN findings -> Finding]
  <2>1. "Requested" \in Terminal \cup Live /\ "none" \in Cause
    BY DEF Live, Cause
  <2>2. now \in Nat
    BY DEF TypeOK
  <2> QED BY <1>3, <1>4, <2>1, <2>2, UpdateStateType
<1>6. LineageBounded'
  <2>1. id \in FindingId /\ Audit("Authorization", id, intent)
    BY DEF AuthorizeContainment, TypeOK
  <2> QED BY <1>1, <2>1, AuditType DEF TypeOK, LineageBounded, Audit, AuthorityKind
<1> QED
  BY <1>2, <1>5, <1>6 DEF AuthorizeContainment, TypeOK

\* record_acknowledgement keeps the types.
LEMMA AcknowledgementType ==
    ASSUME TypeOK, NEW intent \in DOMAIN applications,
           RecordAcknowledgement(intent)
    PROVE  TypeOK'
<1>1. /\ DOMAIN applications' \subseteq Intent
      /\ applications' \in [DOMAIN applications' -> Application]
  BY DEF RecordAcknowledgement, TypeOK, Application
<1>2. /\ DOMAIN findings' = DOMAIN findings
      /\ findings' \in [DOMAIN findings -> Finding]
  BY UpdateStateType DEF RecordAcknowledgement, TypeOK, Live, Cause
<1>4. LineageBounded'
  <2>1. /\ intent \in Intent /\ intent.finding \in FindingId
        /\ Audit("Acknowledgement", intent.finding, intent)
    BY DEF RecordAcknowledgement, TypeOK, Intent
  <2> QED BY <2>1, AuditType DEF TypeOK, LineageBounded, Audit, AuthorityKind
<1> QED
  BY <1>1, <1>2, <1>4 DEF RecordAcknowledgement, TypeOK

\* record_verified_effect keeps the types.
LEMMA EffectType ==
    ASSUME TypeOK, NEW intent \in DOMAIN applications,
           NEW target \in Resource, NEW observed,
           RecordVerifiedEffect(intent, target, observed)
    PROVE  TypeOK'
<1>1. /\ DOMAIN applications' \subseteq Intent
      /\ applications' \in [DOMAIN applications' -> Application]
  BY DEF RecordVerifiedEffect, TypeOK, Application
<1>2. PICK state \in {"Verified", "AppliedUnverified"} :
         findings' = UpdateState(findings, intent.finding, state, "none")
  BY DEF RecordVerifiedEffect
<1>3. /\ DOMAIN findings' = DOMAIN findings
      /\ findings' \in [DOMAIN findings -> Finding]
  BY <1>2, UpdateStateType DEF TypeOK, Live, Cause
<1>4. LineageBounded'
  <2>1. /\ intent \in Intent /\ intent.finding \in FindingId
        /\ Audit("VerifiedEffect", intent.finding, intent)
    BY DEF RecordVerifiedEffect, TypeOK, Intent
  <2> QED BY <2>1, AuditType DEF TypeOK, LineageBounded, Audit, AuthorityKind
<1> QED
  BY <1>1, <1>3, <1>4 DEF RecordVerifiedEffect, TypeOK

\* A start keeps the types.
LEMMA OpenType ==
    ASSUME TypeOK, Open
    PROVE  TypeOK'
<1>1. NextEpoch \in Nat
  <2> DEFINE S == {disk.epoch, disk.fence.epoch}
  <2>1. disk.epoch \in Nat /\ disk.fence.epoch \in Nat
    BY DEF TypeOK, Document, Fence, Component
  <2>2. \E bound \in Nat : \A n \in S : n <= bound
    BY <2>1, disk.epoch + disk.fence.epoch \in Nat
  <2>3. Largest(S) \in S
    BY <2>1, <2>2, LargestIsMember
  <2> QED BY <2>1, <2>3 DEF NextEpoch
<1>2. ReopenedFence \in Fence
  <2>1. /\ disk.fence \in Fence
        /\ disk.boot + 1 \in Nat
        /\ (IF disk.topology # 0 THEN disk.topology ELSE 1) \in Nat
    BY DEF TypeOK, Document
  <2> QED BY <1>1, <2>1 DEF ReopenedFence, Fence
<1>3. disk' \in Document
  <2>1. disk \in Document /\ disk.boot + 1 \in Nat
    BY DEF TypeOK, Document
  <2>2. disk' = [disk EXCEPT !.boot = disk.boot + 1, !.epoch = NextEpoch]
    BY DEF Open
  <2> QED BY <1>1, <2>1, <2>2 DEF Document
<1>4. /\ DOMAIN findings' \subseteq FindingId
      /\ findings' \in [DOMAIN findings' -> Finding]
  BY RestoredType DEF Open, TypeOK, Document, LineageBounded
<1> QED
  BY <1>2, <1>3, <1>4 DEF Open, TypeOK, Document, LineageBounded

\* The type invariant is inductive.
LEMMA TypeNext == TypeOK /\ [Next]_vars => TypeOK'
<1> SUFFICES ASSUME TypeOK, [Next]_vars PROVE TypeOK'
  OBVIOUS
<1>1. \A g \in Generation : g \in Nat
  BY LimitAssumption DEF Generation
<1>2. disk \in Document /\ fence \in Fence /\ topology \in Nat /\ policy \in Nat
  BY DEF TypeOK
<1>3. ASSUME NEW g \in Generation, AdvanceForwarding(g) PROVE TypeOK'
  <2>1. [fence EXCEPT !["forwarding"] = g] \in Fence
    BY <1>1, <1>2, FenceExcept DEF Component
  <2> QED BY <1>2, <1>3, <2>1, MoveFenceType DEF AdvanceForwarding
<1>4. ASSUME NEW g \in Generation, AdvanceFabricEpoch(g) PROVE TypeOK'
  <2>1. [fence EXCEPT !["fabric"] = g] \in Fence
    BY <1>1, <1>2, FenceExcept DEF Component
  <2> QED BY <1>2, <1>4, <2>1, MoveFenceType DEF AdvanceFabricEpoch
<1>5. ASSUME AdvanceEpoch PROVE TypeOK'
  <2>1. fence["epoch"] + 1 \in Nat
    BY <1>2 DEF Fence, Component
  <2>2. [fence EXCEPT !["epoch"] = fence["epoch"] + 1] \in Fence
    BY <1>2, <2>1, FenceExcept DEF Component
  <2> QED BY <1>2, <1>5, <2>2, MoveFenceType DEF AdvanceEpoch
<1>6. ASSUME NEW g \in Generation, SetTopology(g) PROVE TypeOK'
  <2> DEFINE d == [disk EXCEPT !.topology = g]
  <2>1. d \in Document /\ [fence EXCEPT !["topology"] = g] \in Fence
    BY <1>1, <1>2, FenceExcept DEF Document, Component
  <2>2. CASE topology' = g /\ policy' = policy
             /\ MoveFence([fence EXCEPT !["topology"] = g], d, TRUE)
    BY <1>1, <1>2, <2>1, <2>2, MoveFenceType
  <2>3. CASE disk' = d /\ Halt /\ minted' = minted
    BY <2>1, <2>3, HaltType
  <2> QED BY <1>6, <2>2, <2>3 DEF SetTopology
<1>7. ASSUME NEW g \in Generation, SetPolicy(g) PROVE TypeOK'
  <2> DEFINE d == [disk EXCEPT !.policy = g]
  <2>1. d \in Document /\ [fence EXCEPT !["policy"] = g] \in Fence
    BY <1>1, <1>2, FenceExcept DEF Document, Component
  <2>2. CASE policy' = g /\ topology' = topology
             /\ MoveFence([fence EXCEPT !["policy"] = g], d, FALSE)
    BY <1>1, <1>2, <2>1, <2>2, MoveFenceType
  <2>3. CASE disk' = d /\ Halt /\ minted' = minted
    BY <2>1, <2>3, HaltType
  <2> QED BY <1>7, <2>2, <2>3 DEF SetPolicy
<1>8. ASSUME NEW S \in SUBSET Witness,
             SubmitObservation(S) \/ ClearEvidence \/ Tick(S)
      PROVE  TypeOK'
  BY <1>8 DEF SubmitObservation, ClearEvidence, Tick, TypeOK, LineageBounded
<1>9. ASSUME NEW S \in SUBSET Witness, Detect(S) PROVE TypeOK'
  <2>1. held' \subseteq Assessment
    BY <1>2, <1>9 DEF Detect, TypeOK, Assessment
  <2> QED BY <1>9, <2>1 DEF Detect, TypeOK, LineageBounded
<1>10. ASSUME Stop PROVE TypeOK'
  BY <1>2, <1>10, HaltType DEF Stop
<1>11. CASE UNCHANGED vars
  BY <1>11 DEF vars, TypeOK, LineageBounded
<1> QED
  BY <1>3, <1>4, <1>5, <1>6, <1>7, <1>8, <1>9, <1>10, <1>11, PublishType,
     PlanType, WithdrawType, AuthorizeType, AcknowledgementType, EffectType,
     OpenType DEF Next

\* Every variable of the runtime keeps its shape: in particular every finding
\* binds a complete fence vector, in memory and on disk, whatever calls, stops
\* and refused writes come in which order.
THEOREM TypeCorrect == Spec => []TypeOK
<1>1. Init => TypeOK
  BY TypeInit
<1>2. TypeOK /\ [Next]_vars => TypeOK'
  BY TypeNext
<1> QED
  BY <1>1, <1>2, PTL DEF Spec

-----------------------------------------------------------------------------
(* Authority is current *)

\* update_state gives no finding back its authority and rebinds none.
LEMMA UpdateStateKeepsDead ==
    ASSUME NEW fs, fs \in [DOMAIN fs -> Finding], NEW id, NEW cause,
           NEW state \in Live \cup {"Withdrawn"}
    PROVE  /\ LiveIds(UpdateState(fs, id, state, cause)) \subseteq LiveIds(fs)
           /\ \A i \in DOMAIN fs : UpdateState(fs, id, state, cause)[i].assessment
                                      = fs[i].assessment
<1> DEFINE g == [fs[id] EXCEPT
                    !.state = state,
                    !.cause = IF cause = "none" THEN fs[id].cause ELSE cause,
                    !.updated = now]
<1>1. CASE UpdateState(fs, id, state, cause) = fs
  BY <1>1
<1>2. CASE /\ id \in DOMAIN fs /\ (IsTerminal(fs[id]) => state = "Withdrawn")
           /\ UpdateState(fs, id, state, cause) = [fs EXCEPT ![id] = g]
  <2>1. fs[id] \in Finding
    BY <1>2
  <2>2. g.assessment = fs[id].assessment /\ g.state = state
    BY <2>1 DEF Finding
  <2>3. IsTerminal(fs[id]) => IsTerminal(g)
    BY <1>2, <2>2 DEF IsTerminal, Terminal
  <2> HIDE DEF g
  <2> QED BY <1>2, <2>2, <2>3 DEF LiveIds
<1> QED
  BY <1>1, <1>2 DEF UpdateState

\* Nothing a fence move leaves alive binds another fence.
LEMMA MoveFenceCurrent ==
    ASSUME TypeOK, ~StoreMayFail, NEW f \in Fence, NEW d, NEW lineage,
           MoveFence(f, d, lineage)
    PROVE  LiveFindingsCurrent'
<1>1. fence' = f /\ findings' = FenceStale(findings, f)
  BY DEF MoveFence
<1> SUFFICES ASSUME NEW id \in LiveIds(findings')
             PROVE  findings'[id].assessment.fence = f
  BY <1>1 DEF LiveFindingsCurrent
<1>2. id \in DOMAIN findings /\ ~IsTerminal(findings'[id])
  BY <1>1 DEF LiveIds, FenceStale
<1>3. findings[id] \in Finding /\ findings[id].assessment.fence \in Fence
  BY <1>2 DEF TypeOK, Finding, Assessment
<1> DEFINE c == FenceCause(findings[id].assessment.fence, f)
           g == [findings[id] EXCEPT !.state = "Stale", !.cause = c,
                                     !.updated = now]
<1>4. findings'[id] = IF IsTerminal(findings[id]) \/ c = "none"
                      THEN findings[id] ELSE g
  BY <1>1, <1>2 DEF FenceStale
<1>5. IsTerminal(g)
  BY <1>3 DEF IsTerminal, Terminal, Finding
<1>6. c = "none" /\ findings'[id] = findings[id]
  BY <1>2, <1>4, <1>5
<1> QED
  BY <1>3, <1>6, FenceCauseOfMove DEF Component

\* A published finding binds the fence in force.
LEMMA PublishCurrent ==
    ASSUME TypeOK, LiveFindingsCurrent, NEW a \in held, PublishFinding(a)
    PROVE  LiveFindingsCurrent'
<1> DEFINE f == NewFinding(a)
<1>1. f.assessment.fence = fence
  BY DEF PublishFinding, Publishable, NewFinding
<1>2. PICK id \in Identities(Content(a)) :
         \/ findings' = Register(findings, id, f) /\ fence' = fence
         \/ findings' = findings /\ fence' = fence
         \/ Halt
  BY DEF PublishFinding
<1> HIDE DEF f
<1>3. CASE findings' = Register(findings, id, f) /\ fence' = fence
  <2>1. \A i \in DOMAIN findings' :
           \/ i = id /\ findings'[i] = f
           \/ i \in DOMAIN findings /\ findings'[i] = findings[i]
    BY <1>3 DEF Register, With, Without
  <2> QED BY <1>1, <1>3, <2>1 DEF LiveFindingsCurrent, LiveIds
<1>4. CASE findings' = findings /\ fence' = fence
  BY <1>4 DEF LiveFindingsCurrent
<1>5. CASE Halt
  BY <1>5 DEF LiveFindingsCurrent, LiveIds, Halt, Empty
<1> QED BY <1>2, <1>3, <1>4, <1>5

\* A plan changes no finding's fence.
LEMMA PlanCurrent ==
    ASSUME TypeOK, LiveFindingsCurrent, NEW a \in held, PlanContainment(a)
    PROVE  LiveFindingsCurrent'
<1> DEFINE p == [assessment |-> a, targets |-> Cover[a.witnesses]]
           first == Smallest(ContainedBy(a))
<1>1. fence' = fence
  BY DEF PlanContainment
<1>2. \/ findings' = findings
      \/ findings' = [findings EXCEPT ![first].plan = p, ![first].updated = now]
  BY DEF PlanContainment
<1>3. \A id \in DOMAIN findings :
         /\ findings'[id].state = findings[id].state
         /\ findings'[id].assessment = findings[id].assessment
  BY <1>2 DEF TypeOK, Finding
<1>4. DOMAIN findings' = DOMAIN findings
  BY <1>2 DEF TypeOK
<1> QED
  BY <1>1, <1>3, <1>4 DEF LiveFindingsCurrent, LiveIds, IsTerminal

\* A finding whose state alone was updated stays as current as it was.
LEMMA UpdateStateCurrent ==
    ASSUME TypeOK, LiveFindingsCurrent, fence' = fence,
           NEW fs, fs \in [DOMAIN fs -> Finding], NEW id, NEW cause,
           NEW state \in Live \cup {"Withdrawn"},
           LiveIds(fs) \subseteq LiveIds(findings),
           \A i \in DOMAIN fs : fs[i].assessment = findings[i].assessment,
           findings' = UpdateState(fs, id, state, cause)
    PROVE  LiveFindingsCurrent'
<1>1. LiveIds(findings') \subseteq LiveIds(fs)
  BY UpdateStateKeepsDead
<1>2. \A i \in LiveIds(fs) : findings'[i].assessment = findings[i].assessment
  BY UpdateStateKeepsDead DEF LiveIds
<1> QED
  BY <1>1, <1>2 DEF LiveFindingsCurrent

\* An intent changes no finding's fence.
LEMMA AuthorizeCurrent ==
    ASSUME TypeOK, LiveFindingsCurrent, NEW id \in DOMAIN findings, NEW grant,
           NEW targets \in SUBSET Resource,
           AuthorizeContainment(id, grant, targets)
    PROVE  LiveFindingsCurrent'
<1> DEFINE intent == [finding |-> id, plan |-> findings[id].plan,
                      targets |-> targets, issued |-> now]
           asked == [findings EXCEPT ![id].intent = intent]
<1>1. intent \in Intent
  BY DEF AuthorizeContainment, TypeOK, Intent
<1>2. asked \in [DOMAIN asked -> Finding] /\ DOMAIN asked = DOMAIN findings
  BY <1>1 DEF TypeOK, Finding
<1>3. \A i \in DOMAIN asked : /\ asked[i].assessment = findings[i].assessment
                              /\ asked[i].state = findings[i].state
  BY DEF TypeOK, Finding
<1>4. findings' = UpdateState(asked, id, "Requested", "none") /\ fence' = fence
  BY DEF AuthorizeContainment
<1>5. LiveIds(asked) \subseteq LiveIds(findings)
  BY <1>2, <1>3 DEF LiveIds, IsTerminal
<1> HIDE DEF asked
<1> QED
  BY <1>2, <1>3, <1>4, <1>5, "Requested" \in Live, UpdateStateCurrent DEF Live

\* The inductive step: with a store that commits every write no step leaves a
\* live finding behind the fence.
LEMMA CurrentNext ==
    ASSUME ~StoreMayFail
    PROVE  TypeOK /\ LiveFindingsCurrent /\ [Next]_vars => LiveFindingsCurrent'
<1> SUFFICES ASSUME TypeOK, LiveFindingsCurrent, [Next]_vars
             PROVE  LiveFindingsCurrent'
  OBVIOUS
<1>1. fence \in Fence /\ \A g \in Generation : g \in Nat
  BY LimitAssumption DEF TypeOK, Generation
<1>2. ASSUME NEW g \in Generation, NEW c \in Component, NEW d, NEW lineage,
             MoveFence([fence EXCEPT ![c] = g], d, lineage)
      PROVE  LiveFindingsCurrent'
  BY <1>1, <1>2, FenceExcept, MoveFenceCurrent
<1>3. ASSUME Halt PROVE LiveFindingsCurrent'
  BY <1>3 DEF LiveFindingsCurrent, LiveIds, Halt, Empty
<1>4. ASSUME NEW g \in Generation,
             AdvanceForwarding(g) \/ AdvanceFabricEpoch(g)
      PROVE  LiveFindingsCurrent'
  BY <1>2, <1>4, "forwarding" \in Component, "fabric" \in Component
     DEF AdvanceForwarding, AdvanceFabricEpoch, Component
<1>5. ASSUME NEW g \in Generation, SetTopology(g) \/ SetPolicy(g)
      PROVE  LiveFindingsCurrent'
  BY <1>2, <1>3, <1>5, "topology" \in Component, "policy" \in Component
     DEF SetTopology, SetPolicy, Component
<1>6. ASSUME AdvanceEpoch PROVE LiveFindingsCurrent'
  <2>1. "epoch" \in Component /\ fence["epoch"] + 1 \in Nat
    BY <1>1 DEF Fence, Component
  <2>2. [fence EXCEPT !["epoch"] = fence["epoch"] + 1] \in Fence
    BY <1>1, <2>1, FenceExcept
  <2> QED BY <1>6, <2>2, MoveFenceCurrent DEF AdvanceEpoch
<1>7. ASSUME UNCHANGED <<findings, fence>> PROVE LiveFindingsCurrent'
  BY <1>7 DEF LiveFindingsCurrent
<1>8. ASSUME NEW S, SubmitObservation(S) \/ ClearEvidence \/ Tick(S) \/ Detect(S)
      PROVE  LiveFindingsCurrent'
  BY <1>7, <1>8 DEF SubmitObservation, ClearEvidence, Tick, Detect
<1>9. ASSUME NEW id \in DOMAIN findings, WithdrawFinding(id)
      PROVE  LiveFindingsCurrent'
  <2>1. CASE findings' = findings
    BY <1>7, <1>9, <2>1 DEF WithdrawFinding
  <2>2. CASE findings' = UpdateState(findings, id, "Withdrawn", "withdrawal")
    BY <1>9, <2>2, UpdateStateCurrent DEF WithdrawFinding, TypeOK
  <2> QED BY <1>9, <2>1, <2>2 DEF WithdrawFinding
<1>10. ASSUME NEW intent \in DOMAIN applications, RecordAcknowledgement(intent)
       PROVE  LiveFindingsCurrent'
  <2>1. /\ findings' = UpdateState(findings, intent.finding,
                                   "AppliedUnverified", "none")
        /\ fence' = fence
    BY <1>10 DEF RecordAcknowledgement
  <2> QED BY <2>1, UpdateStateCurrent DEF TypeOK, Live
<1>11. ASSUME NEW intent \in DOMAIN applications, NEW target, NEW observed,
              RecordVerifiedEffect(intent, target, observed)
       PROVE  LiveFindingsCurrent'
  <2>1. /\ \/ findings' = UpdateState(findings, intent.finding,
                                      "AppliedUnverified", "none")
           \/ findings' = UpdateState(findings, intent.finding,
                                      "Verified", "none")
        /\ fence' = fence
    BY <1>11 DEF RecordVerifiedEffect
  <2> QED BY <2>1, UpdateStateCurrent DEF TypeOK, Live
<1>12. ASSUME Open PROVE LiveFindingsCurrent'
  BY <1>12, RestoredType DEF Open, TypeOK, Document, LiveFindingsCurrent, LiveIds
<1>13. CASE Stop
  BY <1>3, <1>13 DEF Stop
<1>14. CASE UNCHANGED vars
  BY <1>7, <1>14 DEF vars
<1> QED
  BY <1>4, <1>5, <1>6, <1>8, <1>9, <1>10, <1>11, <1>12, <1>13, <1>14,
     PublishCurrent, PlanCurrent, AuthorizeCurrent DEF Next

\* Whichever component of the fence moves, by whichever entry point, and
\* however often the process stops and reopens: when the store commits every
\* write, a finding that still carries authority binds the fence in force.
THEOREM AuthorityIsCurrent == ~StoreMayFail => (Spec => []LiveFindingsCurrent)
<1> SUFFICES ASSUME ~StoreMayFail PROVE Spec => []LiveFindingsCurrent
  OBVIOUS
<1>1. Init => LiveFindingsCurrent
  BY DEF Init, LiveFindingsCurrent, LiveIds, Empty
<1>2. TypeOK /\ LiveFindingsCurrent /\ [Next]_vars => LiveFindingsCurrent'
  BY CurrentNext
<1> QED
  BY <1>1, <1>2, TypeCorrect, PTL DEF Spec

-----------------------------------------------------------------------------
(* The parts of the inductive invariants *)

\* What the fence, the definitions and the document know of each other.
FenceKnown ==
    /\ fence.boot = disk.boot
    /\ IF disk.topology = 0 THEN fence.topology = 1
       ELSE fence.topology <= disk.topology
    /\ IF disk.policy = 0 THEN fence.policy = 1 /\ disk.fence.policy = 1
       ELSE fence.policy <= disk.policy /\ disk.fence.policy <= disk.policy
    /\ up => /\ topology = disk.topology /\ policy = disk.policy
             /\ topology # 0 => fence.topology = topology

-----------------------------------------------------------------------------
(* Kinds of steps *)

\* The document of a definition that is written but not in force yet.
SameStore(d) ==
    /\ d \in Document
    /\ d.findings = disk.findings /\ d.fence = disk.fence
    /\ d.boot = disk.boot /\ d.epoch = disk.epoch

\* A fence move: forward, and not in the boot.
FenceStep(f, d, lineage) ==
    /\ up /\ f \in Fence /\ Dominates(f, fence) /\ f.boot = fence.boot
    /\ SameStore(d)
    /\ MoveFence(f, d, lineage)

\* A stop after the first write of a fence move.
Cut == up /\ Halt /\ UNCHANGED minted /\ SameStore(disk')

FenceMove ==
    \/ AdvanceEpoch
    \/ \E g \in Generation :
          \/ AdvanceForwarding(g) \/ AdvanceFabricEpoch(g)
          \/ SetTopology(g) \/ SetPolicy(g)

\* What no other step than a fence move and a start changes.
SameOrigin ==
    /\ UNCHANGED fence
    /\ disk'.topology = disk.topology /\ disk'.policy = disk.policy
    /\ disk'.fence = disk.fence
    /\ disk'.boot = disk.boot /\ disk'.epoch = disk.epoch
    /\ up' => up /\ UNCHANGED <<topology, policy>>

OtherCall ==
    \/ \E S \in SUBSET Witness :
          SubmitObservation(S) \/ Tick(S) \/ Detect(S)
    \/ ClearEvidence
    \/ \E a \in held : PublishFinding(a) \/ PlanContainment(a)
    \/ \E id \in DOMAIN findings :
          \/ WithdrawFinding(id)
          \/ \E grant \in Grant, targets \in SUBSET Resource :
                AuthorizeContainment(id, grant, targets)
    \/ \E intent \in DOMAIN applications :
          \/ RecordAcknowledgement(intent)
          \/ \E target \in Resource, observed \in {fence, FirstFence} :
                RecordVerifiedEffect(intent, target, observed)
    \/ Stop

\* Every step moves the fence, is some other call, or is a start.
LEMMA KindsOfSteps == Next => FenceMove \/ OtherCall \/ Open
BY DEF Next, FenceMove, OtherCall

\* One component may take any larger number.
LEMMA RaiseDominates ==
    ASSUME NEW f \in Fence, NEW c \in Component, NEW n \in Nat, f[c] <= n
    PROVE  Dominates([f EXCEPT ![c] = n], f)
<1>1. \A k \in Component : f[k] \in Nat
  BY DEF Fence
<1> QED
  BY <1>1 DEF Dominates, Fence

\* The order of fences is reflexive and transitive.
LEMMA DominatesIsOrder ==
    ASSUME NEW f \in Fence, NEW g \in Fence, NEW h \in Fence
    PROVE  /\ Dominates(f, f)
           /\ Dominates(h, g) /\ Dominates(g, f) => Dominates(h, f)
<1>1. \A k \in Component : f[k] \in Nat /\ g[k] \in Nat /\ h[k] \in Nat
  BY DEF Fence
<1> QED
  BY <1>1 DEF Dominates

\* Each entry point that moves a component is one raising step, or is cut short.
LEMMA FenceMoveSteps ==
    ASSUME TypeOK, FenceKnown, FenceMove
    PROVE  Cut \/ \E f, d, lineage : FenceStep(f, d, lineage)
<1>1. disk \in Document /\ fence \in Fence /\ topology \in Nat /\ policy \in Nat
  BY DEF TypeOK
<1>2. \A g \in Generation : g \in Nat /\ g >= 1
  BY LimitAssumption DEF Generation
<1>3. \A c \in Component : fence[c] \in Nat
  BY <1>1 DEF Fence
<1>4. SameStore(disk)
  BY <1>1 DEF SameStore
<1>5. ASSUME NEW c \in Component \ {"boot"}, NEW n \in Nat, fence[c] <= n, up,
             NEW d, SameStore(d), NEW lineage,
             MoveFence([fence EXCEPT ![c] = n], d, lineage)
      PROVE  \E f, e, l : FenceStep(f, e, l)
  <2> DEFINE f == [fence EXCEPT ![c] = n]
  <2>1. f \in Fence /\ Dominates(f, fence)
    BY <1>1, <1>5, FenceExcept, RaiseDominates
  <2>2. f["boot"] = fence["boot"]
    BY <1>1 DEF Fence
  <2> QED BY <1>5, <2>1, <2>2 DEF FenceStep
<1>6. ASSUME AdvanceEpoch PROVE \E f, d, l : FenceStep(f, d, l)
  <2> DEFINE n == fence["epoch"] + 1
  <2>1. "epoch" \in Component \ {"boot"} /\ n \in Nat /\ fence["epoch"] <= n
    BY <1>3 DEF Component
  <2>2. up /\ MoveFence([fence EXCEPT !["epoch"] = n], disk, TRUE)
    BY <1>6 DEF AdvanceEpoch
  <2> HIDE DEF n
  <2> QED BY <1>4, <1>5, <2>1, <2>2
<1>7. ASSUME NEW g \in Generation, AdvanceForwarding(g)
      PROVE  \E f, d, l : FenceStep(f, d, l)
  <2>1. "forwarding" \in Component \ {"boot"} /\ fence["forwarding"] <= g
    BY <1>2, <1>3, <1>7 DEF Component, AdvanceForwarding
  <2> QED BY <1>2, <1>4, <1>5, <1>7, <2>1 DEF AdvanceForwarding
<1>8. ASSUME NEW g \in Generation, AdvanceFabricEpoch(g)
      PROVE  \E f, d, l : FenceStep(f, d, l)
  <2>1. "fabric" \in Component \ {"boot"} /\ fence["fabric"] <= g
    BY <1>2, <1>3, <1>8 DEF Component, AdvanceFabricEpoch
  <2> QED BY <1>2, <1>4, <1>5, <1>8, <2>1 DEF AdvanceFabricEpoch
<1>9. ASSUME NEW g \in Generation, SetTopology(g)
      PROVE  Cut \/ \E f, d, l : FenceStep(f, d, l)
  <2> DEFINE d == [disk EXCEPT !.topology = g]
  <2>1. SameStore(d)
    BY <1>1, <1>2 DEF SameStore, Document
  <2>2. "topology" \in Component \ {"boot"} /\ fence["topology"] <= g
    BY <1>1, <1>2, <1>3, <1>9 DEF Component, SetTopology, FenceKnown
  <2>3. CASE MoveFence([fence EXCEPT !["topology"] = g], d, TRUE)
    BY <1>2, <1>5, <1>9, <2>1, <2>2, <2>3 DEF SetTopology
  <2>4. CASE disk' = d /\ Halt /\ UNCHANGED minted
    BY <1>9, <2>1, <2>4 DEF SetTopology, Cut
  <2> QED BY <1>9, <2>3, <2>4 DEF SetTopology
<1>10. ASSUME NEW g \in Generation, SetPolicy(g)
       PROVE  Cut \/ \E f, d, l : FenceStep(f, d, l)
  <2> DEFINE d == [disk EXCEPT !.policy = g]
  <2>1. SameStore(d)
    BY <1>1, <1>2 DEF SameStore, Document
  <2>2. "policy" \in Component \ {"boot"} /\ fence["policy"] <= g
    BY <1>1, <1>2, <1>3, <1>10 DEF Component, SetPolicy, FenceKnown
  <2>3. CASE MoveFence([fence EXCEPT !["policy"] = g], d, FALSE)
    BY <1>2, <1>5, <1>10, <2>1, <2>2, <2>3 DEF SetPolicy
  <2>4. CASE disk' = d /\ Halt /\ UNCHANGED minted
    BY <1>10, <2>1, <2>4 DEF SetPolicy, Cut
  <2> QED BY <1>10, <2>3, <2>4 DEF SetPolicy
<1> QED
  BY <1>6, <1>7, <1>8, <1>9, <1>10 DEF FenceMove

\* No other call touches the fence, the definitions or the incarnation.
LEMMA OtherCallSteps ==
    ASSUME TypeOK, OtherCall \/ UNCHANGED vars
    PROVE  SameOrigin
<1>1. disk \in Document
  BY DEF TypeOK
<1>2. ASSUME NEW S, SubmitObservation(S) \/ Tick(S) \/ Detect(S) \/ ClearEvidence
      PROVE  SameOrigin
  BY <1>2 DEF SubmitObservation, Tick, Detect, ClearEvidence, SameOrigin
<1>3. ASSUME NEW a \in held, PublishFinding(a) PROVE SameOrigin
  <2>1. \E fs : disk' = [disk EXCEPT !.findings = fs]
    BY <1>3 DEF PublishFinding
  <2>2. UNCHANGED <<up, fence, topology, policy>> \/ Halt
    BY <1>3 DEF PublishFinding
  <2> QED BY <1>1, <2>1, <2>2 DEF SameOrigin, Document, Halt
<1>4. ASSUME NEW a \in held, PlanContainment(a) PROVE SameOrigin
  BY <1>4 DEF PlanContainment, SameOrigin
<1>5. ASSUME NEW id, WithdrawFinding(id) PROVE SameOrigin
  BY <1>1, <1>5 DEF WithdrawFinding, SameOrigin, Document
<1>6. ASSUME NEW id, NEW grant, NEW targets, AuthorizeContainment(id, grant, targets)
      PROVE  SameOrigin
  BY <1>6 DEF AuthorizeContainment, SameOrigin
<1>7. ASSUME NEW intent, RecordAcknowledgement(intent) PROVE SameOrigin
  BY <1>7 DEF RecordAcknowledgement, SameOrigin
<1>8. ASSUME NEW intent, NEW target, NEW observed,
             RecordVerifiedEffect(intent, target, observed)
      PROVE  SameOrigin
  BY <1>8 DEF RecordVerifiedEffect, SameOrigin
<1>9. ASSUME Stop PROVE SameOrigin
  BY <1>9 DEF Stop, Halt, SameOrigin
<1>10. CASE UNCHANGED vars
  BY <1>10 DEF vars, SameOrigin
<1> QED
  BY <1>2, <1>3, <1>4, <1>5, <1>6, <1>7, <1>8, <1>9, <1>10 DEF OtherCall

-----------------------------------------------------------------------------
(* The fence and the definitions *)

\* What a move writes and what it puts in force, as far as numbers go.
LEMMA MoveFenceNumbers ==
    ASSUME NEW f \in Fence, NEW d \in Document, NEW lineage, MoveFence(f, d, lineage)
    PROVE  /\ up' = up /\ fence' = f
           /\ disk'.topology = d.topology /\ disk'.policy = d.policy
           /\ disk'.boot = d.boot /\ disk'.epoch = d.epoch
           /\ disk'.findings = d.findings
           /\ disk'.fence = f \/ (StoreMayFail /\ disk'.fence = d.fence)
BY DEF MoveFence, Document

\* A start reads the fence and the definitions of one document.
LEMMA FenceKnownOpen ==
    ASSUME TypeOK, FenceKnown, Open
    PROVE  FenceKnown'
<1>1. /\ disk \in Document /\ disk.fence \in Fence /\ disk.boot \in Nat
      /\ disk.topology \in Nat /\ disk.policy \in Nat
  BY DEF TypeOK, Document
<1>2. /\ disk'.boot = disk.boot + 1 /\ disk'.fence = disk.fence
      /\ disk'.topology = disk.topology /\ disk'.policy = disk.policy
  BY <1>1 DEF Open, Document
<1>3. /\ fence'["boot"] = disk.boot + 1
      /\ fence'["topology"] = IF disk.topology # 0 THEN disk.topology ELSE 1
      /\ fence'["policy"] = disk.fence["policy"]
  BY <1>1 DEF Open, ReopenedFence, Fence, Component
<1>4. topology' = disk.topology /\ policy' = disk.policy
  BY DEF Open
<1> QED
  BY <1>1, <1>2, <1>3, <1>4 DEF FenceKnown

\* A move changes the definition and the fence together, or stops in between.
LEMMA FenceKnownMove ==
    ASSUME TypeOK, FenceKnown, FenceMove
    PROVE  FenceKnown'
<1>1. disk \in Document /\ fence \in Fence /\ topology \in Nat /\ policy \in Nat
  BY DEF TypeOK
<1>2. \A g \in Generation : g \in Nat /\ g >= 1
  BY LimitAssumption DEF Generation
<1>3. /\ \A c \in Component : fence[c] \in Nat
      /\ disk.fence["policy"] \in Nat /\ disk.topology \in Nat /\ disk.policy \in Nat
  BY <1>1 DEF Fence, Document, Component
<1>4. ASSUME NEW c \in {"epoch", "forwarding", "fabric"}, NEW n \in Nat,
             NEW lineage, MoveFence([fence EXCEPT ![c] = n], disk, lineage),
             UNCHANGED <<topology, policy>>
      PROVE  FenceKnown'
  <2> DEFINE f == [fence EXCEPT ![c] = n]
  <2>1. /\ f \in Fence /\ f["boot"] = fence["boot"]
        /\ f["topology"] = fence["topology"] /\ f["policy"] = fence["policy"]
    BY <1>1 DEF Fence, Component
  <2> QED
    BY <1>1, <1>3, <1>4, <2>1, MoveFenceNumbers DEF FenceKnown
<1>5. ASSUME AdvanceEpoch PROVE FenceKnown'
  <2> DEFINE n == fence["epoch"] + 1
  <2>1. n \in Nat
    BY <1>3 DEF Component
  <2>2. MoveFence([fence EXCEPT !["epoch"] = n], disk, TRUE)
    BY <1>5 DEF AdvanceEpoch
  <2> HIDE DEF n
  <2> QED BY <1>4, <1>5, <2>1, <2>2 DEF AdvanceEpoch
<1>6. ASSUME NEW g \in Generation, AdvanceForwarding(g) \/ AdvanceFabricEpoch(g)
      PROVE  FenceKnown'
  BY <1>2, <1>4, <1>6 DEF AdvanceForwarding, AdvanceFabricEpoch
<1>7. ASSUME NEW g \in Generation, SetTopology(g) PROVE FenceKnown'
  <2> DEFINE d == [disk EXCEPT !.topology = g]
             f == [fence EXCEPT !["topology"] = g]
  <2>1. /\ d \in Document /\ d.topology = g /\ d.policy = disk.policy
        /\ d.boot = disk.boot /\ d.fence = disk.fence
    BY <1>1, <1>2 DEF Document
  <2>2. /\ f \in Fence /\ f["topology"] = g /\ f["boot"] = fence["boot"]
        /\ f["policy"] = fence["policy"]
    BY <1>1, <1>2 DEF Fence, Component
  <2>3. CASE topology' = g /\ MoveFence(f, d, TRUE) /\ UNCHANGED policy
    <3>1. /\ up' = up /\ fence' = f
          /\ disk'.topology = g /\ disk'.policy = disk.policy
          /\ disk'.boot = disk.boot
          /\ disk'.fence = f \/ disk'.fence = disk.fence
      BY <2>1, <2>2, <2>3, MoveFenceNumbers
    <3>2. up
      BY <1>7 DEF SetTopology
    <3> HIDE DEF d, f
    <3> QED BY <1>2, <1>3, <2>2, <2>3, <3>1, <3>2 DEF FenceKnown
  <2>4. CASE disk' = d /\ Halt
    <3>1. fence["topology"] <= g
      BY <1>2, <1>3, <1>7 DEF FenceKnown, SetTopology, Component
    <3> QED BY <1>2, <1>3, <2>1, <2>4, <3>1 DEF FenceKnown, Halt
  <2> QED BY <1>7, <2>3, <2>4 DEF SetTopology
<1>8. ASSUME NEW g \in Generation, SetPolicy(g) PROVE FenceKnown'
  <2> DEFINE d == [disk EXCEPT !.policy = g]
             f == [fence EXCEPT !["policy"] = g]
  <2>1. /\ d \in Document /\ d.policy = g /\ d.topology = disk.topology
        /\ d.boot = disk.boot /\ d.fence = disk.fence
    BY <1>1, <1>2 DEF Document
  <2>2. /\ f \in Fence /\ f["policy"] = g /\ f["boot"] = fence["boot"]
        /\ f["topology"] = fence["topology"]
    BY <1>1, <1>2 DEF Fence, Component
  <2>3. fence["policy"] <= g /\ disk.fence["policy"] <= g
    BY <1>2, <1>3, <1>8 DEF FenceKnown, SetPolicy, Component
  <2>4. CASE policy' = g /\ MoveFence(f, d, FALSE) /\ UNCHANGED topology
    <3>1. /\ up' = up /\ fence' = f
          /\ disk'.policy = g /\ disk'.topology = disk.topology
          /\ disk'.boot = disk.boot
          /\ disk'.fence = f \/ disk'.fence = disk.fence
      BY <2>1, <2>2, <2>4, MoveFenceNumbers
    <3>2. up
      BY <1>8 DEF SetPolicy
    <3> HIDE DEF d, f
    <3> QED BY <1>2, <1>3, <2>2, <2>3, <2>4, <3>1, <3>2 DEF FenceKnown
  <2>5. CASE disk' = d /\ Halt
    BY <1>2, <1>3, <2>1, <2>3, <2>5 DEF FenceKnown, Halt
  <2> QED BY <1>8, <2>4, <2>5 DEF SetPolicy
<1> QED
  BY <1>5, <1>6, <1>7, <1>8 DEF FenceMove

\* FenceKnown is inductive.
LEMMA FenceKnownNext == TypeOK /\ FenceKnown /\ [Next]_vars => FenceKnown'
<1> SUFFICES ASSUME TypeOK, FenceKnown, [Next]_vars PROVE FenceKnown'
  OBVIOUS
<1>1. CASE FenceMove
  BY <1>1, FenceKnownMove
<1>2. CASE Open
  BY <1>2, FenceKnownOpen
<1>3. CASE OtherCall \/ UNCHANGED vars
  BY <1>3, OtherCallSteps DEF SameOrigin, FenceKnown
<1> QED
  BY <1>1, <1>2, <1>3, KindsOfSteps

\* Hence it holds in every reachable state.
LEMMA KnownAlways == Spec => [](TypeOK /\ FenceKnown)
<1>1. Init => FenceKnown
  BY DEF Init, FenceKnown, FirstFence, Component
<1> QED
  BY <1>1, FenceKnownNext, TypeCorrect, PTL DEF Spec

\* Whatever stops between two writes and whatever writes are refused, the
\* fence in force names the topology in force, and never a policy later than
\* the one in force (set_topology, set_policy, Runtime::open).
THEOREM DefinitionsAreNamed == Spec => []FenceNamesDefinitions
<1>1. TypeOK /\ FenceKnown => FenceNamesDefinitions
  BY DEF FenceKnown, FenceNamesDefinitions, TypeOK
<1> QED
  BY <1>1, KnownAlways, PTL

-----------------------------------------------------------------------------
(* What the operations of the registry do *)

\* A full registry gives up a finding that carries no authority.
LEMMA VictimIsTerminal ==
    ASSUME NEW fs, DOMAIN fs \subseteq FindingId, fs \in [DOMAIN fs -> Finding],
           DOMAIN fs # LiveIds(fs)
    PROVE  Victim(fs) \in DOMAIN fs \ LiveIds(fs)
<1> DEFINE S == DOMAIN fs \ LiveIds(fs)
           Ages == {fs[v].updated : v \in S}
<1>1. S # {} /\ \A v \in S : v \in Nat /\ fs[v].updated \in Nat
  <2>1. S # {} /\ \A v \in S : v \in FindingId /\ fs[v] \in Finding
    BY DEF LiveIds
  <2> QED BY <2>1, IdAssumption DEF FindingId, Finding
<1> HIDE DEF S
<1>2. Ages \in SUBSET Nat /\ Ages # {}
  BY <1>1
<1>3. PICK a \in Ages : \A b \in Ages : a <= b
  BY <1>2, LeastExists
<1> DEFINE Oldest == {v \in S : fs[v].updated = a}
<1>4. Oldest \in SUBSET Nat /\ Oldest # {}
  BY <1>1, <1>3
<1>5. PICK v \in Oldest : \A o \in Oldest : v <= o
  BY <1>4, LeastExists
<1>6. \A o \in S : \/ fs[v].updated < fs[o].updated
                   \/ fs[v].updated = fs[o].updated /\ v <= o
  <2> SUFFICES ASSUME NEW o \in S
               PROVE  \/ fs[v].updated < fs[o].updated
                      \/ fs[v].updated = fs[o].updated /\ v <= o
    OBVIOUS
  <2>1. fs[v].updated = a /\ fs[o].updated \in Ages
    BY <1>5
  <2>2. a <= fs[o].updated /\ a \in Nat /\ fs[o].updated \in Nat
    BY <1>1, <1>2, <1>3, <2>1
  <2>3. fs[o].updated = a => v <= o
    BY <1>5
  <2> QED BY <2>1, <2>2, <2>3
<1>7. v \in S
  BY <1>5
<1>8. Victim(fs) = CHOOSE w \in S : \A o \in S :
                      \/ fs[w].updated < fs[o].updated
                      \/ fs[w].updated = fs[o].updated /\ w <= o
  BY DEF Victim, S
<1>9. Victim(fs) \in S
  BY <1>6, <1>7, <1>8
<1> QED BY <1>9 DEF S

\* Registering adds one finding and evicts none that carries authority.
LEMMA RegisterFacts ==
    ASSUME NEW fs, DOMAIN fs \subseteq FindingId, fs \in [DOMAIN fs -> Finding],
           NEW id, NEW f, CanRegister(fs, id)
    PROVE  /\ id \notin DOMAIN fs
           /\ id \in DOMAIN Register(fs, id, f) /\ Register(fs, id, f)[id] = f
           /\ DOMAIN Register(fs, id, f) \subseteq DOMAIN fs \cup {id}
           /\ \A i \in DOMAIN Register(fs, id, f) \ {id} :
                 Register(fs, id, f)[i] = fs[i]
           /\ LiveIds(fs) \subseteq DOMAIN Register(fs, id, f)
<1> DEFINE rest == IF Cardinality(DOMAIN fs) >= MaxFindings
                   THEN Without(fs, Victim(fs)) ELSE fs
<1>1. /\ id \notin DOMAIN fs
      /\ Cardinality(DOMAIN fs) >= MaxFindings => DOMAIN fs # LiveIds(fs)
  BY DEF CanRegister
<1>2. /\ DOMAIN rest \subseteq DOMAIN fs
      /\ \A i \in DOMAIN rest : rest[i] = fs[i]
  BY DEF Without
<1>3. LiveIds(fs) \subseteq DOMAIN rest
  <2>1. CASE Cardinality(DOMAIN fs) >= MaxFindings
    <3>1. Victim(fs) \notin LiveIds(fs)
      BY <1>1, <2>1, VictimIsTerminal
    <3> QED BY <2>1, <3>1 DEF Without, LiveIds
  <2>2. CASE ~ (Cardinality(DOMAIN fs) >= MaxFindings)
    BY <2>2 DEF LiveIds
  <2> QED BY <2>1, <2>2
<1>4. Register(fs, id, f) = With(rest, id, f)
  BY DEF Register
<1> HIDE DEF rest
<1>5. /\ DOMAIN With(rest, id, f) = DOMAIN rest \cup {id}
      /\ With(rest, id, f)[id] = f
      /\ \A i \in DOMAIN rest \ {id} : With(rest, id, f)[i] = rest[i]
  BY DEF With
<1> QED
  BY <1>1, <1>2, <1>3, <1>4, <1>5

\* An update reaches one finding and leaves what it is about alone.
LEMMA UpdateStateFacts ==
    ASSUME NEW fs, fs \in [DOMAIN fs -> Finding],
           NEW id, NEW state, NEW cause
    PROVE  /\ DOMAIN UpdateState(fs, id, state, cause) = DOMAIN fs
           /\ \A i \in DOMAIN fs :
                LET was == fs[i]
                    is == UpdateState(fs, id, state, cause)[i]
                IN  /\ is.assessment = was.assessment /\ is.plan = was.plan
                    /\ is.intent = was.intent
                    /\ \/ /\ is = was
                          /\ i # id \/ (IsTerminal(was) /\ state # "Withdrawn")
                       \/ /\ i = id /\ is.state = state
                          /\ is.cause = IF cause = "none" THEN was.cause ELSE cause
                          /\ IsTerminal(was) => state = "Withdrawn"
<1> DEFINE g == [fs[id] EXCEPT !.state = state,
                               !.cause = IF cause = "none" THEN fs[id].cause ELSE cause,
                               !.updated = now]
           accepted == id \in DOMAIN fs /\ (IsTerminal(fs[id]) => state = "Withdrawn")
<1>1. CASE accepted
  <2>1. UpdateState(fs, id, state, cause) = [fs EXCEPT ![id] = g]
    BY <1>1 DEF UpdateState
  <2>2. fs[id] \in Finding
    BY <1>1
  <2>3. /\ g.assessment = fs[id].assessment /\ g.plan = fs[id].plan
        /\ g.intent = fs[id].intent /\ g.state = state
        /\ g.cause = IF cause = "none" THEN fs[id].cause ELSE cause
    BY <2>2 DEF Finding
  <2> HIDE DEF g
  <2> QED BY <1>1, <2>1, <2>3
<1>2. CASE ~ accepted
  BY <1>2 DEF UpdateState
<1> QED BY <1>1, <1>2

\* A fence move reaches the live findings that bind another fence.
LEMMA FenceStaleFacts ==
    ASSUME NEW fs, fs \in [DOMAIN fs -> Finding], NEW f \in Fence
    PROVE  /\ DOMAIN FenceStale(fs, f) = DOMAIN fs
           /\ \A i \in DOMAIN fs :
                LET was == fs[i]
                    is == FenceStale(fs, f)[i]
                IN  /\ is.assessment = was.assessment /\ is.plan = was.plan
                    /\ \/ /\ is = was
                          /\ IsTerminal(was) \/ was.assessment.fence = f
                       \/ /\ ~ IsTerminal(was) /\ is.state = "Stale"
                          /\ is.cause \in Component
                          /\ was.assessment.fence[is.cause] # f[is.cause]
<1>1. DOMAIN FenceStale(fs, f) = DOMAIN fs
  BY DEF FenceStale
<1> SUFFICES ASSUME NEW i \in DOMAIN fs
             PROVE  LET was == fs[i]
                        is == FenceStale(fs, f)[i]
                    IN  /\ is.assessment = was.assessment /\ is.plan = was.plan
                        /\ \/ /\ is = was
                              /\ IsTerminal(was) \/ was.assessment.fence = f
                           \/ /\ ~ IsTerminal(was) /\ is.state = "Stale"
                              /\ is.cause \in Component
                              /\ was.assessment.fence[is.cause] # f[is.cause]
  BY <1>1
<1> DEFINE c == FenceCause(fs[i].assessment.fence, f)
           g == [fs[i] EXCEPT !.state = "Stale", !.cause = c, !.updated = now]
<1>2. fs[i] \in Finding /\ fs[i].assessment.fence \in Fence
  BY DEF Finding, Assessment
<1>3. FenceStale(fs, f)[i] = IF IsTerminal(fs[i]) \/ c = "none" THEN fs[i] ELSE g
  BY DEF FenceStale
<1>4. /\ g.assessment = fs[i].assessment /\ g.plan = fs[i].plan
      /\ g.state = "Stale" /\ g.cause = c
  BY <1>2 DEF Finding
<1>5. \/ fs[i].assessment.fence = f
      \/ /\ c \in Component /\ c # "none"
         /\ fs[i].assessment.fence[c] # f[c]
  BY <1>2, FenceCauseOfMove DEF Component
<1>6. fs[i].assessment.fence = f => c = "none"
  BY DEF FenceCause
<1> HIDE DEF g, c
<1> QED BY <1>3, <1>4, <1>5, <1>6

\* A restart brings everything back as history of an earlier boot.
LEMMA RestoredFacts ==
    ASSUME NEW s \in Seq(DurableFinding)
    PROVE  \A id \in DOMAIN Restored(s) :
              /\ \E i \in DOMAIN s : /\ s[i].id = id
                                     /\ Restored(s)[id].assessment = s[i].body.assessment
                                     /\ Restored(s)[id].plan = s[i].body.plan
              /\ Restored(s)[id].state = "Fenced" /\ Restored(s)[id].cause = "boot"
<1> SUFFICES ASSUME NEW id \in DOMAIN Restored(s)
             PROVE  /\ \E i \in DOMAIN s :
                          /\ s[i].id = id
                          /\ Restored(s)[id].assessment = s[i].body.assessment
                          /\ Restored(s)[id].plan = s[i].body.plan
                    /\ Restored(s)[id].state = "Fenced" /\ Restored(s)[id].cause = "boot"
  OBVIOUS
<1> DEFINE i == CHOOSE j \in DOMAIN s : s[j].id = id
<1>1. id \in {s[j].id : j \in DOMAIN s}
  BY DEF Restored
<1>2. i \in DOMAIN s /\ s[i].id = id
  BY <1>1
<1>3. s[i] \in DurableFinding /\ s[i].body \in Finding
  <2>1. \A j \in DOMAIN s : s[j] \in DurableFinding
    OBVIOUS
  <2> QED BY <1>2, <2>1 DEF DurableFinding
<1>4. Restored(s)[id] = [s[i].body EXCEPT !.state = "Fenced", !.cause = "boot",
                                          !.updated = now]
  BY <1>1 DEF Restored
<1> HIDE DEF i
<1> QED BY <1>2, <1>3, <1>4 DEF Finding

\* A plan is attached to a live finding of its own assessment.
LEMMA PlanFacts ==
    ASSUME TypeOK, NEW a \in held, PlanContainment(a)
    PROVE  LET p == [assessment |-> a, targets |-> Cover[a.witnesses]] IN
           /\ DOMAIN findings' = DOMAIN findings
           /\ p \in plans' /\ plans' \subseteq plans \cup {p}
           /\ \/ UNCHANGED <<findings, audit>>
              \/ \E first \in DOMAIN findings :
                    /\ Audit("Eligibility", first, p)
                    /\ findings'[first].plan = p
                    /\ findings'[first].intent = findings[first].intent
                    /\ \A id \in DOMAIN findings \ {first} :
                          findings'[id] = findings[id]
           /\ \A id \in DOMAIN findings :
                 /\ findings'[id].assessment = findings[id].assessment
                 /\ findings'[id].state = findings[id].state
                 /\ findings'[id].cause = findings[id].cause
                 /\ \/ findings'[id].plan = findings[id].plan
                    \/ /\ findings[id].assessment = a
                       /\ id \in LiveIds(findings)
                       /\ findings'[id].plan = p
                       /\ Audit("Eligibility", id, p)
<1> DEFINE p == [assessment |-> a, targets |-> Cover[a.witnesses]]
           first == Smallest(ContainedBy(a))
<1>1. /\ DOMAIN findings \subseteq FindingId
      /\ findings \in [DOMAIN findings -> Finding]
  BY DEF TypeOK
<1>2. /\ p \in plans' /\ plans' \subseteq plans \cup {p}
      /\ IF ContainedBy(a) = {}
         THEN UNCHANGED <<findings, audit>>
         ELSE /\ findings' = [findings EXCEPT ![first].plan = p,
                                              ![first].updated = now]
              /\ Audit("Eligibility", first, p)
  BY DEF PlanContainment
<1>3. CASE ContainedBy(a) = {}
  BY <1>2, <1>3
<1>4. CASE ContainedBy(a) # {}
  <2>1. ContainedBy(a) \in SUBSET Nat
    BY <1>1, IdAssumption DEF ContainedBy, LiveIds, FindingId
  <2>2. first \in ContainedBy(a)
    BY <1>4, <2>1, LeastExists DEF Smallest
  <2>3. /\ first \in DOMAIN findings /\ first \in LiveIds(findings)
        /\ findings[first].assessment = a
    BY <2>2 DEF ContainedBy, LiveIds
  <2> HIDE DEF first, p
  <2>4. DOMAIN findings' = DOMAIN findings
    BY <1>2, <1>4
  <2>5. \A id \in DOMAIN findings \ {first} : findings'[id] = findings[id]
    BY <1>2, <1>4
  <2>6. /\ findings'[first].assessment = findings[first].assessment
        /\ findings'[first].state = findings[first].state
        /\ findings'[first].cause = findings[first].cause
        /\ findings'[first].plan = p
        /\ findings'[first].intent = findings[first].intent
    <3>1. findings[first] \in Finding
      BY <1>1, <2>3
    <3> QED BY <1>2, <1>4, <2>3, <3>1 DEF Finding
  <2>7. p \in plans' /\ plans' \subseteq plans \cup {p} /\ Audit("Eligibility", first, p)
    BY <1>2, <1>4
  <2>8. ASSUME NEW id \in DOMAIN findings
        PROVE  /\ findings'[id].assessment = findings[id].assessment
               /\ findings'[id].state = findings[id].state
               /\ findings'[id].cause = findings[id].cause
               /\ \/ findings'[id].plan = findings[id].plan
                  \/ /\ findings[id].assessment = a
                     /\ id \in LiveIds(findings)
                     /\ findings'[id].plan = p
                     /\ Audit("Eligibility", id, p)
    BY <2>3, <2>5, <2>6, <2>7
  <2>9. \E k \in DOMAIN findings :
           /\ Audit("Eligibility", k, p)
           /\ findings'[k].plan = p
           /\ findings'[k].intent = findings[k].intent
           /\ \A id \in DOMAIN findings \ {k} : findings'[id] = findings[id]
    BY <2>3, <2>5, <2>6, <2>7
  <2> QED BY <2>4, <2>7, <2>8, <2>9 DEF p
<1> QED BY <1>3, <1>4

-----------------------------------------------------------------------------
(* Terminal is final *)

KeepsTerminal ==
    \A id \in DOMAIN findings \cap DOMAIN findings' :
        IsTerminal(findings[id]) => IsTerminal(findings'[id])

\* update_state does not revive a finding.
LEMMA UpdateStateKeepsTerminal ==
    ASSUME NEW fs, fs \in [DOMAIN fs -> Finding],
           NEW id, NEW state, NEW cause
    PROVE  \A i \in DOMAIN fs : IsTerminal(fs[i]) =>
              /\ IsTerminal(UpdateState(fs, id, state, cause)[i])
              /\ i \in DOMAIN UpdateState(fs, id, state, cause)
<1> DEFINE g == UpdateState(fs, id, state, cause)
<1>1. /\ DOMAIN g = DOMAIN fs
      /\ \A i \in DOMAIN fs : g[i] = fs[i] \/ (g[i].state = state /\
                                 (IsTerminal(fs[i]) => state = "Withdrawn"))
  BY UpdateStateFacts
<1> HIDE DEF g
<1>2. \A i \in DOMAIN fs : IsTerminal(fs[i]) => IsTerminal(g[i]) /\ i \in DOMAIN g
  BY <1>1 DEF IsTerminal, Terminal
<1> QED BY <1>2 DEF g

\* No step revives a finding that stays registered.
LEMMA TerminalNext == TypeOK /\ FenceKnown /\ [Next]_vars => [KeepsTerminal]_vars
<1> SUFFICES ASSUME TypeOK, FenceKnown, [Next]_vars PROVE [KeepsTerminal]_vars
  OBVIOUS
<1>1. DOMAIN findings \subseteq FindingId /\ findings \in [DOMAIN findings -> Finding]
  BY DEF TypeOK
<1>2. ASSUME findings' = findings \/ Halt PROVE KeepsTerminal
  <2>1. findings' = findings \/ DOMAIN findings' = {}
    BY <1>2 DEF Halt, Empty
  <2> QED BY <2>1 DEF KeepsTerminal
<1>3. ASSUME NEW f \in Fence, NEW d, NEW lineage, MoveFence(f, d, lineage)
      PROVE  KeepsTerminal
  <2>1. CASE findings' = FenceStale(findings, f)
    BY <2>1, <1>1, FenceStaleFacts DEF KeepsTerminal
  <2>2. CASE findings' = findings
    BY <2>2, <1>2
  <2> QED BY <1>3, <2>1, <2>2 DEF MoveFence
<1>4. CASE FenceMove
  BY <1>2, <1>3, <1>4, FenceMoveSteps DEF Cut, FenceStep
<1>5. CASE Open
  <2>1. findings' = Restored(disk.findings) /\ disk.findings \in Seq(DurableFinding)
    BY <1>5 DEF Open, TypeOK, Document, LineageBounded
  <2> QED BY <2>1, RestoredFacts DEF KeepsTerminal, IsTerminal, Terminal
<1>6. ASSUME NEW a \in held, PublishFinding(a) PROVE KeepsTerminal
  <2>1. ASSUME NEW id, CanRegister(findings, id),
               findings' = Register(findings, id, NewFinding(a))
        PROVE  KeepsTerminal
    BY <1>1, <2>1, RegisterFacts DEF KeepsTerminal
  <2> QED BY <1>2, <1>6, <2>1 DEF PublishFinding
<1>7. ASSUME NEW a \in held, PlanContainment(a) PROVE KeepsTerminal
  BY <1>7, PlanFacts DEF KeepsTerminal, IsTerminal
<1>8. ASSUME NEW id, WithdrawFinding(id) PROVE KeepsTerminal
  <2>1. \/ findings' = findings
        \/ findings' = UpdateState(findings, id, "Withdrawn", "withdrawal")
    BY <1>8 DEF WithdrawFinding
  <2> QED BY <1>1, <1>2, <2>1, UpdateStateKeepsTerminal DEF KeepsTerminal
<1>9. ASSUME NEW id \in DOMAIN findings, NEW grant, NEW targets,
             AuthorizeContainment(id, grant, targets)
      PROVE  KeepsTerminal
  <2>1. id \in LiveIds(findings)
    BY <1>9 DEF AuthorizeContainment
  <2>2. PICK intent : findings' = UpdateState([findings EXCEPT ![id].intent = intent],
                                              id, "Requested", "none")
    BY <1>9 DEF AuthorizeContainment
  <2> DEFINE asked == [findings EXCEPT ![id].intent = intent]
  <2>3. \A i \in DOMAIN findings : i # id => findings'[i] = findings[i]
    BY <2>2 DEF UpdateState
  <2> QED BY <2>1, <2>3 DEF KeepsTerminal, LiveIds
<1>10. ASSUME NEW intent \in DOMAIN applications, RecordAcknowledgement(intent)
       PROVE  KeepsTerminal
  BY <1>1, <1>10, UpdateStateKeepsTerminal DEF RecordAcknowledgement, KeepsTerminal
<1>11. ASSUME NEW intent \in DOMAIN applications, NEW target, NEW observed,
              RecordVerifiedEffect(intent, target, observed)
       PROVE  KeepsTerminal
  BY <1>1, <1>11, UpdateStateKeepsTerminal DEF RecordVerifiedEffect, KeepsTerminal
<1>12. ASSUME NEW S, SubmitObservation(S) \/ Tick(S) \/ Detect(S) \/ ClearEvidence \/ Stop
       PROVE  KeepsTerminal
  BY <1>2, <1>12 DEF SubmitObservation, Tick, Detect, ClearEvidence, Stop
<1>13. CASE OtherCall
  BY <1>13, <1>6, <1>7, <1>8, <1>9, <1>10, <1>11, <1>12 DEF OtherCall
<1> QED
  BY <1>4, <1>5, <1>13, KindsOfSteps

\* No late answer, no second move of the fence and no restart gives a finding
\* that is over its authority back, however small the registry is
\* (update_state, fence_stale, add_finding, Runtime::open).
THEOREM TerminalStaysTerminal == Spec => TerminalIsFinal
<1>1. TypeOK /\ FenceKnown /\ [Next]_vars => [KeepsTerminal]_vars
  BY TerminalNext
<1> QED
  BY <1>1, KnownAlways, PTL DEF Spec, TerminalIsFinal, KeepsTerminal

-----------------------------------------------------------------------------
(* Identities and plans *)

NamedBy(m, id, a) == \E c \in DOMAIN m : m[c] = id /\ c.assessment = a

\* An identity stands for one content, in memory, on disk and in every intent.
Identified ==
    /\ \A c, d \in DOMAIN minted : minted[c] = minted[d] => c = d
    /\ \A id \in DOMAIN findings : NamedBy(minted, id, findings[id].assessment)
    /\ \A i \in DOMAIN disk.findings :
          NamedBy(minted, disk.findings[i].id, disk.findings[i].body.assessment)
    /\ \A i \in DOMAIN applications :
          NamedBy(minted, i.finding, i.plan.assessment)

\* A plan is what was planned for its assessment, and the store keeps none.
Planned ==
    /\ \A p \in plans : p.targets = Cover[p.assessment.witnesses]
    /\ \A i \in DOMAIN applications :
          /\ i.targets # {}
          /\ i.targets \subseteq Cover[i.plan.assessment.witnesses]
    /\ \A id \in DOMAIN findings :
          findings[id].plan # NoPlan =>
             findings[id].plan.assessment = findings[id].assessment
    /\ \A i \in DOMAIN disk.findings : disk.findings[i].body.plan = NoPlan

\* What most steps leave alone, or only forget.
Preserving ==
    /\ UNCHANGED minted /\ disk'.findings = disk.findings
    /\ DOMAIN findings' \subseteq DOMAIN findings
    /\ \A id \in DOMAIN findings' :
          /\ findings'[id].assessment = findings[id].assessment
          /\ findings'[id].plan = findings[id].plan
    /\ DOMAIN applications' \subseteq DOMAIN applications
    /\ plans' \subseteq plans

\* What only keeps or drops findings, plans and intents keeps them identified.
LEMMA PreservingKeeps ==
    ASSUME Identified, Planned, Preserving
    PROVE  Identified' /\ Planned'
<1>1. Identified'
  BY DEF Identified, Preserving
<1>2. Planned'
  BY DEF Planned, Preserving
<1> QED BY <1>1, <1>2

\* A stop drops them all.
LEMMA HaltPreserves ==
    ASSUME Halt, UNCHANGED minted, disk'.findings = disk.findings
    PROVE  Preserving
<1>1. DOMAIN findings' = {} /\ DOMAIN applications' = {} /\ plans' = {}
  BY DEF Halt, Empty
<1> QED BY <1>1 DEF Preserving

\* A move of the fence changes neither assessment nor plan.
LEMMA MovePreserves ==
    ASSUME TypeOK, FenceKnown, FenceMove
    PROVE  Preserving
<1>1. CASE Cut
  BY <1>1, HaltPreserves DEF Cut, SameStore
<1>2. ASSUME NEW f, NEW d, NEW lineage, FenceStep(f, d, lineage)
      PROVE  Preserving
  <2>1. findings \in [DOMAIN findings -> Finding] /\ f \in Fence
    BY <1>2 DEF TypeOK, FenceStep
  <2>2. findings' = findings \/ findings' = FenceStale(findings, f)
    BY <1>2 DEF FenceStep, MoveFence
  <2>3. /\ DOMAIN findings' = DOMAIN findings
        /\ \A id \in DOMAIN findings :
              /\ findings'[id].assessment = findings[id].assessment
              /\ findings'[id].plan = findings[id].plan
    BY <2>1, <2>2, FenceStaleFacts
  <2>4. disk'.findings = disk.findings
    BY <1>2, MoveFenceNumbers DEF FenceStep, SameStore
  <2>5. UNCHANGED <<minted, applications, plans>>
    BY <1>2 DEF FenceStep, MoveFence
  <2> QED BY <2>3, <2>4, <2>5 DEF Preserving
<1> QED BY <1>1, <1>2, FenceMoveSteps

\* Submissions, time, searches, answers to intents and stops.
Answer ==
    \/ \E S \in SUBSET Witness :
          SubmitObservation(S) \/ Tick(S) \/ Detect(S)
    \/ ClearEvidence
    \/ \E intent \in DOMAIN applications :
          \/ RecordAcknowledgement(intent)
          \/ \E target \in Resource, observed \in {fence, FirstFence} :
                RecordVerifiedEffect(intent, target, observed)
    \/ Stop

\* Neither do evidence, detection, acknowledgements and effects.
LEMMA AnswerPreserves ==
    ASSUME TypeOK, Answer \/ UNCHANGED vars
    PROVE  Preserving
<1>1. findings \in [DOMAIN findings -> Finding]
  BY DEF TypeOK
<1>2. ASSUME UNCHANGED <<findings, minted, disk, plans, applications>>
      PROVE  Preserving
  BY <1>2 DEF Preserving
<1>3. ASSUME NEW S, SubmitObservation(S) \/ Tick(S) \/ Detect(S) \/ ClearEvidence
      PROVE  Preserving
  BY <1>2, <1>3 DEF SubmitObservation, Tick, Detect, ClearEvidence
<1>4. ASSUME NEW id, NEW state, UNCHANGED <<minted, disk, plans>>,
             findings' = UpdateState(findings, id, state, "none"),
             DOMAIN applications' = DOMAIN applications
      PROVE  Preserving
  <2>1. /\ DOMAIN findings' = DOMAIN findings
        /\ \A i \in DOMAIN findings :
              /\ findings'[i].assessment = findings[i].assessment
              /\ findings'[i].plan = findings[i].plan
    BY <1>1, <1>4, UpdateStateFacts
  <2> QED BY <1>4, <2>1 DEF Preserving
<1>5. ASSUME NEW intent \in DOMAIN applications, RecordAcknowledgement(intent)
      PROVE  Preserving
  <2>1. DOMAIN applications' = DOMAIN applications
    BY <1>5 DEF RecordAcknowledgement
  <2> QED BY <1>4, <1>5, <2>1 DEF RecordAcknowledgement
<1>6. ASSUME NEW intent \in DOMAIN applications, NEW target, NEW observed,
             RecordVerifiedEffect(intent, target, observed)
      PROVE  Preserving
  <2>1. DOMAIN applications' = DOMAIN applications
    BY <1>6 DEF RecordVerifiedEffect
  <2> QED BY <1>4, <1>6, <2>1 DEF RecordVerifiedEffect
<1>7. ASSUME Stop PROVE Preserving
  BY <1>7, HaltPreserves DEF Stop
<1>8. CASE UNCHANGED vars
  BY <1>2, <1>8 DEF vars
<1> QED
  BY <1>3, <1>5, <1>6, <1>7, <1>8 DEF Answer

\* What the durable registry holds after an upsert was there before or is new.
LEMMA UpsertedFacts ==
    ASSUME NEW s \in Seq(DurableFinding), NEW id \in FindingId, NEW f \in Finding
    PROVE  \A i \in DOMAIN Upserted(s, id, f) :
              \/ Upserted(s, id, f)[i] = [id |-> id, body |-> f]
              \/ \E j \in DOMAIN s : Upserted(s, id, f)[i] = s[j]
<1> DEFINE entry == [id |-> id, body |-> f]
           long == Append(s, entry)
<1>1. entry \in DurableFinding
  BY DEF DurableFinding
<1> HIDE DEF entry
<1>2. /\ Len(s) \in Nat /\ DOMAIN s = 1..Len(s)
      /\ long \in Seq(DurableFinding) /\ Len(long) = Len(s) + 1
      /\ \A i \in 1..Len(s) : long[i] = s[i]
      /\ long[Len(s) + 1] = entry
  BY <1>1
<1> HIDE DEF long
<1>3. \A i \in DOMAIN long : long[i] = entry \/ \E j \in DOMAIN s : long[i] = s[j]
  BY <1>2
<1>4. ASSUME NEW i \in DOMAIN Tail(long)
      PROVE  Tail(long)[i] = entry \/ \E j \in DOMAIN s : Tail(long)[i] = s[j]
  <2>1. long # << >>
    BY <1>2
  <2>2. /\ Tail(long) \in Seq(DurableFinding) /\ Len(Tail(long)) = Len(long) - 1
        /\ \A k \in 1..Len(Tail(long)) : Tail(long)[k] = long[k + 1]
    BY <1>2, <2>1, HeadTailProperties
  <2>3. i \in 1..Len(Tail(long)) /\ i + 1 \in 1..Len(long)
    BY <1>2, <2>2
  <2>4. i + 1 \in DOMAIN long
    BY <1>2, <2>3
  <2> QED BY <1>3, <2>2, <2>3, <2>4
<1>5. \/ Upserted(s, id, f) = [i \in DOMAIN s |-> IF s[i].id = id THEN entry ELSE s[i]]
      \/ Upserted(s, id, f) = Tail(long)
      \/ Upserted(s, id, f) = long
  BY DEF Upserted, entry, long
<1> DEFINE replaced == [k \in DOMAIN s |-> IF s[k].id = id THEN entry ELSE s[k]]
           Known(r) == \A i \in DOMAIN r : r[i] = entry \/ \E j \in DOMAIN s : r[i] = s[j]
<1>6. Known(replaced)
  OBVIOUS
<1>7. Known(long) /\ Known(Tail(long))
  BY <1>3, <1>4
<1> HIDE DEF replaced, Known
<1>8. Known(Upserted(s, id, f))
  BY <1>5, <1>6, <1>7 DEF replaced
<1> QED BY <1>8 DEF Known, entry

\* A durable withdrawal keeps what the entries are about.
LEMMA WithdrawnFacts ==
    ASSUME NEW s \in Seq(DurableFinding), NEW id
    PROVE  /\ DOMAIN Withdrawn(s, id) = DOMAIN s
           /\ \A i \in DOMAIN s :
                 /\ Withdrawn(s, id)[i].id = s[i].id
                 /\ Withdrawn(s, id)[i].body.assessment = s[i].body.assessment
                 /\ Withdrawn(s, id)[i].body.plan = s[i].body.plan
<1>1. DOMAIN Withdrawn(s, id) = DOMAIN s
  BY DEF Withdrawn
<1>2. ASSUME NEW i \in DOMAIN s
      PROVE  /\ Withdrawn(s, id)[i].id = s[i].id
             /\ Withdrawn(s, id)[i].body.assessment = s[i].body.assessment
             /\ Withdrawn(s, id)[i].body.plan = s[i].body.plan
  <2>1. s[i] \in DurableFinding /\ s[i].body \in Finding
    <3>1. s[i] \in DurableFinding
      OBVIOUS
    <3> QED BY <3>1 DEF DurableFinding
  <2> DEFINE body == [s[i].body EXCEPT !.state = "Withdrawn",
                                       !.cause = "withdrawal", !.updated = now]
  <2>2. body.assessment = s[i].body.assessment /\ body.plan = s[i].body.plan
    BY <2>1 DEF Finding
  <2>3. Withdrawn(s, id)[i] = IF s[i].id = id THEN [s[i] EXCEPT !.body = body]
                              ELSE s[i]
    BY DEF Withdrawn
  <2> HIDE DEF body
  <2> QED BY <2>1, <2>2, <2>3 DEF DurableFinding
<1> QED BY <1>1, <1>2

\* The outcomes of publish_finding: registered, refused, or cut short.
LEMMA PublishFacts ==
    ASSUME TypeOK, NEW a \in held, PublishFinding(a)
    PROVE  /\ NewFinding(a) \in Finding /\ up /\ Publishable(a)
           /\ \E id \in FindingId :
                /\ id \in Identities(Content(a))
                /\ minted' = With(minted, Content(a), id)
                /\ disk'.findings = Upserted(disk.findings, id, NewFinding(a))
                /\ \/ /\ CanRegister(findings, id)
                      /\ findings' = Register(findings, id, NewFinding(a))
                      /\ Audit("Recommendation", id, NoIntent)
                      /\ UNCHANGED <<up, fence, plans, applications>>
                   \/ UNCHANGED <<up, fence, findings, plans, applications, audit>>
                   \/ Halt
<1>1. NewFinding(a) \in Finding
  BY NewFindingType
<1>2. up /\ Publishable(a)
  BY DEF PublishFinding
<1>3. disk \in Document /\ minted \in [DOMAIN minted -> FindingId]
  BY DEF TypeOK
<1>4. PICK id \in Identities(Content(a)) :
         /\ minted' = With(minted, Content(a), id)
         /\ disk' = [disk EXCEPT !.findings = Upserted(@, id, NewFinding(a))]
         /\ \/ /\ CanRegister(findings, id)
               /\ findings' = Register(findings, id, NewFinding(a))
               /\ Audit("Recommendation", id, NoIntent)
               /\ UNCHANGED <<up, fence, plans, applications>>
            \/ UNCHANGED <<up, fence, findings, plans, applications, audit>>
            \/ Halt
  BY DEF PublishFinding
<1>5. id \in FindingId
  BY <1>3, <1>4 DEF Identities
<1>6. disk'.findings = Upserted(disk.findings, id, NewFinding(a))
  BY <1>3, <1>4 DEF Document
<1> QED BY <1>1, <1>2, <1>4, <1>5, <1>6

\* A new finding is identified by its content.
LEMMA PublishIdentified ==
    ASSUME TypeOK, Identified, Planned, NEW a \in held, PublishFinding(a)
    PROVE  Identified' /\ Planned'
<1> DEFINE f == NewFinding(a)
           content == Content(a)
<1>1. f \in Finding /\ f.assessment = a /\ f.plan = NoPlan /\ content.assessment = a
  BY PublishFacts DEF NewFinding, Content
<1>2. PICK id \in FindingId :
         /\ id \in Identities(content)
         /\ minted' = With(minted, content, id)
         /\ disk'.findings = Upserted(disk.findings, id, f)
         /\ \/ CanRegister(findings, id) /\ findings' = Register(findings, id, f)
               /\ UNCHANGED <<plans, applications>>
            \/ UNCHANGED <<findings, plans, applications>>
            \/ Halt
  BY PublishFacts
<1>3. /\ disk.findings \in Seq(DurableFinding)
      /\ DOMAIN findings \subseteq FindingId /\ findings \in [DOMAIN findings -> Finding]
  BY DEF TypeOK, Document
<1> HIDE DEF f, content
<1>4. /\ DOMAIN minted' = DOMAIN minted \cup {content} /\ minted'[content] = id
      /\ \A c \in DOMAIN minted : minted'[c] = minted[c]
      /\ \A c \in DOMAIN minted : minted[c] = id => c = content
  <2>1. CASE content \in DOMAIN minted
    <3>1. id = minted[content]
      BY <1>2, <2>1 DEF Identities
    <3> QED BY <1>2, <2>1, <3>1 DEF With, Identified
  <2>2. CASE content \notin DOMAIN minted
    <3>1. \A c \in DOMAIN minted : minted[c] # id
      BY <1>2, <2>2 DEF Identities
    <3> QED BY <1>2, <2>2, <3>1 DEF With
  <2> QED BY <2>1, <2>2
<1>5. \A c, d \in DOMAIN minted' : minted'[c] = minted'[d] => c = d
  BY <1>4 DEF Identified
<1>6. ASSUME NEW i, NEW b, NamedBy(minted, i, b) PROVE NamedBy(minted', i, b)
  BY <1>4, <1>6 DEF NamedBy
<1>7. NamedBy(minted', id, a)
  BY <1>1, <1>4 DEF NamedBy
<1>8. \A i \in DOMAIN disk'.findings :
         /\ NamedBy(minted', disk'.findings[i].id, disk'.findings[i].body.assessment)
         /\ disk'.findings[i].body.plan = NoPlan
  <2> SUFFICES ASSUME NEW i \in DOMAIN disk'.findings
               PROVE  /\ NamedBy(minted', disk'.findings[i].id,
                                 disk'.findings[i].body.assessment)
                      /\ disk'.findings[i].body.plan = NoPlan
    OBVIOUS
  <2>1. \/ disk'.findings[i] = [id |-> id, body |-> f]
        \/ \E j \in DOMAIN disk.findings : disk'.findings[i] = disk.findings[j]
    BY <1>1, <1>2, <1>3, UpsertedFacts
  <2> QED BY <1>1, <1>6, <1>7, <2>1 DEF Identified, Planned
<1>9. /\ \A k \in DOMAIN findings' :
            NamedBy(minted', k, findings'[k].assessment) /\
            (findings'[k].plan # NoPlan => findings'[k].plan.assessment = findings'[k].assessment)
      /\ DOMAIN applications' \subseteq DOMAIN applications
      /\ plans' \subseteq plans
  <2>1. CASE CanRegister(findings, id) /\ findings' = Register(findings, id, f)
             /\ UNCHANGED <<plans, applications>>
    <3>1. \A k \in DOMAIN findings' :
             \/ k = id /\ findings'[k] = f
             \/ k \in DOMAIN findings /\ findings'[k] = findings[k]
      BY <1>3, <2>1, RegisterFacts
    <3> QED BY <1>1, <1>6, <1>7, <2>1, <3>1 DEF Identified, Planned
  <2>2. CASE UNCHANGED <<findings, plans, applications>>
    BY <1>6, <2>2 DEF Identified, Planned
  <2>3. CASE Halt
    <3>1. DOMAIN findings' = {} /\ DOMAIN applications' = {} /\ plans' = {}
      BY <2>3 DEF Halt, Empty
    <3> QED BY <3>1
  <2> QED BY <1>2, <2>1, <2>2, <2>3
<1>10. Identified'
  BY <1>5, <1>6, <1>8, <1>9 DEF Identified
<1>11. Planned'
  BY <1>8, <1>9 DEF Planned
<1> QED BY <1>10, <1>11

\* A plan is attached to a finding of its own assessment.
LEMMA PlanIdentified ==
    ASSUME TypeOK, Identified, Planned, NEW a \in held, PlanContainment(a)
    PROVE  Identified' /\ Planned'
<1> DEFINE p == [assessment |-> a, targets |-> Cover[a.witnesses]]
<1>1. /\ DOMAIN findings' = DOMAIN findings /\ plans' \subseteq plans \cup {p}
      /\ \A id \in DOMAIN findings :
            /\ findings'[id].assessment = findings[id].assessment
            /\ \/ findings'[id].plan = findings[id].plan
               \/ findings[id].assessment = a /\ findings'[id].plan = p
  BY PlanFacts
<1>2. UNCHANGED <<minted, disk, applications>>
  BY DEF PlanContainment
<1>3. p.assessment = a /\ p.targets = Cover[p.assessment.witnesses]
  OBVIOUS
<1> HIDE DEF p
<1> QED BY <1>1, <1>2, <1>3 DEF Identified, Planned

\* A withdrawal changes no assessment, in memory or on disk.
LEMMA WithdrawIdentified ==
    ASSUME TypeOK, Identified, Planned, NEW id, WithdrawFinding(id)
    PROVE  Identified' /\ Planned'
<1>1. /\ disk.findings \in Seq(DurableFinding) /\ disk \in Document
      /\ findings \in [DOMAIN findings -> Finding]
  BY DEF TypeOK, Document
<1>2. disk'.findings = Withdrawn(disk.findings, id)
  BY <1>1 DEF WithdrawFinding, Document
<1>3. /\ DOMAIN disk'.findings = DOMAIN disk.findings
      /\ \A i \in DOMAIN disk.findings :
            /\ disk'.findings[i].id = disk.findings[i].id
            /\ disk'.findings[i].body.assessment = disk.findings[i].body.assessment
            /\ disk'.findings[i].body.plan = disk.findings[i].body.plan
  BY <1>1, <1>2, WithdrawnFacts
<1>4. /\ DOMAIN findings' = DOMAIN findings
      /\ \A i \in DOMAIN findings :
            /\ findings'[i].assessment = findings[i].assessment
            /\ findings'[i].plan = findings[i].plan
  <2>1. \/ findings' = findings
        \/ findings' = UpdateState(findings, id, "Withdrawn", "withdrawal")
    BY DEF WithdrawFinding
  <2> QED BY <1>1, <2>1, UpdateStateFacts
<1>5. UNCHANGED <<minted, plans, applications>>
  BY DEF WithdrawFinding
<1> QED BY <1>3, <1>4, <1>5 DEF Identified, Planned

\* A request reaches its own finding, under a plan that is retained.
LEMMA AuthorizeFacts ==
    ASSUME TypeOK, NEW id \in DOMAIN findings, NEW grant,
           NEW targets \in SUBSET Resource,
           AuthorizeContainment(id, grant, targets)
    PROVE  LET intent == [finding |-> id, plan |-> findings[id].plan,
                          targets |-> targets, issued |-> now]
           IN  /\ id \in LiveIds(findings) /\ findings[id].assessment.fence = fence
               /\ findings[id].plan \in plans /\ findings[id].plan # NoPlan
               /\ findings[id].plan.assessment.fence = fence
               /\ targets # {} /\ targets \subseteq findings[id].plan.targets
               /\ intent \in Intent
               /\ applications' = With(applications, intent,
                                       [acks |-> 0, effects |-> {}])
               /\ DOMAIN findings' = DOMAIN findings
               /\ \A i \in DOMAIN findings :
                     /\ findings'[i].assessment = findings[i].assessment
                     /\ findings'[i].plan = findings[i].plan
                     /\ i # id => findings'[i] = findings[i]
               /\ findings'[id].intent = intent
               /\ findings'[id].state = "Requested"
               /\ findings'[id].cause = findings[id].cause
               /\ Audit("Authorization", id, intent)
               /\ UNCHANGED <<up, fence, minted, plans, disk>>
<1> DEFINE intent == [finding |-> id, plan |-> findings[id].plan,
                      targets |-> targets, issued |-> now]
           asked == [findings EXCEPT ![id].intent = intent]
<1>1. /\ id \in LiveIds(findings) /\ findings[id].assessment.fence = fence
      /\ findings[id].plan \in plans
      /\ findings[id].plan.assessment.fence = fence
      /\ targets \subseteq findings[id].plan.targets
      /\ GrantAuthorizes(grant, targets)
      /\ applications' = With(applications, intent, [acks |-> 0, effects |-> {}])
      /\ findings' = UpdateState(asked, id, "Requested", "none")
      /\ Audit("Authorization", id, intent)
      /\ UNCHANGED <<up, fence, minted, plans, disk>>
  BY DEF AuthorizeContainment
<1>2. findings[id].plan \in Plan /\ findings[id].plan # NoPlan
  BY <1>1, NoPlanAssumption DEF TypeOK
<1>3. targets # {}
  BY <1>1 DEF GrantAuthorizes
<1>4. intent \in Intent
  BY <1>2 DEF TypeOK, Intent
<1>5. findings \in [DOMAIN findings -> Finding] /\ findings[id] \in Finding
  BY DEF TypeOK
<1> HIDE DEF intent
<1>6. /\ asked \in [DOMAIN asked -> Finding] /\ DOMAIN asked = DOMAIN findings
      /\ \A i \in DOMAIN findings : i # id => asked[i] = findings[i]
      /\ asked[id].assessment = findings[id].assessment
      /\ asked[id].plan = findings[id].plan
      /\ asked[id].state = findings[id].state
      /\ asked[id].cause = findings[id].cause
      /\ asked[id].intent = intent
  BY <1>4, <1>5 DEF Finding
<1> HIDE DEF asked
<1>7. ~ IsTerminal(asked[id])
  BY <1>1, <1>6 DEF LiveIds, IsTerminal
<1>8. /\ DOMAIN findings' = DOMAIN asked
      /\ \A i \in DOMAIN asked :
            /\ findings'[i].assessment = asked[i].assessment
            /\ findings'[i].plan = asked[i].plan
            /\ i # id => findings'[i] = asked[i]
      /\ findings'[id].intent = asked[id].intent
      /\ findings'[id].state = "Requested"
      /\ findings'[id].cause = asked[id].cause
  BY <1>1, <1>6, <1>7, UpdateStateFacts
<1>9. /\ DOMAIN findings' = DOMAIN findings
      /\ \A i \in DOMAIN findings :
            /\ findings'[i].assessment = findings[i].assessment
            /\ findings'[i].plan = findings[i].plan
            /\ i # id => findings'[i] = findings[i]
      /\ findings'[id].intent = intent
      /\ findings'[id].state = "Requested"
      /\ findings'[id].cause = findings[id].cause
  BY <1>6, <1>8
<1> QED BY <1>1, <1>2, <1>3, <1>4, <1>9 DEF intent

\* An intent carries the plan of the finding it is issued for.
LEMMA AuthorizeIdentified ==
    ASSUME TypeOK, Identified, Planned, NEW id \in DOMAIN findings, NEW grant,
           NEW targets \in SUBSET Resource,
           AuthorizeContainment(id, grant, targets)
    PROVE  Identified' /\ Planned'
<1> DEFINE intent == [finding |-> id, plan |-> findings[id].plan,
                      targets |-> targets, issued |-> now]
<1>1. /\ findings[id].plan \in plans /\ findings[id].plan # NoPlan
      /\ targets # {} /\ targets \subseteq findings[id].plan.targets
      /\ applications' = With(applications, intent, [acks |-> 0, effects |-> {}])
      /\ DOMAIN findings' = DOMAIN findings
      /\ \A i \in DOMAIN findings :
            /\ findings'[i].assessment = findings[i].assessment
            /\ findings'[i].plan = findings[i].plan
      /\ UNCHANGED <<minted, plans, disk>>
  BY AuthorizeFacts
<1>2. /\ intent.finding = id /\ intent.plan = findings[id].plan
      /\ intent.targets = targets
  OBVIOUS
<1> HIDE DEF intent
<1>3. DOMAIN applications' = DOMAIN applications \cup {intent}
  BY <1>1 DEF With
<1>4. /\ intent.plan.assessment = findings[id].assessment
      /\ intent.targets # {}
      /\ intent.targets \subseteq Cover[intent.plan.assessment.witnesses]
  BY <1>1, <1>2 DEF Planned
<1>5. Identified'
  BY <1>1, <1>2, <1>3, <1>4 DEF Identified
<1>6. Planned'
  BY <1>1, <1>3, <1>4 DEF Planned
<1> QED BY <1>5, <1>6

\* What is restored is what was stored under the same identity.
LEMMA OpenIdentified ==
    ASSUME TypeOK, Identified, Planned, Open
    PROVE  Identified' /\ Planned'
<1>1. disk.findings \in Seq(DurableFinding) /\ disk \in Document
  BY DEF TypeOK, Document
<1>2. /\ findings' = Restored(disk.findings) /\ disk'.findings = disk.findings
      /\ UNCHANGED <<minted, plans, applications>>
  BY <1>1 DEF Open, Document
<1>3. \A id \in DOMAIN findings' : \E i \in DOMAIN disk.findings :
         /\ disk.findings[i].id = id
         /\ findings'[id].assessment = disk.findings[i].body.assessment
         /\ findings'[id].plan = disk.findings[i].body.plan
  BY <1>1, <1>2, RestoredFacts
<1> QED BY <1>2, <1>3 DEF Identified, Planned

\* Identified and Planned are inductive together.
LEMMA IdentifiedNext ==
    TypeOK /\ FenceKnown /\ Identified /\ Planned /\ [Next]_vars
        => Identified' /\ Planned'
<1> SUFFICES ASSUME TypeOK, FenceKnown, Identified, Planned, [Next]_vars
             PROVE  Identified' /\ Planned'
  OBVIOUS
<1>1. CASE FenceMove
  BY <1>1, MovePreserves, PreservingKeeps
<1>2. CASE Answer \/ UNCHANGED vars
  BY <1>2, AnswerPreserves, PreservingKeeps
<1>3. CASE Open
  BY <1>3, OpenIdentified
<1>4. CASE OtherCall /\ ~ Answer
  BY <1>4, PublishIdentified, PlanIdentified, WithdrawIdentified,
     AuthorizeIdentified DEF OtherCall, Answer
<1> QED
  BY <1>1, <1>2, <1>3, <1>4, KindsOfSteps

\* Hence they hold in every reachable state.
LEMMA IdentifiedAlways == Spec => [](Identified /\ Planned)
<1>1. Init => Identified /\ Planned
  <2> SUFFICES ASSUME Init PROVE Identified /\ Planned
    OBVIOUS
  <2>1. /\ DOMAIN findings = {} /\ DOMAIN minted = {} /\ DOMAIN applications = {}
        /\ plans = {} /\ disk.findings = << >>
    BY DEF Init, Empty
  <2> QED BY <2>1 DEF Identified, Planned
<1> QED
  BY <1>1, IdentifiedNext, KnownAlways, PTL DEF Spec

\* They leave an intent no other loop than its finding's.
LEMMA LoopOfIntent == Identified /\ Planned => ContainmentIsForTheProvenLoop
<1> SUFFICES ASSUME Identified, Planned,
                    NEW i \in DOMAIN applications, i.finding \in LiveIds(findings)
             PROVE  i.plan.assessment = findings[i.finding].assessment
  BY DEF ContainmentIsForTheProvenLoop, Planned
<1>1. PICK c \in DOMAIN minted :
         minted[c] = i.finding /\ c.assessment = i.plan.assessment
  BY DEF Identified, NamedBy
<1>2. PICK d \in DOMAIN minted :
         /\ minted[d] = i.finding
         /\ d.assessment = findings[i.finding].assessment
  BY DEF Identified, NamedBy, LiveIds
<1>3. c = d
  BY <1>1, <1>2 DEF Identified
<1> QED BY <1>1, <1>2, <1>3

\* No intent ever names a target that was not planned for the loop its finding
\* was published for, although identities are reused after an eviction or a
\* restart and plans are evicted (plan_containment, authorize_containment).
THEOREM ContainmentStaysOnItsLoop == Spec => []ContainmentIsForTheProvenLoop
BY LoopOfIntent, IdentifiedAlways, PTL

-----------------------------------------------------------------------------
(* Verified is observed *)

\* Effects are never forgotten while the process runs, except those of a
\* request that is made again.
LEMMA ObservedStays ==
    ASSUME VerifiedIsObserved,
           \A id \in DOMAIN findings' : findings'[id].state = "Verified" =>
              /\ id \in DOMAIN findings /\ findings[id].state = "Verified"
              /\ findings'[id].assessment = findings[id].assessment
              /\ \A i \in DOMAIN applications : i.finding = id =>
                    /\ i \in DOMAIN applications'
                    /\ applications[i].effects \subseteq applications'[i].effects
    PROVE  VerifiedIsObserved'
BY DEF VerifiedIsObserved

\* A move or a stop between its writes verifies nothing.
LEMMA ObservedMove ==
    ASSUME TypeOK, FenceKnown, VerifiedIsObserved, FenceMove
    PROVE  VerifiedIsObserved'
<1>1. CASE Cut
  <2>1. DOMAIN findings' = {}
    BY <1>1 DEF Cut, Halt, Empty
  <2> QED BY <2>1 DEF VerifiedIsObserved
<1>2. ASSUME NEW f, NEW d, NEW lineage, FenceStep(f, d, lineage)
      PROVE  VerifiedIsObserved'
  <2>1. findings \in [DOMAIN findings -> Finding] /\ f \in Fence
    BY <1>2 DEF TypeOK, FenceStep
  <2>2. /\ findings' = findings \/ findings' = FenceStale(findings, f)
        /\ UNCHANGED applications
    BY <1>2 DEF FenceStep, MoveFence
  <2>3. /\ DOMAIN findings' = DOMAIN findings
        /\ \A id \in DOMAIN findings :
              /\ findings'[id].assessment = findings[id].assessment
              /\ findings'[id] = findings[id] \/ findings'[id].state = "Stale"
    BY <2>1, <2>2, FenceStaleFacts
  <2> QED BY <2>2, <2>3, ObservedStays
<1> QED BY <1>1, <1>2, FenceMoveSteps

\* An acknowledgement verifies nothing.
LEMMA ObservedAcknowledgement ==
    ASSUME TypeOK, VerifiedIsObserved,
           NEW intent \in DOMAIN applications, RecordAcknowledgement(intent)
    PROVE  VerifiedIsObserved'
<1>1. /\ findings \in [DOMAIN findings -> Finding]
      /\ applications \in [DOMAIN applications -> Application]
  BY DEF TypeOK
<1>2. findings' = UpdateState(findings, intent.finding, "AppliedUnverified", "none")
  BY DEF RecordAcknowledgement
<1>3. /\ DOMAIN findings' = DOMAIN findings
      /\ \A id \in DOMAIN findings :
            /\ findings'[id].assessment = findings[id].assessment
            /\ findings'[id] = findings[id] \/ findings'[id].state = "AppliedUnverified"
  BY <1>1, <1>2, UpdateStateFacts
<1>4. /\ DOMAIN applications' = DOMAIN applications
      /\ \A i \in DOMAIN applications : applications'[i].effects = applications[i].effects
  BY <1>1 DEF RecordAcknowledgement, Application
<1> QED BY <1>3, <1>4, ObservedStays

\* An effect verifies only when it is the last of its intent's targets.
LEMMA ObservedEffect ==
    ASSUME TypeOK, Identified, Planned, VerifiedIsObserved,
           NEW intent \in DOMAIN applications, NEW target, NEW observed,
           RecordVerifiedEffect(intent, target, observed)
    PROVE  VerifiedIsObserved'
<1> DEFINE effects == applications[intent].effects \cup {target}
           to == IF FullyVerified(intent, effects)
                 THEN "Verified" ELSE "AppliedUnverified"
<1>1. /\ findings \in [DOMAIN findings -> Finding]
      /\ applications \in [DOMAIN applications -> Application]
  BY DEF TypeOK
<1>2. /\ findings' = UpdateState(findings, intent.finding, to, "none")
      /\ applications' = [applications EXCEPT ![intent].effects = effects]
  BY DEF RecordVerifiedEffect
<1>3. to # "Withdrawn" /\ (to = "Verified" => intent.targets \subseteq effects)
  BY DEF FullyVerified
<1> HIDE DEF to
<1>4. /\ DOMAIN findings' = DOMAIN findings
      /\ \A id \in DOMAIN findings :
            /\ findings'[id].assessment = findings[id].assessment
            /\ \/ findings'[id] = findings[id]
               \/ /\ id = intent.finding /\ findings'[id].state = to
                  /\ ~ IsTerminal(findings[id])
  BY <1>1, <1>2, <1>3, UpdateStateFacts
<1>5. /\ DOMAIN applications' = DOMAIN applications
      /\ \A i \in DOMAIN applications :
            applications[i].effects \subseteq applications'[i].effects
      /\ applications'[intent].effects = effects
  BY <1>1, <1>2 DEF Application
<1> SUFFICES ASSUME NEW id \in DOMAIN findings', findings'[id].state = "Verified"
             PROVE  \E i \in DOMAIN applications' :
                       /\ i.finding = id
                       /\ FenceOf(i) = findings'[id].assessment.fence
                       /\ i.targets # {}
                       /\ i.targets \subseteq applications'[i].effects
  BY DEF VerifiedIsObserved
<1>6. CASE findings'[id] = findings[id]
  BY <1>4, <1>5, <1>6 DEF VerifiedIsObserved
<1>7. CASE /\ id = intent.finding /\ to = "Verified"
           /\ ~ IsTerminal(findings[id])
  <2>1. id \in LiveIds(findings)
    BY <1>4, <1>7 DEF LiveIds
  <2>2. intent.plan.assessment = findings[id].assessment /\ intent.targets # {}
    BY <1>7, <2>1, LoopOfIntent DEF ContainmentIsForTheProvenLoop
  <2>3. FenceOf(intent) = findings'[id].assessment.fence
    BY <1>4, <2>2 DEF FenceOf
  <2> QED BY <1>3, <1>5, <1>7, <2>2, <2>3
<1> QED BY <1>4, <1>6, <1>7

\* VerifiedIsObserved is inductive, given who issued each intent.
LEMMA ObservedNext ==
    ASSUME TypeOK, FenceKnown, Identified, Planned, VerifiedIsObserved, [Next]_vars
    PROVE  VerifiedIsObserved'
<1>1. findings \in [DOMAIN findings -> Finding] /\ DOMAIN findings \subseteq FindingId
  BY DEF TypeOK
<1>2. ASSUME UNCHANGED <<findings, applications>> PROVE VerifiedIsObserved'
  BY <1>2 DEF VerifiedIsObserved
<1>3. ASSUME Halt PROVE VerifiedIsObserved'
  <2>1. DOMAIN findings' = {}
    BY <1>3 DEF Halt, Empty
  <2> QED BY <2>1 DEF VerifiedIsObserved
<1>4. ASSUME NEW S, SubmitObservation(S) \/ Tick(S) \/ Detect(S) \/ ClearEvidence
      PROVE  VerifiedIsObserved'
  BY <1>2, <1>4 DEF SubmitObservation, Tick, Detect, ClearEvidence
<1>5. ASSUME NEW a \in held, PublishFinding(a) PROVE VerifiedIsObserved'
  <2>1. ASSUME NEW id, CanRegister(findings, id), UNCHANGED applications,
               findings' = Register(findings, id, NewFinding(a))
        PROVE  VerifiedIsObserved'
    <3>1. \A k \in DOMAIN findings' :
             \/ k = id /\ findings'[k] = NewFinding(a)
             \/ k \in DOMAIN findings /\ findings'[k] = findings[k]
      BY <1>1, <2>1, RegisterFacts
    <3>2. NewFinding(a).state = "Confirmed"
      BY DEF NewFinding
    <3> QED BY <2>1, <3>1, <3>2, ObservedStays
  <2> QED BY <1>2, <1>3, <1>5, <2>1, PublishFacts
<1>6. ASSUME NEW a \in held, PlanContainment(a) PROVE VerifiedIsObserved'
  <2>1. UNCHANGED applications
    BY <1>6 DEF PlanContainment
  <2>2. /\ DOMAIN findings' = DOMAIN findings
        /\ \A id \in DOMAIN findings :
              /\ findings'[id].assessment = findings[id].assessment
              /\ findings'[id].state = findings[id].state
    BY <1>6, PlanFacts
  <2> QED BY <2>1, <2>2, ObservedStays
<1>7. ASSUME NEW id, WithdrawFinding(id) PROVE VerifiedIsObserved'
  <2>1. /\ \/ findings' = findings
           \/ findings' = UpdateState(findings, id, "Withdrawn", "withdrawal")
        /\ UNCHANGED applications
    BY <1>7 DEF WithdrawFinding
  <2>2. /\ DOMAIN findings' = DOMAIN findings
        /\ \A k \in DOMAIN findings :
              findings'[k] = findings[k] \/ findings'[k].state = "Withdrawn"
    BY <1>1, <2>1, UpdateStateFacts
  <2> QED BY <2>1, <2>2, ObservedStays
<1>8. ASSUME NEW id \in DOMAIN findings, NEW grant,
             NEW targets \in SUBSET Resource,
             AuthorizeContainment(id, grant, targets)
      PROVE  VerifiedIsObserved'
  <2> DEFINE intent == [finding |-> id, plan |-> findings[id].plan,
                        targets |-> targets, issued |-> now]
  <2>1. /\ applications' = With(applications, intent, [acks |-> 0, effects |-> {}])
        /\ DOMAIN findings' = DOMAIN findings
        /\ \A i \in DOMAIN findings : i # id => findings'[i] = findings[i]
        /\ findings'[id].state = "Requested"
    BY <1>8, AuthorizeFacts
  <2>2. intent.finding = id
    OBVIOUS
  <2> HIDE DEF intent
  <2>3. \A i \in DOMAIN applications : i.finding # id =>
           i \in DOMAIN applications' /\ applications'[i] = applications[i]
    BY <2>1, <2>2 DEF With
  <2> QED BY <2>1, <2>3, ObservedStays
<1>9. CASE Open
  <2>1. disk.findings \in Seq(DurableFinding) /\ findings' = Restored(disk.findings)
    BY <1>9 DEF Open, TypeOK, Document, LineageBounded
  <2>2. \A id \in DOMAIN findings' : findings'[id].state = "Fenced"
    BY <2>1, RestoredFacts
  <2> QED BY <2>2 DEF VerifiedIsObserved
<1>10. CASE FenceMove
  BY <1>10, ObservedMove
<1>11. CASE OtherCall
  BY <1>3, <1>4, <1>5, <1>6, <1>7, <1>8, <1>11, ObservedAcknowledgement,
     ObservedEffect DEF OtherCall, Stop
<1>12. CASE UNCHANGED vars
  BY <1>2, <1>12 DEF vars
<1> QED
  BY <1>9, <1>10, <1>11, <1>12, KindsOfSteps

\* A finding never reads as verified by acknowledgements, by effects observed
\* for another finding or under another fence, or by some of the targets of a
\* request (record_acknowledgement, record_verified_effect).
THEOREM VerifiedWasObserved == Spec => []VerifiedIsObserved
<1>1. Init => VerifiedIsObserved
  BY DEF Init, Empty, VerifiedIsObserved
<1>2. TypeOK /\ FenceKnown /\ Identified /\ Planned /\ VerifiedIsObserved /\ [Next]_vars
         => VerifiedIsObserved'
  BY ObservedNext
<1> QED
  BY <1>1, <1>2, KnownAlways, IdentifiedAlways, PTL DEF Spec

-----------------------------------------------------------------------------
(* Causes are true *)

\* A fence that is left differs from the fence in force for good, because
\* every component only grows: what a finding records of its end stays true.
Accurate ==
    /\ \A id \in LiveIds(findings) :
          Dominates(fence, findings[id].assessment.fence)
    /\ \A i \in DOMAIN disk.findings :
          disk.findings[i].body.assessment.fence.boot <= disk.boot
    /\ \A id \in DOMAIN findings :
          /\ IsTerminal(findings[id]) <=> findings[id].cause # "none"
          /\ findings[id].state \in {"Stale", "Fenced"} =>
                /\ findings[id].cause \in Component
                /\ findings[id].assessment.fence[findings[id].cause]
                      < fence[findings[id].cause]

\* The same of one finding, under one fence.
Honest(finding, f) ==
    /\ ~ IsTerminal(finding) => Dominates(f, finding.assessment.fence)
    /\ IsTerminal(finding) <=> finding.cause # "none"
    /\ finding.state \in {"Stale", "Fenced"} =>
          /\ finding.cause \in Component
          /\ finding.assessment.fence[finding.cause] < f[finding.cause]

StoredBefore ==
    \A i \in DOMAIN disk.findings :
        disk.findings[i].body.assessment.fence.boot <= disk.boot

\* Accurate, finding by finding.
LEMMA AccurateIsHonest ==
    Accurate <=> StoredBefore /\ \A id \in DOMAIN findings : Honest(findings[id], fence)
BY DEF Accurate, StoredBefore, Honest, LiveIds

\* What is honest stays so under every later fence.
LEMMA HonestUnderLater ==
    ASSUME NEW g \in Finding, NEW f \in Fence, NEW h \in Fence,
           Honest(g, f), Dominates(h, f)
    PROVE  Honest(g, h)
<1>1. g.assessment.fence \in Fence
  BY DEF Finding, Assessment
<1>2. ~ IsTerminal(g) => Dominates(h, g.assessment.fence)
  BY <1>1, DominatesIsOrder DEF Honest
<1>3. ASSUME NEW c \in Component, g.assessment.fence[c] < f[c]
      PROVE  g.assessment.fence[c] < h[c]
  <2>1. g.assessment.fence[c] \in Nat /\ f[c] \in Nat /\ h[c] \in Nat
    BY <1>1 DEF Fence
  <2>2. f[c] <= h[c]
    BY DEF Dominates
  <2> QED BY <1>3, <2>1, <2>2
<1> QED BY <1>2, <1>3 DEF Honest

\* What update_state writes keeps a finding honest.
LEMMA HonestUpdate ==
    ASSUME NEW fs, fs \in [DOMAIN fs -> Finding], NEW id, NEW state, NEW cause,
           \/ state \in Live /\ cause = "none"
           \/ state = "Withdrawn" /\ cause = "withdrawal",
           \A i \in DOMAIN fs : Honest(fs[i], fence)
    PROVE  \A i \in DOMAIN UpdateState(fs, id, state, cause) :
              Honest(UpdateState(fs, id, state, cause)[i], fence)
<1> DEFINE g == UpdateState(fs, id, state, cause)
<1>1. /\ DOMAIN g = DOMAIN fs
      /\ \A i \in DOMAIN fs :
            /\ g[i].assessment = fs[i].assessment
            /\ \/ g[i] = fs[i]
               \/ /\ g[i].state = state
                  /\ g[i].cause = IF cause = "none" THEN fs[i].cause ELSE cause
                  /\ IsTerminal(fs[i]) => state = "Withdrawn"
  BY UpdateStateFacts
<1> HIDE DEF g
<1>2. ASSUME NEW i \in DOMAIN g PROVE Honest(g[i], fence)
  <2>1. CASE g[i] = fs[i]
    BY <1>1, <2>1
  <2>2. CASE /\ g[i].state = state
             /\ g[i].cause = IF cause = "none" THEN fs[i].cause ELSE cause
             /\ IsTerminal(fs[i]) => state = "Withdrawn"
    <3>1. CASE state \in Live /\ cause = "none"
      <4>1. ~ IsTerminal(fs[i])
        BY <2>2, <3>1 DEF Live
      <4> QED BY <1>1, <2>2, <3>1, <4>1 DEF Honest, IsTerminal, Terminal, Live
    <3>2. CASE state = "Withdrawn" /\ cause = "withdrawal"
      BY <1>1, <2>2, <3>2 DEF Honest, IsTerminal, Terminal
    <3> QED BY <3>1, <3>2
  <2> QED BY <1>1, <2>1, <2>2
<1> QED BY <1>2 DEF g

\* A move fences with the component that moved.
LEMMA AccurateMove ==
    ASSUME TypeOK, FenceKnown, Accurate, FenceMove
    PROVE  Accurate'
<1>1. \A id \in DOMAIN findings : Honest(findings[id], fence)
  BY AccurateIsHonest
<1>2. StoredBefore
  BY AccurateIsHonest
<1>3. CASE Cut
  <2>1. DOMAIN findings' = {}
    BY <1>3 DEF Cut, Halt, Empty
  <2>2. StoredBefore'
    BY <1>2, <1>3 DEF Cut, SameStore, StoredBefore
  <2> QED BY <2>1, <2>2 DEF Accurate, StoredBefore, LiveIds
<1>4. ASSUME NEW f, NEW d, NEW lineage, FenceStep(f, d, lineage)
      PROVE  Accurate'
  <2>1. /\ findings \in [DOMAIN findings -> Finding]
        /\ f \in Fence /\ fence \in Fence /\ Dominates(f, fence)
    BY <1>4 DEF TypeOK, FenceStep
  <2>2. fence' = f /\ disk'.findings = disk.findings /\ disk'.boot = disk.boot
    BY <1>4, MoveFenceNumbers DEF FenceStep, SameStore
  <2>3. findings' = findings \/ findings' = FenceStale(findings, f)
    BY <1>4 DEF FenceStep, MoveFence
  <2>4. StoredBefore'
    BY <1>2, <2>2 DEF StoredBefore
  <2>5. \A id \in DOMAIN findings : Honest(findings[id], f)
    BY <1>1, <2>1, HonestUnderLater
  <2>6. DOMAIN findings' = DOMAIN findings
    BY <2>1, <2>3, FenceStaleFacts
  <2>7. ASSUME NEW id \in DOMAIN findings PROVE Honest(findings'[id], f)
    <3>1. CASE findings'[id] = findings[id]
      BY <2>5, <3>1
    <3>2. CASE /\ ~ IsTerminal(findings[id])
               /\ findings'[id].assessment = findings[id].assessment
               /\ findings'[id].state = "Stale"
               /\ findings'[id].cause \in Component
               /\ findings[id].assessment.fence[findings'[id].cause]
                     # f[findings'[id].cause]
      <4> DEFINE c == findings'[id].cause
                 e == findings[id].assessment.fence
      <4>1. e \in Fence
        BY <2>1 DEF Finding, Assessment
      <4>2. Dominates(f, e)
        BY <2>5, <3>2 DEF Honest
      <4>3. e[c] \in Nat /\ f[c] \in Nat /\ e[c] <= f[c]
        BY <2>1, <3>2, <4>1, <4>2 DEF Dominates, Fence
      <4>4. e[c] < f[c]
        BY <3>2, <4>3
      <4> QED
        BY <3>2, <4>4 DEF Honest, IsTerminal, Terminal, Component
    <3> QED BY <2>1, <2>3, <3>1, <3>2, FenceStaleFacts
  <2> QED
    BY <2>2, <2>4, <2>6, <2>7, AccurateIsHonest
       DEF Accurate, StoredBefore, Honest, LiveIds
<1> QED BY <1>3, <1>4, FenceMoveSteps

\* Accurate is inductive.
LEMMA AccurateNext ==
    ASSUME TypeOK, FenceKnown, Accurate, [Next]_vars
    PROVE  Accurate'
<1>1. /\ findings \in [DOMAIN findings -> Finding]
      /\ DOMAIN findings \subseteq FindingId
      /\ disk \in Document /\ disk.findings \in Seq(DurableFinding)
      /\ fence \in Fence /\ disk.boot \in Nat
  BY DEF TypeOK, Document
<1>2. StoredBefore /\ \A id \in DOMAIN findings : Honest(findings[id], fence)
  BY AccurateIsHonest
<1>3. ASSUME StoredBefore', fence' = fence,
             \A id \in DOMAIN findings' : Honest(findings'[id], fence)
      PROVE  Accurate'
  BY <1>3 DEF Accurate, StoredBefore, Honest, LiveIds
<1>4. ASSUME UNCHANGED <<findings, fence, disk>> PROVE Accurate'
  BY <1>2, <1>3, <1>4 DEF StoredBefore
<1>5. ASSUME Halt, StoredBefore' PROVE Accurate'
  <2>1. DOMAIN findings' = {} /\ fence' = fence
    BY <1>5 DEF Halt, Empty
  <2> QED BY <1>3, <1>5, <2>1
<1>6. ASSUME NEW S, SubmitObservation(S) \/ Tick(S) \/ Detect(S) \/ ClearEvidence
      PROVE  Accurate'
  BY <1>4, <1>6 DEF SubmitObservation, Tick, Detect, ClearEvidence
<1>7. ASSUME NEW a \in held, PublishFinding(a) PROVE Accurate'
  <2> DEFINE f == NewFinding(a)
  <2>1. /\ f \in Finding /\ f.assessment.fence = fence
        /\ f.state = "Confirmed" /\ f.cause = "none"
    BY <1>7, PublishFacts DEF Publishable, NewFinding
  <2>2. PICK id \in FindingId :
           /\ disk'.findings = Upserted(disk.findings, id, f)
           /\ \/ /\ CanRegister(findings, id)
                 /\ findings' = Register(findings, id, f) /\ UNCHANGED fence
              \/ UNCHANGED <<findings, fence>>
              \/ Halt
    BY <1>7, PublishFacts
  <2> HIDE DEF f
  <2>3. fence["boot"] = disk.boot /\ disk'.boot = disk.boot
    <3>1. \E fs : disk' = [disk EXCEPT !.findings = fs]
      BY <1>7 DEF PublishFinding
    <3> QED BY <1>1, <3>1 DEF FenceKnown, Document
  <2>4. StoredBefore'
    <3> SUFFICES ASSUME NEW i \in DOMAIN disk'.findings
                 PROVE  disk'.findings[i].body.assessment.fence["boot"] <= disk.boot
      BY <2>3 DEF StoredBefore
    <3>1. \/ disk'.findings[i] = [id |-> id, body |-> f]
          \/ \E j \in DOMAIN disk.findings : disk'.findings[i] = disk.findings[j]
      BY <1>1, <2>1, <2>2, UpsertedFacts
    <3> QED BY <1>1, <1>2, <2>1, <2>3, <3>1 DEF StoredBefore
  <2>5. Honest(f, fence)
    BY <1>1, <2>1, DominatesIsOrder DEF Honest, IsTerminal, Terminal
  <2>6. CASE CanRegister(findings, id) /\ UNCHANGED fence
             /\ findings' = Register(findings, id, f)
    <3>1. \A k \in DOMAIN findings' :
             \/ k = id /\ findings'[k] = f
             \/ k \in DOMAIN findings /\ findings'[k] = findings[k]
      BY <1>1, <2>6, RegisterFacts
    <3> QED BY <1>2, <1>3, <2>4, <2>5, <2>6, <3>1
  <2>7. CASE UNCHANGED <<findings, fence>>
    BY <1>2, <1>3, <2>4, <2>7
  <2> QED BY <1>5, <2>2, <2>4, <2>6, <2>7
<1>8. ASSUME NEW a \in held, PlanContainment(a) PROVE Accurate'
  <2>1. /\ DOMAIN findings' = DOMAIN findings
        /\ \A id \in DOMAIN findings :
              /\ findings'[id].assessment = findings[id].assessment
              /\ findings'[id].state = findings[id].state
              /\ findings'[id].cause = findings[id].cause
    BY <1>8, PlanFacts
  <2>2. \A id \in DOMAIN findings' : Honest(findings'[id], fence)
    BY <1>2, <2>1 DEF Honest, IsTerminal
  <2> QED BY <1>2, <1>3, <1>8, <2>2 DEF PlanContainment, StoredBefore
<1>9. ASSUME NEW id, WithdrawFinding(id) PROVE Accurate'
  <2>1. disk'.findings = Withdrawn(disk.findings, id) /\ disk'.boot = disk.boot
    BY <1>1, <1>9 DEF WithdrawFinding, Document
  <2>2. StoredBefore'
    BY <1>1, <1>2, <2>1, WithdrawnFacts DEF StoredBefore
  <2>3. \/ findings' = findings
        \/ findings' = UpdateState(findings, id, "Withdrawn", "withdrawal")
    BY <1>9 DEF WithdrawFinding
  <2>4. \A k \in DOMAIN findings' : Honest(findings'[k], fence)
    BY <1>1, <1>2, <2>3, HonestUpdate
  <2> QED BY <1>3, <1>9, <2>2, <2>4 DEF WithdrawFinding
<1>10. ASSUME NEW id \in DOMAIN findings, NEW grant,
              NEW targets \in SUBSET Resource,
              AuthorizeContainment(id, grant, targets)
       PROVE  Accurate'
  <2>1. /\ DOMAIN findings' = DOMAIN findings
        /\ \A i \in DOMAIN findings :
              /\ findings'[i].assessment = findings[i].assessment
              /\ i # id => findings'[i] = findings[i]
        /\ findings'[id].state = "Requested"
        /\ findings'[id].cause = findings[id].cause
        /\ id \in LiveIds(findings)
        /\ UNCHANGED <<fence, disk>>
    BY <1>10, AuthorizeFacts
  <2>2. Honest(findings'[id], fence)
    BY <1>2, <2>1 DEF Honest, LiveIds, IsTerminal, Terminal
  <2> QED BY <1>2, <1>3, <2>1, <2>2 DEF StoredBefore
<1>11. ASSUME NEW id, NEW state \in Live, UNCHANGED <<fence, disk>>,
              findings' = UpdateState(findings, id, state, "none")
       PROVE  Accurate'
  BY <1>1, <1>2, <1>3, <1>11, HonestUpdate DEF StoredBefore
<1>12. ASSUME NEW intent, RecordAcknowledgement(intent) PROVE Accurate'
  BY <1>11, <1>12 DEF RecordAcknowledgement, Live
<1>13. ASSUME NEW intent, NEW target, NEW observed,
              RecordVerifiedEffect(intent, target, observed)
       PROVE  Accurate'
  <2>1. /\ \/ findings' = UpdateState(findings, intent.finding, "AppliedUnverified", "none")
           \/ findings' = UpdateState(findings, intent.finding, "Verified", "none")
        /\ UNCHANGED <<fence, disk>>
    BY <1>13 DEF RecordVerifiedEffect
  <2> QED BY <1>11, <2>1 DEF Live
<1>14. ASSUME Stop PROVE Accurate'
  BY <1>2, <1>5, <1>14 DEF Stop, StoredBefore
<1>15. CASE Open
  <2>1. /\ findings' = Restored(disk.findings) /\ fence'["boot"] = disk.boot + 1
        /\ disk'.findings = disk.findings /\ disk'.boot = disk.boot + 1
    BY <1>1, <1>15 DEF Open, ReopenedFence, Document, Fence, Component
  <2>2. \A i \in DOMAIN disk.findings :
           disk.findings[i].body.assessment.fence["boot"] \in Nat
    <3> SUFFICES ASSUME NEW i \in DOMAIN disk.findings
                 PROVE  disk.findings[i].body.assessment.fence["boot"] \in Nat
      OBVIOUS
    <3>1. disk.findings[i] \in DurableFinding
      BY <1>1
    <3>2. disk.findings[i].body.assessment.fence \in Fence
      BY <3>1 DEF DurableFinding, Finding, Assessment
    <3> QED BY <3>2 DEF Fence, Component
  <2>3. \A id \in DOMAIN findings' :
           /\ findings'[id].state = "Fenced" /\ findings'[id].cause = "boot"
           /\ findings'[id].assessment.fence["boot"] \in Nat
           /\ findings'[id].assessment.fence["boot"] <= disk.boot
    BY <1>1, <1>2, <2>1, <2>2, RestoredFacts DEF StoredBefore
  <2>4. \A id \in DOMAIN findings' :
           findings'[id].assessment.fence["boot"] < fence'["boot"]
    BY <1>1, <2>1, <2>3
  <2>5. StoredBefore'
    BY <1>1, <1>2, <2>1, <2>2 DEF StoredBefore
  <2> QED
    BY <2>3, <2>4, <2>5
       DEF Accurate, StoredBefore, LiveIds, IsTerminal, Terminal, Component
<1>16. CASE UNCHANGED vars
  BY <1>4, <1>16 DEF vars
<1>17. CASE OtherCall
  BY <1>6, <1>7, <1>8, <1>9, <1>10, <1>12, <1>13, <1>14, <1>17 DEF OtherCall
<1> QED
  BY <1>15, <1>16, <1>17, AccurateMove, KindsOfSteps

\* Hence it holds in every reachable state.
LEMMA AccurateAlways == Spec => []Accurate
<1>1. Init => Accurate
  <2> SUFFICES ASSUME Init PROVE Accurate
    OBVIOUS
  <2>1. DOMAIN findings = {} /\ disk.findings = << >>
    BY DEF Init, Empty
  <2> QED BY <2>1 DEF Accurate, LiveIds
<1>2. TypeOK /\ FenceKnown /\ Accurate /\ [Next]_vars => Accurate'
  BY AccurateNext
<1> QED
  BY <1>1, <1>2, KnownAlways, PTL DEF Spec

\* A finding that is over says why, and what it says never becomes false: the
\* component it names was moved past it and does not come back, through later
\* moves, refused writes and restarts (fence_cause, Runtime::open).
THEOREM CausesStayTrue == Spec => []CauseIsAccurate
<1>1. TypeOK /\ Accurate => CauseIsAccurate
  <2> SUFFICES ASSUME TypeOK, Accurate, NEW id \in DOMAIN findings,
                      findings[id].state \in {"Stale", "Fenced"}
               PROVE  findings[id].assessment.fence[findings[id].cause]
                         # fence[findings[id].cause]
    BY DEF CauseIsAccurate, Accurate
  <2> DEFINE c == findings[id].cause
  <2>1. c \in Component /\ findings[id].assessment.fence[c] < fence[c]
    BY DEF Accurate
  <2>2. findings[id].assessment.fence \in Fence /\ fence \in Fence
    BY DEF TypeOK, Finding, Assessment
  <2>3. findings[id].assessment.fence[c] \in Nat /\ fence[c] \in Nat
    BY <2>1, <2>2 DEF Fence
  <2> QED BY <2>1, <2>3
<1> QED
  BY <1>1, TypeCorrect, AccurateAlways, PTL

-----------------------------------------------------------------------------
(* The contract *)

\* What the document knows of the fence when every write is committed.
Recorded ==
    /\ fence.epoch <= disk.epoch \/ fence.epoch <= disk.fence.epoch
    /\ \A c \in {"fabric", "forwarding", "policy"} : disk.fence[c] = fence[c]

Contained(fs) == {id \in DOMAIN fs : fs[id].state = "Verified"}

\* The epoch of a start is larger than both the store knows.
LEMMA NextEpochIsNext ==
    ASSUME TypeOK
    PROVE  /\ NextEpoch \in Nat /\ NextEpoch > disk.epoch
           /\ NextEpoch > disk.fence["epoch"]
<1>1. disk.epoch \in Nat /\ disk.fence["epoch"] \in Nat
  BY DEF TypeOK, Document, Fence, Component
<1> DEFINE S == {disk.epoch, disk.fence["epoch"]}
<1>2. \E n \in S : \A m \in S : m <= n
  BY <1>1
<1>3. Largest(S) \in S /\ \A m \in S : m <= Largest(S)
  BY <1>2 DEF Largest
<1> QED BY <1>1, <1>3 DEF NextEpoch

\* A restart runs under a later boot and a later epoch, and loses no move.
LEMMA ReopenedIsLater ==
    ASSUME TypeOK, FenceKnown, Recorded
    PROVE  /\ Dominates(ReopenedFence, fence)
           /\ ReopenedFence["boot"] > fence["boot"]
           /\ ReopenedFence["epoch"] > fence["epoch"]
<1>1. /\ disk.fence \in Fence /\ fence \in Fence /\ disk.boot \in Nat
      /\ disk.topology \in Nat /\ disk.epoch \in Nat
  BY DEF TypeOK, Document
<1>2. \A c \in Component : fence[c] \in Nat /\ disk.fence[c] \in Nat
  BY <1>1 DEF Fence
<1>3. /\ ReopenedFence["boot"] = disk.boot + 1
      /\ ReopenedFence["epoch"] = NextEpoch
      /\ ReopenedFence["topology"] = IF disk.topology # 0 THEN disk.topology ELSE 1
      /\ ReopenedFence["fabric"] = disk.fence["fabric"]
      /\ ReopenedFence["forwarding"] = disk.fence["forwarding"]
      /\ ReopenedFence["policy"] = disk.fence["policy"]
  BY <1>1 DEF ReopenedFence, Fence, Component
<1>4. ReopenedFence["boot"] > fence["boot"]
  BY <1>1, <1>3 DEF FenceKnown
<1>5. ReopenedFence["epoch"] > fence["epoch"] /\ ReopenedFence["epoch"] \in Nat
  BY <1>1, <1>2, <1>3, NextEpochIsNext DEF Recorded, Component
<1>6. fence["topology"] <= ReopenedFence["topology"]
  BY <1>1, <1>2, <1>3 DEF FenceKnown, Component
<1>7. /\ fence["fabric"] <= ReopenedFence["fabric"]
      /\ fence["forwarding"] <= ReopenedFence["forwarding"]
      /\ fence["policy"] <= ReopenedFence["policy"]
  BY <1>2, <1>3 DEF Recorded, Component
<1>8. fence["boot"] <= ReopenedFence["boot"] /\ fence["epoch"] <= ReopenedFence["epoch"]
  BY <1>1, <1>2, <1>3, <1>4, <1>5 DEF Component
<1> QED
  BY <1>4, <1>5, <1>6, <1>7, <1>8 DEF Dominates, Component

\* A store that commits every write knows the fence in force.
LEMMA RecordedNext ==
    ASSUME ~ StoreMayFail, TypeOK, FenceKnown, Recorded, [Next]_vars
    PROVE  Recorded'
<1>1. CASE FenceMove
  <2>1. CASE Cut
    BY <2>1 DEF Cut, Halt, SameStore, Recorded
  <2>2. ASSUME NEW f, NEW d, NEW lineage, FenceStep(f, d, lineage)
        PROVE  Recorded'
    <3>1. fence' = f /\ disk'.fence = f /\ f \in Fence
      BY <2>2, MoveFenceNumbers DEF FenceStep, SameStore
    <3>2. f["epoch"] \in Nat
      BY <3>1 DEF Fence, Component
    <3> QED BY <3>1, <3>2 DEF Recorded
  <2> QED BY <1>1, <2>1, <2>2, FenceMoveSteps
<1>2. CASE Open
  <2>1. /\ fence'["epoch"] = NextEpoch /\ disk'.epoch = NextEpoch
        /\ disk'.fence = disk.fence
        /\ fence'["fabric"] = disk.fence["fabric"]
        /\ fence'["forwarding"] = disk.fence["forwarding"]
        /\ fence'["policy"] = disk.fence["policy"]
    BY <1>2 DEF Open, ReopenedFence, TypeOK, Document, Fence, Component
  <2> QED BY <2>1, NextEpochIsNext DEF Recorded
<1>3. CASE OtherCall \/ UNCHANGED vars
  BY <1>3, OtherCallSteps DEF SameOrigin, Recorded
<1> QED BY <1>1, <1>2, <1>3, KindsOfSteps

\* What update_state does to the live findings and to the verified ones.
LEMMA UpdateStateViews ==
    ASSUME NEW fs, fs \in [DOMAIN fs -> Finding],
           NEW id, NEW state \in Live \cup {"Withdrawn"}, NEW cause
    PROVE  LET g == UpdateState(fs, id, state, cause) IN
           /\ id \notin LiveIds(fs) =>
                 LiveIds(g) = LiveIds(fs) /\ Contained(g) = Contained(fs)
           /\ id \in LiveIds(fs) /\ state = "Withdrawn" =>
                 LiveIds(g) = LiveIds(fs) \ {id} /\ Contained(g) = Contained(fs) \ {id}
           /\ id \in LiveIds(fs) /\ state = "Verified" =>
                 LiveIds(g) = LiveIds(fs) /\ Contained(g) = Contained(fs) \cup {id}
           /\ id \in LiveIds(fs) /\ state \in Live \ {"Verified"} =>
                 LiveIds(g) = LiveIds(fs) /\ Contained(g) = Contained(fs) \ {id}
<1> DEFINE g == UpdateState(fs, id, state, cause)
<1>1. /\ DOMAIN g = DOMAIN fs
      /\ \A i \in DOMAIN fs :
            \/ /\ g[i] = fs[i]
               /\ i # id \/ (IsTerminal(fs[i]) /\ state # "Withdrawn")
            \/ /\ i = id /\ g[i].state = state
               /\ IsTerminal(fs[i]) => state = "Withdrawn"
  BY UpdateStateFacts
<1> HIDE DEF g
<1>2. ~ IsTerminal([state |-> state]) <=> state \in Live
  BY DEF IsTerminal, Terminal, Live
<1>3. CASE id \notin LiveIds(fs)
  <2>1. \A i \in DOMAIN fs : IsTerminal(g[i]) <=> IsTerminal(fs[i])
    BY <1>1, <1>3 DEF LiveIds, IsTerminal, Terminal
  <2>2. \A i \in DOMAIN fs : g[i].state = "Verified" <=> fs[i].state = "Verified"
    BY <1>1, <1>3 DEF LiveIds, IsTerminal, Terminal
  <2> QED BY <1>1, <1>3, <2>1, <2>2 DEF LiveIds, Contained, g
<1>4. CASE id \in LiveIds(fs)
  <2>1. /\ id \in DOMAIN fs /\ g[id].state = state
        /\ \A i \in DOMAIN fs \ {id} : g[i] = fs[i]
    BY <1>1, <1>4 DEF LiveIds
  <2>2. IsTerminal(g[id]) <=> state = "Withdrawn"
    BY <2>1 DEF IsTerminal, Terminal, Live
  <2>3. LiveIds(g) = IF state = "Withdrawn" THEN LiveIds(fs) \ {id} ELSE LiveIds(fs)
    BY <1>1, <1>4, <2>1, <2>2 DEF LiveIds
  <2>4. Contained(g) = IF state = "Verified" THEN Contained(fs) \cup {id}
                       ELSE Contained(fs) \ {id}
    BY <1>1, <2>1 DEF Contained
  <2> QED BY <1>4, <2>3, <2>4 DEF g, Live
<1> QED BY <1>3, <1>4

\* A step that changes nothing the contract speaks of is a stutter in it.
LEMMA SameView ==
    ASSUME UNCHANGED <<fence, up>>, LiveIds(findings') = LiveIds(findings),
           Contained(findings') = Contained(findings)
    PROVE  UNCHANGED Authority!contractVars
BY DEF Authority!contractVars, Contained

\* A move is a revocation, or a stop when it is cut short.
LEMMA MoveKeepsContract ==
    ASSUME ~ StoreMayFail, TypeOK, FenceKnown, LiveFindingsCurrent, FenceMove
    PROVE  \/ Authority!Stop \/ Authority!Revoke
           \/ UNCHANGED Authority!contractVars
<1>1. CASE Cut
  <2>1. DOMAIN findings' = {} /\ up' = FALSE /\ fence' = fence
    BY <1>1 DEF Cut, Halt, Empty
  <2>2. LiveIds(findings') = {} /\ Contained(findings') = {}
    BY <2>1 DEF LiveIds, Contained
  <2> QED BY <2>1, <2>2 DEF Authority!Stop, Contained
<1>2. ASSUME NEW f, NEW d, NEW lineage, FenceStep(f, d, lineage)
      PROVE  Authority!Revoke \/ UNCHANGED Authority!contractVars
  <2>1. /\ findings \in [DOMAIN findings -> Finding]
        /\ f \in Fence /\ Dominates(f, fence)
        /\ fence' = f /\ up' = up /\ findings' = FenceStale(findings, f)
    BY <1>2 DEF TypeOK, FenceStep, MoveFence
  <2>2. /\ DOMAIN findings' = DOMAIN findings
        /\ \A i \in DOMAIN findings :
              \/ /\ findings'[i] = findings[i]
                 /\ IsTerminal(findings[i]) \/ findings[i].assessment.fence = f
              \/ /\ ~ IsTerminal(findings[i]) /\ findings'[i].state = "Stale"
                 /\ findings[i].assessment.fence # f
    BY <2>1, FenceStaleFacts
  <2>3. \A i \in DOMAIN findings :
           ~ IsTerminal(findings[i]) => findings[i].assessment.fence = fence
    BY DEF LiveFindingsCurrent, LiveIds
  <2>4. CASE f = fence
    <3>1. \A i \in DOMAIN findings : findings'[i] = findings[i]
      BY <2>2, <2>3, <2>4
    <3>2. /\ LiveIds(findings') = LiveIds(findings)
          /\ Contained(findings') = Contained(findings)
      BY <2>2, <3>1 DEF LiveIds, Contained
    <3> QED BY <2>1, <2>4, <3>2, SameView
  <2>5. CASE f # fence
    <3>1. \A i \in DOMAIN findings : IsTerminal(findings'[i])
      BY <2>2, <2>3, <2>5 DEF IsTerminal, Terminal
    <3>2. LiveIds(findings') = {} /\ Contained(findings') = {}
      BY <2>2, <3>1 DEF LiveIds, Contained, IsTerminal, Terminal
    <3>3. fence' \in Authority!Fence /\ Authority!Dominates(fence', fence)
      BY <2>1 DEF Fence, Dominates, Component, Authority!Fence,
                  Authority!Dominates, Authority!Component
    <3> QED BY <2>1, <3>2, <3>3 DEF Authority!Revoke, Contained
  <2> QED BY <2>4, <2>5
<1> QED BY <1>1, <1>2, FenceMoveSteps

\* Publishing gives authority to one more finding and takes none.
LEMMA PublishKeepsContract ==
    ASSUME TypeOK, NEW a \in held, PublishFinding(a)
    PROVE  \/ Authority!Stop \/ \E id \in FindingId : Authority!Publish(id)
           \/ UNCHANGED Authority!contractVars
<1> DEFINE f == NewFinding(a)
<1>1. f.state = "Confirmed"
  BY DEF NewFinding
<1>2. PICK id \in FindingId :
         \/ /\ CanRegister(findings, id) /\ UNCHANGED <<up, fence>>
            /\ findings' = Register(findings, id, f)
         \/ UNCHANGED <<up, fence, findings>>
         \/ Halt
  BY PublishFacts
<1> HIDE DEF f
<1>3. CASE /\ CanRegister(findings, id) /\ UNCHANGED <<up, fence>>
           /\ findings' = Register(findings, id, f)
  <2>1. /\ id \notin DOMAIN findings /\ id \in DOMAIN findings' /\ findings'[id] = f
        /\ DOMAIN findings' \subseteq DOMAIN findings \cup {id}
        /\ \A i \in DOMAIN findings' \ {id} : findings'[i] = findings[i]
        /\ LiveIds(findings) \subseteq DOMAIN findings'
    BY <1>3, RegisterFacts DEF TypeOK
  <2>2. LiveIds(findings') = LiveIds(findings) \cup {id}
    BY <1>1, <2>1 DEF LiveIds, IsTerminal, Terminal
  <2>3. \A i \in DOMAIN findings : findings[i].state = "Verified" => i \in DOMAIN findings'
    BY <2>1 DEF LiveIds, IsTerminal, Terminal
  <2>4. Contained(findings') = Contained(findings)
    BY <1>1, <2>1, <2>3 DEF Contained
  <2>5. id \notin LiveIds(findings)
    BY <2>1 DEF LiveIds
  <2> QED BY <1>3, <2>2, <2>4, <2>5 DEF Authority!Publish, Contained
<1>4. CASE UNCHANGED <<up, fence, findings>>
  BY <1>4, SameView
<1>5. CASE Halt
  <2>1. DOMAIN findings' = {} /\ up' = FALSE /\ fence' = fence
    BY <1>5 DEF Halt, Empty
  <2>2. LiveIds(findings') = {} /\ Contained(findings') = {}
    BY <2>1 DEF LiveIds, Contained
  <2> QED BY <2>1, <2>2 DEF Authority!Stop, Contained
<1> QED BY <1>2, <1>3, <1>4, <1>5

\* A request, an acknowledgement, an effect and a withdrawal each reach one
\* finding, and only one that carries authority.
LEMMA UpdateKeepsContract ==
    ASSUME TypeOK, UNCHANGED <<fence, up>>,
           NEW id, NEW state \in Live \cup {"Withdrawn"}, NEW cause,
           findings' = UpdateState(findings, id, state, cause)
    PROVE  \/ \E i \in FindingId :
                 Authority!Verify(i) \/ Authority!Unverify(i) \/ Authority!Withdraw(i)
           \/ UNCHANGED Authority!contractVars
<1>1. /\ findings \in [DOMAIN findings -> Finding]
      /\ DOMAIN findings \subseteq FindingId
  BY DEF TypeOK
<1>2. CASE id \notin LiveIds(findings)
  <2>1. /\ LiveIds(findings') = LiveIds(findings)
        /\ Contained(findings') = Contained(findings)
    BY <1>2, <1>1, UpdateStateViews
  <2> QED BY <2>1, SameView
<1>3. CASE id \in LiveIds(findings) /\ state = "Withdrawn"
  <2>1. /\ LiveIds(findings') = LiveIds(findings) \ {id}
        /\ Contained(findings') = Contained(findings) \ {id}
    BY <1>3, <1>1, UpdateStateViews
  <2>2. id \in FindingId
    BY <1>1, <1>3 DEF LiveIds
  <2> QED BY <1>3, <2>1, <2>2 DEF Authority!Withdraw, Contained
<1>4. CASE id \in LiveIds(findings) /\ state = "Verified"
  <2>1. /\ LiveIds(findings') = LiveIds(findings)
        /\ Contained(findings') = Contained(findings) \cup {id}
    BY <1>4, <1>1, UpdateStateViews
  <2>2. id \in FindingId
    BY <1>1, <1>4 DEF LiveIds
  <2> QED BY <1>4, <2>1, <2>2 DEF Authority!Verify, Contained
<1>5. CASE id \in LiveIds(findings) /\ state \in Live \ {"Verified"}
  <2>1. /\ LiveIds(findings') = LiveIds(findings)
        /\ Contained(findings') = Contained(findings) \ {id}
    BY <1>5, <1>1, UpdateStateViews
  <2>2. id \in FindingId
    BY <1>1, <1>5 DEF LiveIds
  <2> QED BY <1>5, <2>1, <2>2 DEF Authority!Unverify, Contained
<1> QED BY <1>2, <1>3, <1>4, <1>5

\* A start is a start of the contract.
LEMMA OpenKeepsContract ==
    ASSUME TypeOK, FenceKnown, Recorded, Open
    PROVE  Authority!Start
<1>1. /\ up = FALSE /\ up' = TRUE /\ fence' = ReopenedFence
      /\ findings' = Restored(disk.findings)
      /\ disk.findings \in Seq(DurableFinding)
  BY DEF Open, TypeOK, Document, LineageBounded
<1>2. \A id \in DOMAIN findings' : findings'[id].state = "Fenced"
  BY <1>1, RestoredFacts
<1>3. LiveIds(findings') = {} /\ Contained(findings') = {}
  BY <1>2 DEF LiveIds, Contained, IsTerminal, Terminal
<1>4. /\ Dominates(fence', fence) /\ fence'["boot"] > fence["boot"]
      /\ fence'["epoch"] > fence["epoch"]
  BY <1>1, ReopenedIsLater
<1>5. fence' \in Fence
  BY OpenType DEF TypeOK
<1>6. fence' \in Authority!Fence /\ Authority!Dominates(fence', fence)
  BY <1>4, <1>5 DEF Fence, Dominates, Component, Authority!Fence,
                    Authority!Dominates, Authority!Component
<1> QED BY <1>1, <1>3, <1>4, <1>6 DEF Authority!Start, Contained

\* Every step of the runtime is one of the contract's.
LEMMA StepsKeepContract ==
    ASSUME ~ StoreMayFail, TypeOK, FenceKnown, Recorded, LiveFindingsCurrent,
           [Next]_vars
    PROVE  [Authority!ContractNext]_(Authority!contractVars)
<1>1. /\ findings \in [DOMAIN findings -> Finding]
      /\ DOMAIN findings \subseteq FindingId
  BY DEF TypeOK
<1>2. ASSUME UNCHANGED <<up, fence, findings>>
      PROVE  UNCHANGED Authority!contractVars
  BY <1>2, SameView
<1>3. ASSUME NEW S, SubmitObservation(S) \/ Tick(S) \/ Detect(S) \/ ClearEvidence
      PROVE  UNCHANGED Authority!contractVars
  BY <1>2, <1>3 DEF SubmitObservation, Tick, Detect, ClearEvidence
<1>4. ASSUME NEW a \in held, PlanContainment(a)
      PROVE  UNCHANGED Authority!contractVars
  <2>1. UNCHANGED <<up, fence>>
    BY <1>4 DEF PlanContainment
  <2>2. /\ DOMAIN findings' = DOMAIN findings
        /\ \A id \in DOMAIN findings : findings'[id].state = findings[id].state
    BY <1>4, PlanFacts
  <2>3. /\ LiveIds(findings') = LiveIds(findings)
        /\ Contained(findings') = Contained(findings)
    BY <2>2 DEF LiveIds, Contained, IsTerminal
  <2> QED BY <2>1, <2>3, SameView
<1> DEFINE Answered == \/ \E i \in FindingId : \/ Authority!Verify(i)
                                               \/ Authority!Unverify(i)
                                               \/ Authority!Withdraw(i)
                       \/ UNCHANGED Authority!contractVars
<1>5. ASSUME NEW id, NEW state \in Live \cup {"Withdrawn"}, NEW cause,
             UNCHANGED <<up, fence>>,
             findings' = UpdateState(findings, id, state, cause)
      PROVE  Answered
  BY <1>1, <1>5, UpdateKeepsContract
<1>6. ASSUME NEW id, WithdrawFinding(id) PROVE Answered
  <2>1. UNCHANGED <<up, fence>>
    BY <1>6 DEF WithdrawFinding
  <2>2. \/ findings' = findings
        \/ findings' = UpdateState(findings, id, "Withdrawn", "withdrawal")
    BY <1>6 DEF WithdrawFinding
  <2> QED BY <1>2, <1>5, <2>1, <2>2
<1>7. ASSUME NEW intent, RecordAcknowledgement(intent) PROVE Answered
  <2>1. /\ findings' = UpdateState(findings, intent.finding,
                                   "AppliedUnverified", "none")
        /\ UNCHANGED <<up, fence>>
    BY <1>7 DEF RecordAcknowledgement
  <2> HIDE DEF Answered
  <2> QED BY <1>5, <2>1 DEF Live
<1>8. ASSUME NEW intent, NEW target, NEW observed,
             RecordVerifiedEffect(intent, target, observed)
      PROVE  Answered
  <2>1. /\ \/ findings' = UpdateState(findings, intent.finding,
                                      "AppliedUnverified", "none")
           \/ findings' = UpdateState(findings, intent.finding, "Verified", "none")
        /\ UNCHANGED <<up, fence>>
    BY <1>8 DEF RecordVerifiedEffect
  <2> HIDE DEF Answered
  <2> QED BY <1>5, <2>1 DEF Live
<1>9. ASSUME NEW id \in DOMAIN findings, NEW grant,
             NEW targets \in SUBSET Resource,
             AuthorizeContainment(id, grant, targets)
      PROVE  Answered
  <2>1. /\ id \in LiveIds(findings) /\ DOMAIN findings' = DOMAIN findings
        /\ \A i \in DOMAIN findings : i # id => findings'[i] = findings[i]
        /\ findings'[id].state = "Requested" /\ UNCHANGED <<up, fence>>
    BY <1>9, AuthorizeFacts
  <2>2. LiveIds(findings') = LiveIds(findings)
    BY <2>1 DEF LiveIds, IsTerminal, Terminal
  <2>3. Contained(findings') = Contained(findings) \ {id}
    BY <2>1 DEF Contained
  <2>4. Authority!Unverify(id)
    BY <2>1, <2>2, <2>3 DEF Authority!Unverify, Contained
  <2> QED BY <1>1, <2>4
<1>10. ASSUME Stop PROVE Authority!Stop
  <2>1. DOMAIN findings' = {} /\ up' = FALSE /\ fence' = fence
    BY <1>10 DEF Stop, Halt, Empty
  <2>2. LiveIds(findings') = {} /\ Contained(findings') = {}
    BY <2>1 DEF LiveIds, Contained
  <2> QED BY <2>1, <2>2 DEF Authority!Stop, Contained
<1>11. CASE UNCHANGED vars
  BY <1>2, <1>11 DEF vars
<1>12. CASE OtherCall
  BY <1>3, <1>4, <1>6, <1>7, <1>8, <1>9, <1>10, <1>12, PublishKeepsContract
     DEF OtherCall, Authority!ContractNext
<1>13. CASE FenceMove
  BY <1>13, MoveKeepsContract DEF Authority!ContractNext
<1>14. CASE Open
  BY <1>14, OpenKeepsContract DEF Authority!ContractNext
<1> QED BY <1>11, <1>12, <1>13, <1>14, KindsOfSteps

\* With a store that commits every write, the runtime keeps its contract for
\* any number of findings, moves, stops and restarts: authority is given one
\* finding at a time, taken from all of them by every move of the fence, and
\* never survives an incarnation, which is always later than all before it.
THEOREM RuntimeKeepsAuthority == ~ StoreMayFail => (Spec => ImplementsAuthority)
<1> SUFFICES ASSUME ~ StoreMayFail PROVE Spec => ImplementsAuthority
  OBVIOUS
<1>1. Init => Authority!ContractInit /\ Recorded
  <2> SUFFICES ASSUME Init PROVE Authority!ContractInit /\ Recorded
    OBVIOUS
  <2>1. /\ fence = FirstFence /\ up = TRUE /\ DOMAIN findings = {}
        /\ disk.fence = FirstFence /\ disk.epoch = 1
    BY DEF Init, Empty
  <2>2. FirstFence \in Authority!Fence
    BY DEF FirstFence, Component, Authority!Fence, Authority!Component
  <2>3. LiveIds(findings) = {} /\ Contained(findings) = {}
    BY <2>1 DEF LiveIds, Contained
  <2>4. Authority!ContractInit
    BY <2>1, <2>2, <2>3 DEF Authority!ContractInit, Contained
  <2>5. Recorded
    BY <2>1 DEF Recorded, FirstFence, Component
  <2> QED BY <2>4, <2>5
<1>2. TypeOK /\ FenceKnown /\ Recorded /\ [Next]_vars => Recorded'
  BY RecordedNext
<1>3. TypeOK /\ FenceKnown /\ Recorded /\ LiveFindingsCurrent /\ [Next]_vars
         => [Authority!ContractNext]_(Authority!contractVars)
  BY StepsKeepContract
<1>4. Spec => []LiveFindingsCurrent
  BY AuthorityIsCurrent
<1> QED
  BY <1>1, <1>2, <1>3, <1>4, KnownAlways, PTL
     DEF Spec, ImplementsAuthority, Authority!Contract

-----------------------------------------------------------------------------
(* Nothing acts without a record *)

\* No intent is of a fence still to come.
Followed == \A i \in DOMAIN applications : Dominates(fence, FenceOf(i))

\* In a log, a record a has a record b after it.
Then(log, a, b) ==
    \A j \in DOMAIN log : log[j] = a => \E k \in DOMAIN log : j < k /\ log[k] = b

\* LineageCoversAuthority with the order of the records: what a record of
\* authority led to was recorded after it, so retention, which erases from the
\* old end, cannot keep the first and lose the second.
LineageInOrder ==
    /\ \A id \in LiveIds(findings) :
          LET f == findings[id] IN
          /\ Kept(audit, Recommendation(id)) \/ Full(audit)
          /\ f.plan # NoPlan =>
                /\ Kept(audit, Eligibility(id, f.plan)) \/ Full(audit)
                /\ Then(audit, Recommendation(id), Eligibility(id, f.plan))
          /\ f.intent # NoIntent =>
                Then(audit, Recommendation(id), Authorization(f.intent))
    /\ \A i \in DOMAIN applications :
       FenceOf(i) = fence =>
          /\ Kept(audit, Authorization(i)) \/ Full(audit)
          /\ applications[i].effects # {} =>
                /\ Kept(audit, Effect(i)) \/ Full(audit)
                /\ Then(audit, Authorization(i), Effect(i))

\* The order implies what the property says of it.
LEMMA OrderIsCover == LineageInOrder => LineageCoversAuthority
<1>1. \A log, a, b : Then(log, a, b) => (Kept(log, a) => Kept(log, b))
  BY DEF Then, Kept
<1> QED BY <1>1 DEF LineageInOrder, LineageCoversAuthority

\* What retention does to the records of a log and to their order.
LEMMA RetainedKeeps ==
    ASSUME NEW S, NEW log \in Seq(S), Len(log) <= MaxLineage, NEW r \in S,
           NEW kept, kept = Retained(log, r)
    PROVE  /\ Kept(kept, r)
           /\ Full(log) => Full(kept)
           /\ \A x : Kept(log, x) => Kept(kept, x) \/ Full(kept)
           /\ \A a, b : a # r /\ Then(log, a, b) => Then(kept, a, b)
           /\ \A a : a # r => Then(kept, a, r)
<1> DEFINE old == Len(log)
           new == Len(kept)
<1>1. old \in Nat /\ MaxLineage \in Nat \ {0} /\ old <= MaxLineage
  BY LimitAssumption
<1>2. /\ new \in Nat /\ new \in 1..MaxLineage /\ kept[new] = r
      /\ DOMAIN log = 1..old /\ DOMAIN kept = 1..new
      /\ old < MaxLineage => /\ new = old + 1
                             /\ \A n \in 1..old : kept[n] = log[n]
      /\ old = MaxLineage => /\ new = MaxLineage
                             /\ \A n \in 2..old : kept[n - 1] = log[n]
  <2>1. CASE old < MaxLineage
    BY <1>1, <2>1, AppendProperties DEF Retained
  <2>2. CASE old = MaxLineage
    <3>1. /\ Tail(log) \in Seq(S) /\ Len(Tail(log)) = MaxLineage - 1
          /\ \A n \in 1..Len(Tail(log)) : Tail(log)[n] = log[n + 1]
      BY <1>1, <2>2, HeadTailProperties
    <3>2. kept = Append(Tail(log), r)
      BY <2>2 DEF Retained
    <3> QED BY <1>1, <2>2, <3>1, <3>2, AppendProperties
  <2>3. old < MaxLineage \/ old = MaxLineage
    BY <1>1
  <2> QED BY <2>1, <2>2, <2>3
<1>5. (Full(log) <=> old = MaxLineage) /\ (Full(kept) <=> new = MaxLineage)
  BY DEF Full
<1> HIDE DEF old, new
<1>4. kept[new] = r /\ new >= 1 /\ new <= MaxLineage
  BY <1>1, <1>2
<1> DEFINE cut == IF old = MaxLineage THEN 1 ELSE 0
<1>3. /\ cut \in Nat /\ cut \in {0, 1}
      /\ new = old + 1 - cut
      /\ cut = 1 => new = MaxLineage
      /\ \A n \in 1..old : n > cut => kept[n - cut] = log[n]
  <2>1. CASE old < MaxLineage
    <3>1. \A n \in 1..old : n - 0 = n
      BY <1>1
    <3> QED BY <1>1, <1>2, <2>1, <3>1
  <2>2. CASE old = MaxLineage
    <3>1. \A n \in 1..old : n > 1 => n \in 2..old
      BY <1>1
    <3> QED BY <1>1, <1>2, <2>2, <3>1
  <2> QED BY <1>1, <2>1, <2>2
<1> HIDE DEF cut
<1>6. Kept(kept, r)
  BY <1>2, <1>4 DEF Kept
<1>7. Full(log) => Full(kept)
  BY <1>2, <1>3, <1>4, <1>5
<1>8. ASSUME NEW x, Kept(log, x) PROVE Kept(kept, x) \/ Full(kept)
  <2>1. PICK n \in 1..old : log[n] = x
    BY <1>2, <1>8 DEF Kept
  <2>2. CASE cut = 0
    <3>1. n \in 1..new /\ n - cut = n /\ n > cut
      BY <1>1, <1>2, <1>3, <2>2
    <3> QED BY <1>2, <1>3, <2>1, <3>1 DEF Kept
  <2> QED BY <1>3, <1>5, <2>2
<1>9. ASSUME NEW a, a # r PROVE Then(kept, a, r)
  <2>1. \A j \in 1..new : kept[j] = a => j < new
    BY <1>2, <1>4, <1>9
  <2>2. new \in 1..new
    BY <1>2, <1>4
  <2> QED BY <1>2, <1>4, <2>1, <2>2 DEF Then
<1>10. ASSUME NEW a, NEW b, a # r, Then(log, a, b) PROVE Then(kept, a, b)
  <2> SUFFICES ASSUME NEW j \in 1..new, kept[j] = a
               PROVE  \E k \in 1..new : j < k /\ kept[k] = b
    BY <1>2 DEF Then
  <2>1. j # new
    BY <1>4, <1>10
  <2>2. j + cut \in 1..old /\ j + cut > cut /\ (j + cut) - cut = j
    BY <1>1, <1>2, <1>3, <2>1
  <2>3. log[j + cut] = a
    BY <1>3, <2>2
  <2>4. PICK k \in 1..old : j + cut < k /\ log[k] = b
    BY <1>2, <1>10, <2>2, <2>3 DEF Then
  <2>5. k > cut /\ k - cut \in 1..new /\ j < k - cut
    BY <1>1, <1>2, <1>3, <2>4
  <2> QED BY <1>3, <2>4, <2>5
<1> QED BY <1>6, <1>7, <1>8, <1>9, <1>10

\* Records of different kinds, or of different findings or intents, differ.
LEMMA EntriesDiffer ==
    /\ \A id, i, k, p : /\ Recommendation(id) # Eligibility(k, p)
                        /\ Recommendation(id) # Authorization(i)
                        /\ Recommendation(id) # Effect(i)
    /\ \A i, k, p : Authorization(i) # Eligibility(k, p) /\ Authorization(i) # Effect(i)
    /\ \A id, k : Recommendation(id) = Recommendation(k) => id = k
BY DEF Recommendation, Eligibility, Authorization, Effect, Entry

\* While nothing gains authority, the lineage covers what it covered.
LEMMA LineageKept ==
    ASSUME LineageInOrder, UNCHANGED <<fence, audit>>,
           \A id \in LiveIds(findings') :
              /\ id \in LiveIds(findings)
              /\ findings'[id].plan = findings[id].plan
              /\ findings'[id].intent = findings[id].intent,
           \A i \in DOMAIN applications' :
              /\ i \in DOMAIN applications
              /\ applications'[i].effects = applications[i].effects
    PROVE  LineageInOrder'
<1>1. ASSUME NEW id \in LiveIds(findings')
      PROVE  LET f == findings'[id] IN
             /\ Kept(audit', Recommendation(id)) \/ Full(audit')
             /\ f.plan # NoPlan =>
                   /\ Kept(audit', Eligibility(id, f.plan)) \/ Full(audit')
                   /\ Then(audit', Recommendation(id), Eligibility(id, f.plan))
             /\ f.intent # NoIntent =>
                   Then(audit', Recommendation(id), Authorization(f.intent))
  BY DEF LineageInOrder
<1>2. ASSUME NEW i \in DOMAIN applications', FenceOf(i) = fence'
      PROVE  /\ Kept(audit', Authorization(i)) \/ Full(audit')
             /\ applications'[i].effects # {} =>
                   /\ Kept(audit', Effect(i)) \/ Full(audit')
                   /\ Then(audit', Authorization(i), Effect(i))
  BY <1>2 DEF LineageInOrder
<1> QED BY <1>1, <1>2 DEF LineageInOrder

\* A record that is made keeps the lineage covering, if whatever authority the
\* step gives is what the record is of.
LEMMA LineageRecorded ==
    ASSUME TypeOK, LineageInOrder, fence' = fence,
           NEW r \in LineageRecord, audit' = Retained(audit, r),
           \A id \in LiveIds(findings') :
              LET is == findings'[id]
                  was == findings[id]
              IN  \/ /\ r = Recommendation(id)
                     /\ is.plan = NoPlan /\ is.intent = NoIntent
                  \/ /\ id \in LiveIds(findings) /\ r # Recommendation(id)
                     /\ is.plan = was.plan \/ r = Eligibility(id, is.plan)
                     /\ is.intent = was.intent \/ r = Authorization(is.intent),
           \A i \in DOMAIN applications' :
              \/ r = Authorization(i) /\ applications'[i].effects = {}
              \/ /\ i \in DOMAIN applications /\ r # Authorization(i)
                 /\ \/ applications'[i].effects = applications[i].effects
                    \/ r = Effect(i)
    PROVE  LineageInOrder'
<1>1. audit \in Seq(LineageRecord) /\ Len(audit) <= MaxLineage
  BY DEF TypeOK, LineageBounded
<1>2. /\ Kept(audit', r)
      /\ Full(audit) => Full(audit')
      /\ \A x : Kept(audit, x) => Kept(audit', x) \/ Full(audit')
      /\ \A a, b : a # r /\ Then(audit, a, b) => Then(audit', a, b)
      /\ \A a : a # r => Then(audit', a, r)
  BY <1>1, RetainedKeeps
<1>3. ASSUME NEW id \in LiveIds(findings')
      PROVE  LET f == findings'[id] IN
             /\ Kept(audit', Recommendation(id)) \/ Full(audit')
             /\ f.plan # NoPlan =>
                   /\ Kept(audit', Eligibility(id, f.plan)) \/ Full(audit')
                   /\ Then(audit', Recommendation(id), Eligibility(id, f.plan))
             /\ f.intent # NoIntent =>
                   Then(audit', Recommendation(id), Authorization(f.intent))
  <2>1. CASE r = Recommendation(id) /\ findings'[id].plan = NoPlan
             /\ findings'[id].intent = NoIntent
    BY <1>2, <2>1
  <2>2. CASE /\ id \in LiveIds(findings) /\ r # Recommendation(id)
             /\ \/ findings'[id].plan = findings[id].plan
                \/ r = Eligibility(id, findings'[id].plan)
             /\ \/ findings'[id].intent = findings[id].intent
                \/ r = Authorization(findings'[id].intent)
    BY <1>2, <2>2 DEF LineageInOrder
  <2> QED BY <2>1, <2>2
<1>4. ASSUME NEW i \in DOMAIN applications', FenceOf(i) = fence'
      PROVE  /\ Kept(audit', Authorization(i)) \/ Full(audit')
             /\ applications'[i].effects # {} =>
                   /\ Kept(audit', Effect(i)) \/ Full(audit')
                   /\ Then(audit', Authorization(i), Effect(i))
  <2>1. CASE r = Authorization(i) /\ applications'[i].effects = {}
    BY <1>2, <2>1
  <2>2. CASE /\ i \in DOMAIN applications /\ r # Authorization(i)
             /\ \/ applications'[i].effects = applications[i].effects
                \/ r = Effect(i)
    BY <1>2, <1>4, <2>2 DEF LineageInOrder
  <2> QED BY <2>1, <2>2
<1> QED BY <1>3, <1>4 DEF LineageInOrder

\* An intent names a fence and a finding, and is the subject of typed records.
LEMMA IntentTypes ==
    ASSUME TypeOK, NEW i \in DOMAIN applications
    PROVE  /\ FenceOf(i) \in Fence /\ i \in Intent
           /\ Authorization(i) \in LineageRecord /\ Effect(i) \in LineageRecord
           /\ Entry("Acknowledgement", i.finding, i) \in LineageRecord
<1>1. i \in Intent
  BY DEF TypeOK
<1>2. FenceOf(i) \in Fence /\ i.finding \in FindingId
  BY <1>1 DEF Intent, Plan, Assessment, FenceOf
<1> QED
  BY <1>1, <1>2 DEF Authorization, Effect, Entry, LineageRecord, AuthorityKind

\* A process that ended has no authority.
LEMMA LineageHalt == ASSUME Halt PROVE LineageInOrder' /\ Followed'
<1>1. DOMAIN findings' = {} /\ DOMAIN applications' = {}
  BY DEF Halt, Empty
<1>2. LiveIds(findings') = {}
  BY <1>1 DEF LiveIds
<1> QED BY <1>1, <1>2 DEF LineageInOrder, Followed

\* A move starts a new record, of the authority that is left: none.
LEMMA LineageMove ==
    ASSUME ~ StoreMayFail, TypeOK, FenceKnown, LiveFindingsCurrent, Followed,
           LineageInOrder, FenceMove
    PROVE  LineageInOrder' /\ Followed'
<1>1. CASE Cut
  BY <1>1, LineageHalt DEF Cut
<1>2. ASSUME NEW f, NEW d, NEW lineage, FenceStep(f, d, lineage)
      PROVE  LineageInOrder' /\ Followed'
  <2>1. /\ findings \in [DOMAIN findings -> Finding]
        /\ f \in Fence /\ fence \in Fence /\ Dominates(f, fence)
        /\ fence' = f /\ findings' = FenceStale(findings, f)
        /\ UNCHANGED applications
    BY <1>2 DEF TypeOK, FenceStep, MoveFence
  <2>2. /\ DOMAIN findings' = DOMAIN findings
        /\ \A i \in DOMAIN findings :
              \/ /\ findings'[i] = findings[i]
                 /\ IsTerminal(findings[i]) \/ findings[i].assessment.fence = f
              \/ /\ ~ IsTerminal(findings[i]) /\ findings'[i].state = "Stale"
                 /\ findings[i].assessment.fence # f
    BY <2>1, FenceStaleFacts
  <2>3. \A i \in LiveIds(findings') :
           /\ i \in LiveIds(findings) /\ findings'[i] = findings[i]
           /\ f = fence
    BY <2>2 DEF LiveFindingsCurrent, LiveIds, IsTerminal, Terminal
  <2>4. Followed'
    BY <2>1, IntentTypes, DominatesIsOrder DEF Followed
  <2>5. CASE f = fence
    <3> DEFINE r == Entry("FenceMove", 0, NoIntent)
    <3>1. audit' = audit \/ audit' = Retained(audit, r)
      BY <1>2, <2>5 DEF FenceStep, MoveFence, AuditAfter
    <3>2. r \in LineageRecord
      BY DEF Entry, LineageRecord, AuthorityKind
    <3>3. /\ \A id : r # Recommendation(id)
          /\ \A i : r # Authorization(i)
      BY DEF Entry, Recommendation, Authorization
    <3> HIDE DEF r
    <3>4. CASE audit' = audit
      <4>1. /\ fence' = fence /\ applications' = applications
            /\ \A i \in LiveIds(findings') :
                  /\ i \in LiveIds(findings)
                  /\ findings'[i].plan = findings[i].plan
                  /\ findings'[i].intent = findings[i].intent
        BY <2>1, <2>3, <2>5
      <4>2. \A i \in DOMAIN applications' :
               /\ i \in DOMAIN applications
               /\ applications'[i].effects = applications[i].effects
        BY <4>1
      <4>3. LineageInOrder'
        BY <3>4, <4>1, <4>2, LineageKept
      <4> QED BY <2>4, <4>3
    <3>5. CASE audit' = Retained(audit, r)
      <4>1. LineageInOrder'
        BY <2>1, <2>3, <2>5, <3>2, <3>3, <3>5, LineageRecorded
      <4> QED BY <2>4, <4>1
    <3> QED BY <2>4, <3>1, <3>4, <3>5
  <2>6. CASE f # fence
    <3>1. LiveIds(findings') = {}
      BY <2>3, <2>6
    <3>2. ASSUME NEW i \in DOMAIN applications, FenceOf(i) = f PROVE FALSE
      <4>1. \A c \in Component : f[c] \in Nat /\ fence[c] \in Nat
        BY <2>1 DEF Fence
      <4>2. \A c \in Component : f[c] = fence[c]
        BY <2>1, <3>2, <4>1 DEF Followed, Dominates
      <4> QED BY <2>1, <2>6, <4>2 DEF Fence
    <3> QED BY <2>1, <2>4, <3>1, <3>2 DEF LineageInOrder
  <2> QED BY <2>5, <2>6
<1> QED BY <1>1, <1>2, FenceMoveSteps

\* A published finding is recorded as recommended.
LEMMA LineagePublish ==
    ASSUME ~ StoreMayFail, TypeOK, Followed, LineageInOrder,
           NEW a \in held, PublishFinding(a)
    PROVE  LineageInOrder' /\ Followed'
<1> DEFINE f == NewFinding(a)
<1>1. f.plan = NoPlan /\ f.intent = NoIntent
  BY DEF NewFinding
<1>2. PICK id \in FindingId :
         \/ /\ CanRegister(findings, id)
            /\ findings' = Register(findings, id, f)
            /\ audit' = Retained(audit, Recommendation(id))
            /\ UNCHANGED <<fence, applications>>
         \/ UNCHANGED <<fence, findings, applications, audit>>
         \/ Halt
  BY PublishFacts DEF Audit, AuditAfter, Recommendation
<1> HIDE DEF f
<1>3. CASE /\ CanRegister(findings, id)
           /\ findings' = Register(findings, id, f)
           /\ audit' = Retained(audit, Recommendation(id))
           /\ UNCHANGED <<fence, applications>>
  <2>1. /\ id \notin DOMAIN findings
        /\ \A k \in DOMAIN findings' :
              \/ k = id /\ findings'[k] = f
              \/ k \in DOMAIN findings /\ findings'[k] = findings[k]
    BY <1>3, RegisterFacts DEF TypeOK
  <2>2. \A k \in LiveIds(findings') :
           \/ k = id /\ findings'[k] = f
           \/ k # id /\ k \in LiveIds(findings) /\ findings'[k] = findings[k]
    BY <2>1 DEF LiveIds
  <2>3. Recommendation(id) \in LineageRecord
    BY DEF Recommendation, Entry, LineageRecord, AuthorityKind
  <2>4. LineageInOrder'
    BY <1>1, <1>3, <2>2, <2>3, EntriesDiffer, LineageRecorded
  <2> QED BY <1>3, <2>4 DEF Followed
<1>4. CASE UNCHANGED <<fence, findings, applications, audit>>
  BY <1>4 DEF LineageInOrder, Followed
<1>5. CASE Halt
  BY <1>5, LineageHalt
<1> QED BY <1>2, <1>3, <1>4, <1>5

\* A plan that is attached is recorded as eligible.
LEMMA LineagePlan ==
    ASSUME ~ StoreMayFail, TypeOK, Followed, LineageInOrder,
           NEW a \in held, PlanContainment(a)
    PROVE  LineageInOrder' /\ Followed'
<1> DEFINE p == [assessment |-> a, targets |-> Cover[a.witnesses]]
<1>1. UNCHANGED <<fence, applications>>
  BY DEF PlanContainment
<1>2. /\ DOMAIN findings' = DOMAIN findings
      /\ \A id \in DOMAIN findings : findings'[id].state = findings[id].state
      /\ \/ UNCHANGED <<findings, audit>>
         \/ \E first \in DOMAIN findings :
               /\ Audit("Eligibility", first, p)
               /\ findings'[first].plan = p
               /\ findings'[first].intent = findings[first].intent
               /\ \A id \in DOMAIN findings \ {first} :
                     findings'[id] = findings[id]
  BY PlanFacts
<1>3. p \in Plan
  BY CoverAssumption DEF TypeOK, Plan, Assessment
<1> HIDE DEF p
<1>4. CASE UNCHANGED <<findings, audit>>
  <2>1. LineageInOrder'
    BY <1>1, <1>4 DEF LineageInOrder
  <2> QED BY <1>1, <2>1 DEF Followed
<1>5. ASSUME NEW first \in DOMAIN findings, Audit("Eligibility", first, p),
             findings'[first].plan = p,
             findings'[first].intent = findings[first].intent,
             \A id \in DOMAIN findings \ {first} : findings'[id] = findings[id]
      PROVE  LineageInOrder'
  <2>1. audit' = Retained(audit, Eligibility(first, p))
    BY <1>5 DEF Audit, AuditAfter, Eligibility
  <2>2. Eligibility(first, p) \in LineageRecord
    BY <1>3 DEF Eligibility, Entry, LineageRecord, AuthorityKind, TypeOK
  <2>3. \A id \in LiveIds(findings') :
           /\ id \in LiveIds(findings)
           /\ \/ findings'[id].plan = findings[id].plan
              \/ id = first /\ findings'[id].plan = p
           /\ findings'[id].intent = findings[id].intent
    BY <1>2, <1>5 DEF LiveIds, IsTerminal
  <2>4. /\ \A id : Eligibility(first, p) # Recommendation(id)
        /\ \A i : Eligibility(first, p) # Authorization(i)
    BY EntriesDiffer
  <2> QED BY <1>1, <2>1, <2>2, <2>3, <2>4, LineageRecorded
<1> QED BY <1>1, <1>2, <1>4, <1>5 DEF Followed

\* An intent is recorded as authorized.
LEMMA LineageAuthorize ==
    ASSUME ~ StoreMayFail, TypeOK, Followed, LineageInOrder,
           NEW id \in DOMAIN findings, NEW grant,
           NEW targets \in SUBSET Resource,
           AuthorizeContainment(id, grant, targets)
    PROVE  LineageInOrder' /\ Followed'
<1> DEFINE intent == [finding |-> id, plan |-> findings[id].plan,
                      targets |-> targets, issued |-> now]
<1>1. /\ id \in LiveIds(findings)
      /\ findings[id].plan.assessment.fence = fence
      /\ intent \in Intent
      /\ applications' = With(applications, intent, [acks |-> 0, effects |-> {}])
      /\ DOMAIN findings' = DOMAIN findings
      /\ \A i \in DOMAIN findings :
            /\ findings'[i].plan = findings[i].plan
            /\ i # id => findings'[i] = findings[i]
      /\ findings'[id].intent = intent
      /\ Audit("Authorization", id, intent)
      /\ UNCHANGED fence
  BY AuthorizeFacts
<1>2. intent.finding = id /\ FenceOf(intent) = fence
  BY <1>1 DEF FenceOf
<1>3. fence \in Fence /\ id \in FindingId
  BY DEF TypeOK
<1> HIDE DEF intent
<1>4. audit' = Retained(audit, Authorization(intent))
  BY <1>1, <1>2 DEF Audit, AuditAfter, Authorization
<1>5. Authorization(intent) \in LineageRecord
  BY <1>1, <1>2, <1>3 DEF Authorization, Entry, LineageRecord, AuthorityKind
<1>6. /\ DOMAIN applications' = DOMAIN applications \cup {intent}
      /\ applications'[intent].effects = {}
      /\ \A i \in DOMAIN applications \ {intent} : applications'[i] = applications[i]
  BY <1>1 DEF With
<1>7. \A i \in LiveIds(findings') :
         /\ i \in LiveIds(findings) /\ findings'[i].plan = findings[i].plan
         /\ i = id \/ findings'[i].intent = findings[i].intent
  BY <1>1 DEF LiveIds
<1>8. /\ \A i : i # intent => Authorization(i) # Authorization(intent)
      /\ \A i : Authorization(intent) # Recommendation(i)
  BY DEF Authorization, Recommendation, Entry
<1>9. Followed'
  BY <1>1, <1>2, <1>3, <1>6, DominatesIsOrder DEF Followed
<1>10. LineageInOrder'
  BY <1>1, <1>4, <1>5, <1>6, <1>7, <1>8, LineageRecorded
<1> QED BY <1>9, <1>10

\* An observed effect is recorded as verified.
LEMMA LineageEffect ==
    ASSUME ~ StoreMayFail, TypeOK, Followed, LineageInOrder,
           NEW intent \in DOMAIN applications, NEW target, NEW observed,
           RecordVerifiedEffect(intent, target, observed)
    PROVE  LineageInOrder' /\ Followed'
<1>1. /\ UNCHANGED fence /\ audit' = Retained(audit, Effect(intent))
      /\ \/ findings' = UpdateState(findings, intent.finding,
                                    "AppliedUnverified", "none")
         \/ findings' = UpdateState(findings, intent.finding, "Verified", "none")
      /\ DOMAIN applications' = DOMAIN applications
      /\ \A i \in DOMAIN applications \ {intent} : applications'[i] = applications[i]
  BY DEF RecordVerifiedEffect, Audit, AuditAfter, Effect
<1>2. findings \in [DOMAIN findings -> Finding]
  BY DEF TypeOK
<1>3. LiveIds(findings') = LiveIds(findings)
  <2>1. LiveIds(UpdateState(findings, intent.finding, "Verified", "none"))
           = LiveIds(findings)
    BY <1>2, UpdateStateViews DEF Live
  <2>2. LiveIds(UpdateState(findings, intent.finding, "AppliedUnverified", "none"))
           = LiveIds(findings)
    BY <1>2, UpdateStateViews DEF Live
  <2> QED BY <1>1, <2>1, <2>2
<1>4. \A i \in LiveIds(findings) :
         /\ findings'[i].plan = findings[i].plan
         /\ findings'[i].intent = findings[i].intent
  BY <1>1, <1>2, UpdateStateFacts DEF LiveIds
<1>5. Effect(intent) \in LineageRecord
  BY IntentTypes
<1>6. /\ \A i : Effect(intent) # Recommendation(i)
      /\ \A i : Effect(intent) # Authorization(i)
  BY DEF Effect, Recommendation, Authorization, Entry
<1>7. LineageInOrder'
  BY <1>1, <1>3, <1>4, <1>5, <1>6, LineageRecorded
<1> QED BY <1>1, <1>7 DEF Followed

\* An acknowledgement or a withdrawal gives no authority.
LEMMA LineageAnswer ==
    ASSUME ~ StoreMayFail, TypeOK, Followed, LineageInOrder,
           \/ \E intent \in DOMAIN applications : RecordAcknowledgement(intent)
           \/ \E id \in DOMAIN findings : WithdrawFinding(id)
    PROVE  LineageInOrder' /\ Followed'
<1>1. findings \in [DOMAIN findings -> Finding]
  BY DEF TypeOK
<1>2. /\ UNCHANGED fence
      /\ \/ UNCHANGED audit
         \/ \E r \in LineageRecord :
               /\ r.kind \in {"Acknowledgement", "Withdrawal"}
               /\ audit' = Retained(audit, r)
      /\ DOMAIN applications' = DOMAIN applications
      /\ \A i \in DOMAIN applications :
            applications'[i].effects = applications[i].effects
      /\ \/ UNCHANGED findings
         \/ \E id : findings' = UpdateState(findings, id, "AppliedUnverified", "none")
         \/ \E id : findings' = UpdateState(findings, id, "Withdrawn", "withdrawal")
  <2>1. CASE \E intent \in DOMAIN applications : RecordAcknowledgement(intent)
    <3>1. PICK intent \in DOMAIN applications : RecordAcknowledgement(intent)
      BY <2>1
    <3>2. applications' = [applications EXCEPT ![intent].acks = @ + 1]
      BY <3>1 DEF RecordAcknowledgement
    <3>3. applications \in [DOMAIN applications -> Application]
      BY DEF TypeOK
    <3>4. \A i \in DOMAIN applications :
             applications'[i].effects = applications[i].effects
      BY <3>2, <3>3 DEF Application
    <3>5. LET r == Entry("Acknowledgement", intent.finding, intent)
          IN  r \in LineageRecord /\ r.kind = "Acknowledgement"
      BY IntentTypes DEF Entry
    <3>6. audit' = Retained(audit, Entry("Acknowledgement", intent.finding, intent))
      BY <3>1 DEF RecordAcknowledgement, Audit, AuditAfter
    <3> QED BY <3>1, <3>2, <3>4, <3>5, <3>6 DEF RecordAcknowledgement
  <2>2. CASE \E id \in DOMAIN findings : WithdrawFinding(id)
    <3>1. PICK id \in DOMAIN findings : WithdrawFinding(id)
      BY <2>2
    <3>2. LET r == Entry("Withdrawal", id, NoIntent)
          IN  r \in LineageRecord /\ r.kind = "Withdrawal"
      BY DEF Entry, LineageRecord, AuthorityKind, TypeOK
    <3>3. \/ UNCHANGED audit
          \/ audit' = Retained(audit, Entry("Withdrawal", id, NoIntent))
      BY <3>1 DEF WithdrawFinding, Audit, AuditAfter
    <3> QED BY <3>1, <3>2, <3>3 DEF WithdrawFinding
  <2> QED BY <2>1, <2>2
<1>3. /\ DOMAIN findings' = DOMAIN findings
      /\ \A i \in DOMAIN findings :
            /\ findings'[i].plan = findings[i].plan
            /\ findings'[i].intent = findings[i].intent
            /\ IsTerminal(findings[i]) => IsTerminal(findings'[i])
  <2>1. ASSUME NEW id, NEW state \in {"AppliedUnverified", "Withdrawn"}, NEW cause,
               findings' = UpdateState(findings, id, state, cause)
        PROVE  /\ DOMAIN findings' = DOMAIN findings
               /\ \A i \in DOMAIN findings :
                     /\ findings'[i].plan = findings[i].plan
                     /\ findings'[i].intent = findings[i].intent
                     /\ IsTerminal(findings[i]) => IsTerminal(findings'[i])
    BY <1>1, <2>1, UpdateStateFacts DEF IsTerminal, Terminal
  <2> QED BY <1>2, <2>1
<1>4. \A i \in LiveIds(findings') :
         /\ i \in LiveIds(findings)
         /\ findings'[i].plan = findings[i].plan
         /\ findings'[i].intent = findings[i].intent
  BY <1>3 DEF LiveIds
<1>5. CASE UNCHANGED audit
  BY <1>2, <1>4, <1>5, LineageKept DEF Followed
<1>6. ASSUME NEW r \in LineageRecord, r.kind \in {"Acknowledgement", "Withdrawal"},
             audit' = Retained(audit, r)
      PROVE  LineageInOrder' /\ Followed'
  <2>1. /\ \A i : r # Recommendation(i)
        /\ \A i : r # Authorization(i)
    BY <1>6 DEF Recommendation, Authorization, Entry
  <2> QED BY <1>2, <1>4, <1>6, <2>1, LineageRecorded DEF Followed
<1> QED BY <1>2, <1>5, <1>6

\* A restart is later than every intent, and leaves no finding live.
LEMMA LineageOpen ==
    ASSUME TypeOK, FenceKnown, Recorded, Followed, Open
    PROVE  LineageInOrder' /\ Followed'
<1>1. /\ fence' = ReopenedFence /\ findings' = Restored(disk.findings)
      /\ UNCHANGED applications
  BY DEF Open
<1>2. /\ Dominates(fence', fence) /\ fence'["boot"] > fence["boot"]
  BY <1>1, ReopenedIsLater
<1>3. fence \in Fence /\ fence' \in Fence /\ "boot" \in Component
  BY <1>1, TypeNext DEF TypeOK, Next, Component
<1>4. LiveIds(findings') = {}
  <2>1. disk.findings \in Seq(DurableFinding)
    BY DEF TypeOK, Document
  <2> QED BY <1>1, <2>1, RestoredFacts DEF LiveIds, IsTerminal, Terminal
<1>5. Followed'
  BY <1>1, <1>2, <1>3, IntentTypes, DominatesIsOrder DEF Followed
<1>6. ASSUME NEW i \in DOMAIN applications' PROVE FenceOf(i) # fence'
  <2>1. FenceOf(i) \in Fence /\ FenceOf(i)["boot"] <= fence["boot"]
    BY <1>1, <1>3, IntentTypes DEF Followed, Dominates
  <2> QED BY <1>2, <1>3, <2>1 DEF Fence
<1> QED
  BY <1>4, <1>5, <1>6 DEF LineageInOrder

\* LineageInOrder is inductive, given Followed.
LEMMA LineageNext ==
    ASSUME ~ StoreMayFail, TypeOK, FenceKnown, Recorded, LiveFindingsCurrent,
           Followed, LineageInOrder, [Next]_vars
    PROVE  LineageInOrder' /\ Followed'
<1>1. CASE FenceMove
  BY <1>1, LineageMove
<1>2. CASE Open
  BY <1>2, LineageOpen
<1>3. CASE UNCHANGED <<fence, findings, applications, audit>>
  BY <1>3 DEF LineageInOrder, Followed
<1>4. CASE OtherCall
  <2>1. ASSUME NEW S, SubmitObservation(S) \/ Tick(S) \/ Detect(S) \/ ClearEvidence
        PROVE  UNCHANGED <<fence, findings, applications, audit>>
    BY <2>1 DEF SubmitObservation, Tick, Detect, ClearEvidence
  <2>2. ASSUME NEW a \in held, PublishFinding(a) \/ PlanContainment(a)
        PROVE  LineageInOrder' /\ Followed'
    BY <2>2, LineagePublish, LineagePlan
  <2>3. ASSUME NEW id \in DOMAIN findings, NEW grant, NEW targets \in SUBSET Resource,
               AuthorizeContainment(id, grant, targets)
        PROVE  LineageInOrder' /\ Followed'
    BY <2>3, LineageAuthorize
  <2>4. ASSUME NEW intent \in DOMAIN applications, NEW target, NEW observed,
               RecordVerifiedEffect(intent, target, observed)
        PROVE  LineageInOrder' /\ Followed'
    BY <2>4, LineageEffect
  <2>5. CASE Stop
    BY <2>5, LineageHalt DEF Stop
  <2>6. ASSUME NEW id \in DOMAIN findings, WithdrawFinding(id)
        PROVE  LineageInOrder' /\ Followed'
    BY <2>6, LineageAnswer
  <2>7. ASSUME NEW intent \in DOMAIN applications, RecordAcknowledgement(intent)
        PROVE  LineageInOrder' /\ Followed'
    BY <2>7, LineageAnswer
  <2> QED
    BY <1>3, <1>4, <2>1, <2>2, <2>3, <2>4, <2>5, <2>6, <2>7 DEF OtherCall
<1>5. CASE UNCHANGED vars
  BY <1>3, <1>5 DEF vars
<1> QED BY <1>1, <1>2, <1>4, <1>5, KindsOfSteps

\* With a store that commits every write, every live finding, every plan that
\* lets one be contained, every intent and every observed effect under the
\* fence in force has its lineage record, unless MaxLineage records were made
\* since the move: then the missing ones are the oldest (append_lineage and its
\* callers).
THEOREM EveryActIsRecorded == ~ StoreMayFail => (Spec => []LineageCoversAuthority)
<1> SUFFICES ASSUME ~ StoreMayFail PROVE Spec => []LineageCoversAuthority
  OBVIOUS
<1>1. Init => LineageInOrder /\ Followed /\ Recorded
  BY DEF Init, Empty, LiveIds, LineageInOrder, Followed, Recorded,
         FirstFence, Component
<1>2. TypeOK /\ FenceKnown /\ Recorded /\ [Next]_vars => Recorded'
  BY RecordedNext
<1>3. TypeOK /\ FenceKnown /\ Recorded /\ LiveFindingsCurrent /\ Followed
         /\ LineageInOrder /\ [Next]_vars
            => LineageInOrder' /\ Followed'
  BY LineageNext
<1>4. Spec => []LiveFindingsCurrent
  BY AuthorityIsCurrent
<1> QED
  BY <1>1, <1>2, <1>3, <1>4, OrderIsCover, KnownAlways, PTL DEF Spec

=============================================================================
