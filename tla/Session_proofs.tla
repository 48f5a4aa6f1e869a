---------------------------- MODULE Session_proofs ----------------------------
(***************************************************************************)
(* What the Session module guarantees for any peers and scripts: sessions  *)
(* keep their connections, operators read their own answers, no peer's     *)
(* view of the fence is ahead of the coordinator's, and containment is     *)
(* verified under the fence it was issued under.                           *)
(***************************************************************************)
EXTENDS Session, TLAPS

-----------------------------------------------------------------------------
(* The parts of the inductive invariant *)

Named == SessionId \cup {s + 1 : s \in SessionId}

InType == DOMAIN Answer \cup {"Hello", "Bye", "ContainAck", "EffectReport"}

InFrame == [type : InType, session : Named, sequence : Nat,
            fence : FenceVector, intent : Nat]

\* What the coordinator sends: the end of a handshake, answers, intents.
Ack == [type : {"HelloAck"}, re : Nat, ok : BOOLEAN, fence : FenceVector]
Answering == [type : Range(Answer) \cup {"Error"}, re : Nat, ok : BOOLEAN]
Order == [type : {"ContainIntent"}, re : Nat, intent : Nat]
OutFrame == Ack \cup Answering \cup Order

Entry == [conn : Peer, worker : BOOLEAN, inbound : Nat,
          assessed : FenceVector \cup {NoOne}]

Asked == [type : DOMAIN Answer, fence : FenceVector]

Phase == {"new", "hello", "idle", "waiting", "observing", "effect", "serving",
          "stray", "gone"}

PeerState == [phase : Phase, worker : BOOLEAN, late : BOOLEAN,
              fence : FenceVector, sequence : Nat, asked : Asked \cup {NoOne},
              left : Seq(DOMAIN Answer), handled : SUBSET Nat]

Typed ==
    /\ up \in BOOLEAN /\ fence \in FenceVector
    /\ finding \in {"none", "published", "planned"}
    /\ intents \in Seq(Intent)
    /\ sessions \in [DOMAIN sessions -> Entry]
    /\ greeting \in Peer \cup {NoOne} /\ backlog \in Seq(Peer)
    /\ link \in [Peer -> {"none", "open", "closed"}]
    /\ inbox \in [Peer -> Seq(InFrame)] /\ outbox \in [Peer -> Seq(OutFrame)]
    /\ peer \in [Peer -> PeerState]

InSession(p) == \E s \in DOMAIN sessions : sessions[s].conn = p
InBacklog(p) == \E k \in 1..Len(backlog) : backlog[k] = p

\* The coordinator takes a peer for a worker if it said that it is one.
KindKept(s) ==
    LET p == sessions[s].conn IN
    peer[p].phase = "gone" \/ sessions[s].worker = peer[p].worker

\* A connection is in one place: in the backlog, being greeted, or a session's.
Connected ==
    /\ \A s \in DOMAIN sessions :
          /\ link[sessions[s].conn] = "open"
          /\ KindKept(s)
          /\ \A t \in DOMAIN sessions \ {s} : sessions[t].conn # sessions[s].conn
    /\ greeting # NoOne =>
          link[greeting] = "open" /\ ~ InSession(greeting) /\ ~ InBacklog(greeting)
    /\ \A k \in 1..Len(backlog) :
          /\ link[backlog[k]] = "open" /\ ~ InSession(backlog[k])
          /\ \A m \in 1..Len(backlog) : backlog[m] = backlog[k] => m = k
    /\ \A p \in Peer : peer[p].phase = "new" => link[p] = "none"

\* What each kind of peer may be doing; one that has not shaken hands has
\* nothing in its mailbox before the answer, and has handled nothing.
PhasedOf(p) ==
    LET phase == peer[p].phase IN
    /\ phase \notin {"new", "gone"} =>
          /\ p \in Operator => phase \in {"hello", "idle", "waiting"}
          /\ p \in Worker =>
                phase \in {"hello", "idle", "observing", "effect", "serving"}
          /\ p \in Stray => phase = "stray"
    /\ phase = "new" => inbox[p] = <<>> /\ outbox[p] = <<>>
    /\ phase \in {"new", "hello"} => peer[p].handled = {}
    /\ phase = "hello" =>
          IF outbox[p] = <<>> THEN ~ InSession(p)
          ELSE outbox[p][1].type = "HelloAck"

Phased == \A p \in Peer : PhasedOf(p)

Below(v, w) == \A c \in Component : v[c] <= w[c]

\* Before the handshake an operator's hello or the answer to it is on the way.
Greeted(p) ==
    peer[p].phase = "hello" =>
        inbox[p] = <<>> \/ (outbox[p] = <<>> /\ Len(inbox[p]) <= 1)

\* An operator to which no intents are pushed, and which has always had its
\* answers, takes turns with the coordinator.
Alternate(p) ==
    ~ peer[p].worker /\ ~ peer[p].late =>
        /\ peer[p].phase = "hello" => Len(outbox[p]) <= 1
        /\ peer[p].phase = "idle" => inbox[p] = <<>> /\ outbox[p] = <<>>
        /\ peer[p].phase = "waiting" =>
              \/ inbox[p] = <<>> /\ outbox[p] = <<>>
              \/ /\ inbox[p] = <<>> /\ Len(outbox[p]) = 1
                 /\ outbox[p][1].re = peer[p].sequence
              \/ /\ outbox[p] = <<>> /\ Len(inbox[p]) = 1
                 /\ inbox[p][1].sequence = peer[p].sequence

\* What an operator may find in its mailbox that answers no request it waits for.
Beside == {"HelloAck", "ContainIntent", "ObservationAccepted", "Error"}

Requested(p, f) ==
    /\ f.sequence = peer[p].sequence /\ f.type = peer[p].asked.type
    /\ f.fence = peer[p].asked.fence

\* An operator has sent the request it waits for after all others, and those are
\* observations; so the only answer of the type it waits for is its own, or is to
\* an observation, and says that what it asked for came into force.
Awaiting(p) ==
    /\ peer[p].phase \in {"hello", "idle"} =>
          \A k \in 1..Len(outbox[p]) : outbox[p][k].type \in Beside
    /\ peer[p].phase = "idle" =>
          \A k \in 1..Len(inbox[p]) : inbox[p][k].type = "SubmitObservation"
    /\ peer[p].phase = "waiting" =>
          /\ peer[p].asked \in Asked
          /\ peer[p].asked.fence \in Bound(p, peer[p].asked.type)
          /\ \A k \in 1..Len(inbox[p]) :
                \/ inbox[p][k].type = "SubmitObservation"
                \/ k = Len(inbox[p]) /\ Requested(p, inbox[p][k])
          /\ \A k \in 1..Len(outbox[p]) :
                \/ outbox[p][k].type \in Beside
                \/ /\ inbox[p] = <<>>
                   /\ outbox[p][k].type = Answer[peer[p].asked.type]
                   /\ outbox[p][k].re = peer[p].sequence
                   /\ \A m \in 1..Len(outbox[p]) :
                         m # k => outbox[p][m].type \in Beside
          /\ \A k \in 1..Len(outbox[p]) :
                outbox[p][k].type = Answer[peer[p].asked.type] =>
                    Below(peer[p].asked.fence, fence)

TurnOf(p) == Greeted(p) /\ Alternate(p) /\ Awaiting(p)

Turns == \A p \in Operator : TurnOf(p)

\* Nobody believes in a fence that is still to come.
BelievedOf(p) ==
    /\ Below(peer[p].fence, fence)
    /\ \A k \in 1..Len(outbox[p]) :
          outbox[p][k].type = "HelloAck" => Below(outbox[p][k].fence, fence)

Believed == \A p \in Peer : BelievedOf(p)

\* What is about an intent comes from a worker that has taken it.
ReportedOf(p) ==
    /\ peer[p].handled \subseteq 1..Len(intents)
    /\ \A k \in 1..Len(outbox[p]) :
          outbox[p][k].type = "ContainIntent" =>
             outbox[p][k].intent \in 1..Len(intents)
    /\ \A k \in 1..Len(inbox[p]) :
          inbox[p][k].type \in {"ContainAck", "EffectReport"} =>
             /\ p \in Worker
             /\ inbox[p][k].intent \in peer[p].handled
             /\ inbox[p][k].fence = peer[p].fence

Reported == \A p \in Peer : ReportedOf(p)

IInv == /\ Typed /\ Connected /\ Phased /\ Turns /\ Believed /\ Reported
        /\ VerifiedUnderItsFence

-----------------------------------------------------------------------------

\* The table of answers: the requests it has, and answers that are no requests.
LEMMA AnswerFacts ==
    /\ DOMAIN Answer = {"SetTopology", "SetPolicy", "FenceAdvance", "FindingWithdraw",
                        "SubmitObservation", "DetectRequest", "PlanRequest",
                        "ContainAuthorize", "FindingPublish", "FindingQuery"}
    /\ \A r \in DOMAIN Answer :
          Answer[r] \in {"ConfigurationAccepted", "ObservationAccepted",
                         "AssessmentReply", "PlanReply", "FindingReply"}
    /\ \A r \in DOMAIN Answer : Answer[r] \in Beside <=> r = "SubmitObservation"
    /\ Answer["SubmitObservation"] = "ObservationAccepted"
<1>1. DOMAIN Answer = {"SetTopology", "SetPolicy", "FenceAdvance", "FindingWithdraw",
                        "SubmitObservation", "DetectRequest", "PlanRequest",
                        "ContainAuthorize", "FindingPublish", "FindingQuery"}
  BY DEF Answer
<1>2. ASSUME NEW r \in DOMAIN Answer
      PROVE Answer[r] \in {"ConfigurationAccepted", "ObservationAccepted",
                         "AssessmentReply", "PlanReply", "FindingReply"}
  BY <1>1, <1>2 DEF Answer
<1>3. ASSUME NEW r \in DOMAIN Answer
      PROVE Answer[r] \in Beside <=> r = "SubmitObservation"
  BY <1>1, <1>3 DEF Answer, Beside
<1> QED BY <1>1, <1>2, <1>3 DEF Answer

\* Being below is transitive.
LEMMA BelowThrough ==
    ASSUME NEW u \in FenceVector, NEW v \in FenceVector, NEW x \in FenceVector,
           Below(u, v), Below(v, x)
    PROVE  Below(u, x)
<1> SUFFICES ASSUME NEW c \in Component PROVE u[c] <= x[c]
  BY DEF Below
<1> u[c] \in Nat /\ v[c] \in Nat /\ x[c] \in Nat
  BY DEF FenceVector
<1> QED BY DEF Below

-----------------------------------------------------------------------------
(* What one frame of a session does *)

Frame(s) == Head(inbox[sessions[s].conn])

\* The fence only grows, intents are only added to, and only an effect report
\* that binds an intent's own fence verifies it.
RuntimeGoesOn(s) ==
    /\ fence' \in FenceVector /\ Below(fence, fence')
    /\ finding' \in {"none", "published", "planned"}
    /\ intents' \in Seq(Intent) /\ Len(intents) <= Len(intents')
    /\ \A i \in 1..Len(intents) : intents'[i].fence = intents[i].fence
    /\ \A i \in 1..Len(intents') :
          intents'[i].verified =>
             /\ i \in 1..Len(intents)
             /\ \/ intents[i].verified
                \/ /\ Frame(s).type = "EffectReport"
                   /\ Frame(s).intent = i
                   /\ Frame(s).fence = intents[i].fence

Continues ==
    /\ sessions' \in [DOMAIN sessions -> Entry]
    /\ \A t \in DOMAIN sessions : /\ sessions'[t].conn = sessions[t].conn
                                  /\ sessions'[t].worker = sessions[t].worker
    /\ UNCHANGED <<up, greeting, backlog, link>>

Ends(s) ==
    /\ Forget(s) /\ Closed(sessions[s].conn)
    /\ UNCHANGED <<up, greeting, backlog>>

\* The answer with the type the sender waits for says that what it asked for,
\* having known no fence ahead of the coordinator's, is in force.
Granted(p, f) ==
    Below(peer[p].fence, fence) /\ f.fence \in Bound(p, f.type)
        => Below(f.fence, fence')

AnswerTo(p, f, g) ==
    /\ g \in Answering /\ g.re = f.sequence
    /\ f.type \in DOMAIN Answer => g.type \in {Answer[f.type], "Error"}
    /\ f.type \in DOMAIN Answer /\ g.type = Answer[f.type] => Granted(p, f)

\* Nothing is sent but an answer to the sender and an intent to those who are
\* registered as workers.
Told(s) ==
    /\ outbox' \in [Peer -> Seq(OutFrame)]
    /\ \A p \in Peer :
          \/ outbox'[p] = outbox[p]
          \/ /\ p = sessions[s].conn /\ peer[p].phase \notin {"gone", "stray"}
             /\ \E g \in Answering : /\ outbox'[p] = Append(outbox[p], g)
                                     /\ AnswerTo(p, Frame(s), g)
          \/ /\ peer[p].worker /\ p # sessions[s].conn /\ InSession(p)
             /\ peer[p].phase \notin {"gone", "stray"}
             /\ Len(intents') # 0
             /\ outbox'[p] = Append(outbox[p], ContainIntent(Len(intents')))

Outcome(s) == Exit \/ (Told(s) /\ (Continues \/ Ends(s)))

\* A session's entry is typed; so is the frame that is next.
LEMMA FrameType ==
    ASSUME Typed, NEW s \in DOMAIN sessions, inbox[sessions[s].conn] # <<>>
    PROVE  /\ sessions[s] \in Entry /\ sessions[s].conn \in Peer
           /\ Frame(s) \in InFrame
           /\ Frame(s).type \in InType /\ Frame(s).sequence \in Nat
           /\ Frame(s).fence \in FenceVector /\ Frame(s).intent \in Nat
           /\ Frame(s) = inbox[sessions[s].conn][1]
<1>1. sessions[s] \in Entry /\ sessions[s].conn \in Peer
  BY DEF Typed, Entry
<1>2. inbox[sessions[s].conn] \in Seq(InFrame)
  BY <1>1 DEF Typed
<1>3. Frame(s) \in InFrame /\ Frame(s) = inbox[sessions[s].conn][1]
  BY <1>2 DEF Frame
<1> QED BY <1>1, <1>3 DEF InFrame

\* Serving a frame keeps every session where it is.
LEMMA ServingContinues ==
    ASSUME Typed, NEW s \in DOMAIN sessions, NEW f \in InFrame, Serving(s, f)
    PROVE  Continues
<1>1. f.sequence \in Nat
  BY DEF InFrame
<1>2. sessions' \in [DOMAIN sessions -> Entry]
  BY <1>1 DEF Serving, Typed, Entry
<1>3. ASSUME NEW t \in DOMAIN sessions
      PROVE  sessions'[t].conn = sessions[t].conn /\ sessions'[t].worker = sessions[t].worker
  BY DEF Serving, Typed, Entry
<1> QED BY <1>2, <1>3 DEF Continues, Serving

\* An answer to the sender is all that is sent.
LEMMA AnsweredIsTold ==
    ASSUME Typed, NEW s \in DOMAIN sessions, inbox[sessions[s].conn] # <<>>,
           NEW type, NEW ok \in BOOLEAN, Answered(s, Frame(s), type, ok),
           type \in Range(Answer) \cup {"Error"},
           Frame(s).type \in DOMAIN Answer => type \in {Answer[Frame(s).type], "Error"},
           Frame(s).type \in DOMAIN Answer /\ type = Answer[Frame(s).type]
              => Granted(sessions[s].conn, Frame(s))
    PROVE  Told(s)
<1> DEFINE p == sessions[s].conn
           g == Reply(type, Frame(s), ok)
<1>1. p \in Peer /\ Frame(s).sequence \in Nat
  BY FrameType
<1>2. g \in Answering /\ g.re = Frame(s).sequence /\ g.type = type
  BY <1>1 DEF Reply, Answering
<1>3. AnswerTo(p, Frame(s), g)
  BY <1>2 DEF AnswerTo
<1>4. g \in OutFrame
  BY <1>2 DEF OutFrame
<1>5. outbox \in [Peer -> Seq(OutFrame)]
  BY DEF Typed
<1>6. outbox' = [outbox EXCEPT ![p] = With(p, g)]
  BY DEF Answered
<1> HIDE DEF g
<1>7. CASE peer[p].phase \in {"gone", "stray"}
  <2>1. outbox' = outbox
    BY <1>1, <1>5, <1>6, <1>7 DEF With
  <2> QED BY <2>1, <1>5 DEF Told
<1>8. CASE peer[p].phase \notin {"gone", "stray"}
  <2>1. outbox' = [outbox EXCEPT ![p] = Append(outbox[p], g)]
    BY <1>6, <1>8 DEF With
  <2>2. Append(outbox[p], g) \in Seq(OutFrame)
    BY <1>1, <1>4, <1>5
  <2>3. outbox' \in [Peer -> Seq(OutFrame)]
    BY <2>1, <2>2, <1>5
  <2>4. outbox'[p] = Append(outbox[p], g)
    BY <2>1, <1>1, <1>5
  <2>5. \A q \in Peer \ {p} : outbox'[q] = outbox[q]
    BY <2>1, <1>5
  <2> QED BY <2>3, <2>4, <2>5, <1>2, <1>3, <1>8 DEF Told
<1> QED BY <1>7, <1>8

\* A refusal is an answer, and changes nothing else.
LEMMA RefuseFacts ==
    ASSUME Typed, NEW s \in DOMAIN sessions, inbox[sessions[s].conn] # <<>>,
           Refuse(s, Frame(s))
    PROVE  Told(s) /\ Continues /\ UNCHANGED runtime
<1>1. Frame(s) \in InFrame
  BY FrameType
<1>2. Continues
  BY <1>1, ServingContinues DEF Refuse
<1>3. "Error" \in Range(Answer) \cup {"Error"}
  OBVIOUS
<1>4. Frame(s).type \in DOMAIN Answer => "Error" # Answer[Frame(s).type]
  BY AnswerFacts
<1>5. Told(s)
  BY <1>3, <1>4, AnsweredIsTold DEF Refuse
<1> QED BY <1>2, <1>5 DEF Refuse

\* What leaves the runtime alone lets it go on.
LEMMA UnchangedGoesOn ==
    ASSUME Typed, NEW s \in DOMAIN sessions, UNCHANGED intents,
           fence' \in FenceVector, Below(fence, fence'),
           finding' \in {"none", "published", "planned"}
    PROVE  RuntimeGoesOn(s)
<1>1. intents \in Seq(Intent) /\ Len(intents) \in Nat
  BY DEF Typed
<1> QED BY <1>1 DEF RuntimeGoesOn

\* The fence that is left alone grows, too.
LEMMA UnchangedFence ==
    ASSUME Typed, UNCHANGED fence
    PROVE  fence' \in FenceVector /\ Below(fence, fence')
BY DEF Typed, Below, FenceVector

\* A request that is refused leaves the runtime where it was.
LEMMA RefusedGoesOn ==
    ASSUME Typed, NEW s \in DOMAIN sessions, UNCHANGED runtime
    PROVE  RuntimeGoesOn(s)
BY UnchangedFence, UnchangedGoesOn DEF Typed, runtime

\* A move of the fence that is upward.
LEMMA MovedGoesOn ==
    ASSUME Typed, NEW s \in DOMAIN sessions, NEW v \in FenceVector, Below(fence, v),
           Moved(v)
    PROVE  RuntimeGoesOn(s)
<1>1. fence' = v /\ UNCHANGED intents
  BY DEF Moved
<1>2. finding' \in {"none", "published", "planned"}
  BY DEF Moved, Typed
<1> QED BY <1>1, <1>2, UnchangedGoesOn

\* A configuration raises its component, and only as far as its sender asked.
LEMMA InstallFacts ==
    ASSUME Typed, NEW s \in DOMAIN sessions, inbox[sessions[s].conn] # <<>>,
           Install(s, Frame(s))
    PROVE  RuntimeGoesOn(s) /\ Outcome(s)
<1> DEFINE f == Frame(s)
           p == sessions[s].conn
           c == IF f.type = "SetTopology" THEN "topology" ELSE "policy"
           v == [fence EXCEPT ![c] = f.fence[c]]
<1>1. f \in InFrame /\ f.fence \in FenceVector /\ p \in Peer /\ f.sequence \in Nat
  BY FrameType
<1>2. f.type \in {"SetTopology", "SetPolicy"} /\ c \in Component
  BY DEF Install, Component
<1>3. fence \in FenceVector
  BY DEF Typed
<1>4. CASE f.fence[c] > fence[c] /\ Moved(v) /\
              (Exit \/ (Serving(s, f) /\ Answered(s, f, Answer[f.type], TRUE)))
  <2>1. v \in FenceVector /\ Below(fence, v)
    BY <1>1, <1>2, <1>3, <1>4 DEF FenceVector, Below
  <2>2. RuntimeGoesOn(s)
    BY <1>4, <2>1, MovedGoesOn
  <2>3. CASE Exit
    BY <2>2, <2>3 DEF Outcome
  <2>4. CASE Serving(s, f) /\ Answered(s, f, Answer[f.type], TRUE)
    <3>1. f.type \in DOMAIN Answer /\ Answer[f.type] \in Range(Answer) \cup {"Error"}
      BY <1>2, AnswerFacts DEF Range
    <3>2. Granted(p, f)
      <4> SUFFICES ASSUME Below(peer[p].fence, fence), f.fence \in Bound(p, f.type),
                          NEW d \in Component
                   PROVE  f.fence[d] <= fence'[d]
        BY DEF Granted, Below
      <4>1. fence' = v
        BY <1>4 DEF Moved
      <4>2. peer[p].fence \in FenceVector
        BY <1>1 DEF Typed, PeerState
      <4>3. f.fence = [peer[p].fence EXCEPT ![c] = @ + 1]
        BY <1>2 DEF Bound
      <4>4. CASE d = c
        BY <4>1, <4>4, <1>1, <1>2, <1>3 DEF FenceVector
      <4>5. CASE d # c
        <5>1. f.fence[d] = peer[p].fence[d] /\ fence'[d] = fence[d]
          BY <4>1, <4>2, <4>3, <4>5, <1>3 DEF FenceVector
        <5> QED BY <5>1 DEF Below
      <4> QED BY <4>4, <4>5
    <3>3. Told(s)
      BY <2>4, <3>1, <3>2, AnsweredIsTold
    <3>4. Continues
      BY <2>4, <1>1, ServingContinues
    <3> QED BY <2>2, <3>3, <3>4 DEF Outcome
  <2> QED BY <1>4, <2>3, <2>4
<1>5. CASE Refuse(s, f)
  BY <1>5, RefuseFacts, RefusedGoesOn DEF Outcome
<1>6. CASE Exit /\ UNCHANGED runtime
  BY <1>6, RefusedGoesOn DEF Outcome
<1>7. \/ (f.fence[c] > fence[c] /\ Moved(v) /\
            (Exit \/ (Serving(s, f) /\ Answered(s, f, Answer[f.type], TRUE))))
      \/ Refuse(s, f)
      \/ (Exit /\ UNCHANGED runtime)
  BY Zenon DEF Install
<1> QED BY <1>4, <1>5, <1>6, <1>7

\* A fence advance raises one component, to what its sender asked.
LEMMA AdvanceFacts ==
    ASSUME Typed, NEW s \in DOMAIN sessions, inbox[sessions[s].conn] # <<>>,
           FenceAdvance(s, Frame(s))
    PROVE  RuntimeGoesOn(s) /\ Outcome(s)
<1> DEFINE f == Frame(s)
           p == sessions[s].conn
           v == Advanced(f.fence)
<1>1. f \in InFrame /\ f.fence \in FenceVector /\ p \in Peer /\ f.sequence \in Nat
  BY FrameType
<1>2. fence \in FenceVector /\ f.type = "FenceAdvance"
  BY DEF Typed, FenceAdvance
<1>3. v \in FenceVector /\ Below(fence, v)
  BY <1>1, <1>2 DEF Advanced, FenceVector, Below, Component
<1>4. RuntimeGoesOn(s)
  BY <1>3, MovedGoesOn DEF FenceAdvance
<1>5. Granted(p, f)
  <2> SUFFICES ASSUME Below(peer[p].fence, fence), f.fence \in Bound(p, f.type)
               PROVE  Below(f.fence, fence')
    BY DEF Granted
  <2>1. fence' = v
    BY DEF FenceAdvance, Moved
  <2>2. peer[p].fence \in FenceVector
    BY <1>1 DEF Typed, PeerState
  <2>3. PICK c \in {"topology", "forwarding"} :
            f.fence = [peer[p].fence EXCEPT ![c] = @ + 1]
    BY <1>2 DEF Bound
  <2>4. \A d \in Component : peer[p].fence[d] <= fence[d]
    BY DEF Below
  <2>5. /\ f.fence[c] <= fence[c] + 1
        /\ \A d \in Component \ {c} : f.fence[d] <= fence[d]
    <3>1. c \in Component
      BY DEF Component
    <3>2. ASSUME NEW d \in Component
          PROVE  f.fence[d] = IF d = c THEN peer[p].fence[d] + 1 ELSE peer[p].fence[d]
      BY <2>2, <2>3 DEF FenceVector
    <3>3. \A d \in Component : peer[p].fence[d] \in Nat /\ fence[d] \in Nat
      BY <2>2, <1>2 DEF FenceVector
    <3> HIDE DEF f
    <3> QED BY <3>1, <3>2, <3>3, <2>4
  <2>6. CASE c = "topology"
    <3>1. f.fence["forwarding"] <= fence["forwarding"]
      BY <2>5, <2>6 DEF Component
    <3>2. v = IF f.fence["topology"] > fence["topology"]
              THEN [fence EXCEPT !["topology"] = f.fence["topology"]] ELSE fence
      BY <3>1, <1>1, <1>2 DEF Advanced, FenceVector, Component
    <3> HIDE DEF f, v
    <3> QED BY <3>2, <2>1, <2>5, <2>6, <1>1, <1>2 DEF FenceVector, Below, Component
  <2>7. CASE c = "forwarding"
    <3>1. f.fence["topology"] <= fence["topology"]
      BY <2>5, <2>7 DEF Component
    <3>2. v = IF f.fence["forwarding"] > fence["forwarding"]
              THEN [fence EXCEPT !["forwarding"] = f.fence["forwarding"]] ELSE fence
      BY <3>1, <1>1, <1>2 DEF Advanced, FenceVector, Component
    <3> HIDE DEF f, v
    <3> QED BY <3>2, <2>1, <2>5, <2>7, <1>1, <1>2 DEF FenceVector, Below, Component
  <2> QED BY <2>3, <2>6, <2>7
<1>6. CASE Serving(s, f) /\ Answered(s, f, Answer[f.type], TRUE)
  <2>1. Answer[f.type] \in Range(Answer) \cup {"Error"}
    BY <1>2, AnswerFacts DEF Range
  <2>2. Told(s)
    BY <1>5, <1>6, <2>1, AnsweredIsTold
  <2>3. Continues
    BY <1>1, <1>6, ServingContinues
  <2> QED BY <1>4, <2>2, <2>3 DEF Outcome
<1>7. CASE Exit
  BY <1>4, <1>7 DEF Outcome
<1> QED BY <1>6, <1>7 DEF FenceAdvance

\* Requests that bind the fence as their sender knows it and leave it alone.
LEMMA PlainAnswer ==
    ASSUME Typed, NEW s \in DOMAIN sessions, inbox[sessions[s].conn] # <<>>,
           UNCHANGED fence, NEW type, NEW ok \in BOOLEAN,
           type \in Range(Answer) \cup {"Error"},
           Frame(s).type \in DOMAIN Answer => type \in {Answer[Frame(s).type], "Error"},
           Answered(s, Frame(s), type, ok),
           Frame(s).type \notin {"SetTopology", "SetPolicy", "FenceAdvance"}
    PROVE  Told(s)
<1>1. Granted(sessions[s].conn, Frame(s))
  BY DEF Granted, Bound
<1> QED BY <1>1, AnsweredIsTold

\* The requests whose answer says nothing about the fence.
LEMMA RequestFacts ==
    ASSUME Typed, NEW s \in DOMAIN sessions, inbox[sessions[s].conn] # <<>>,
           \/ Report(s, Frame(s)) \/ FindingWithdraw(s, Frame(s))
           \/ DetectRequest(s, Frame(s)) \/ FindingPublish(s, Frame(s))
           \/ PlanRequest(s, Frame(s)) \/ Unsupported(s, Frame(s))
    PROVE  RuntimeGoesOn(s) /\ Outcome(s)
<1> DEFINE f == Frame(s)
           p == sessions[s].conn
<1>1. f \in InFrame /\ p \in Peer /\ f.sequence \in Nat
  BY FrameType
<1>2. UNCHANGED fence => fence' \in FenceVector /\ Below(fence, fence')
  BY UnchangedFence
<1>3. \A r \in DOMAIN Answer : Answer[r] \in Range(Answer) \cup {"Error"}
  BY DEF Range
<1>4. CASE Refuse(s, f)
  BY <1>4, RefuseFacts, RefusedGoesOn DEF Outcome
<1>5. CASE Exit /\ UNCHANGED runtime
  BY <1>5, RefusedGoesOn DEF Outcome
<1>6. ASSUME UNCHANGED <<fence, intents>>, finding' \in {finding, "none", "published", "planned"}
      PROVE  RuntimeGoesOn(s)
  <2>1. finding' \in {"none", "published", "planned"}
    BY <1>6 DEF Typed
  <2> QED BY <2>1, <1>2, <1>6, UnchangedGoesOn
<1>7. ASSUME UNCHANGED fence, f.type \in DOMAIN Answer,
             f.type \notin {"SetTopology", "SetPolicy", "FenceAdvance"},
             Answered(s, f, Answer[f.type], TRUE)
      PROVE  Told(s)
  BY <1>3, <1>7, PlainAnswer
<1>8. ASSUME UNCHANGED <<fence, intents>>, finding' \in {finding, "none", "published", "planned"},
             f.type \in DOMAIN Answer,
             f.type \notin {"SetTopology", "SetPolicy", "FenceAdvance"},
             Serving(s, f), Answered(s, f, Answer[f.type], TRUE)
      PROVE  RuntimeGoesOn(s) /\ Outcome(s)
  BY <1>1, <1>6, <1>7, <1>8, ServingContinues DEF Outcome
<1>9. CASE Report(s, f)
  BY <1>8, <1>9, AnswerFacts DEF Report, runtime
<1>10. CASE FindingWithdraw(s, f)
  BY <1>8, <1>10, AnswerFacts DEF FindingWithdraw
<1>11. CASE DetectRequest(s, f)
  <2>1. f.type = "DetectRequest"
    BY <1>11 DEF DetectRequest
  <2>2. CASE f.fence = fence
    <3>1. /\ sessions' = [sessions EXCEPT ![s].inbound = f.sequence, ![s].assessed = fence]
          /\ Answered(s, f, Answer[f.type], TRUE)
          /\ UNCHANGED <<up, greeting, backlog, link, runtime>>
      BY <1>11, <2>2 DEF DetectRequest
    <3>2. sessions \in [DOMAIN sessions -> Entry] /\ fence \in FenceVector
      BY DEF Typed
    <3>3. sessions' \in [DOMAIN sessions -> Entry]
      BY <3>1, <3>2, <1>1 DEF Entry
    <3>4. ASSUME NEW t \in DOMAIN sessions
          PROVE  sessions'[t].conn = sessions[t].conn /\ sessions'[t].worker = sessions[t].worker
      BY <3>1, <3>2 DEF Entry
    <3>5. Continues
      BY <3>1, <3>3, <3>4 DEF Continues
    <3>6. Told(s)
      BY <3>1, <2>1, <1>7, AnswerFacts DEF runtime
    <3> QED BY <3>1, <3>5, <3>6, <1>6 DEF Outcome, runtime
  <2>3. CASE f.fence # fence
    BY <1>4, <1>11, <2>3 DEF DetectRequest
  <2> QED BY <2>2, <2>3
<1>12. CASE FindingPublish(s, f)
  <2>1. f.type = "FindingPublish"
    BY <1>12 DEF FindingPublish
  <2>2. \/ /\ UNCHANGED <<fence, intents>>
           /\ finding' \in {finding, "published"}
           /\ \/ Exit
              \/ (Serving(s, f) /\ Answered(s, f, Answer[f.type], TRUE))
        \/ Refuse(s, f)
        \/ (Exit /\ UNCHANGED runtime)
    BY <1>12 DEF FindingPublish
  <2>3. CASE Exit
    BY <2>2, <2>3, <1>4, <1>5, <1>6 DEF Outcome
  <2> QED BY <2>1, <2>2, <2>3, <1>4, <1>8, AnswerFacts
<1>13. CASE PlanRequest(s, f)
  <2>1. f.type = "PlanRequest"
    BY <1>13 DEF PlanRequest
  <2>2. \/ /\ UNCHANGED <<fence, intents>>
           /\ finding' \in {finding, "planned"}
           /\ Serving(s, f) /\ Answered(s, f, Answer[f.type], TRUE)
        \/ Refuse(s, f)
    BY <1>13 DEF PlanRequest
  <2> QED BY <2>1, <2>2, <1>4, <1>8, AnswerFacts
<1>14. CASE Unsupported(s, f)
  BY <1>14, <1>4 DEF Unsupported
<1> QED BY <1>9, <1>10, <1>11, <1>12, <1>13, <1>14

\* An authorization answers its sender, and orders the containment of workers.
LEMMA AuthorizeFacts ==
    ASSUME Typed, Connected, NEW s \in DOMAIN sessions, inbox[sessions[s].conn] # <<>>,
           ContainAuthorize(s, Frame(s))
    PROVE  RuntimeGoesOn(s) /\ Outcome(s)
<1> DEFINE f == Frame(s)
           p == sessions[s].conn
           issued == [fence |-> fence, acked |-> FALSE, verified |-> FALSE]
           g == Reply("PlanReply", f, TRUE)
           order == ContainIntent(Len(intents'))
<1>1. f \in InFrame /\ p \in Peer /\ f.sequence \in Nat /\ f.type = "ContainAuthorize"
  BY FrameType DEF ContainAuthorize
<1>2. CASE Refuse(s, f)
  BY <1>2, RefuseFacts, RefusedGoesOn DEF Outcome
<1>3. CASE ~ Refuse(s, f)
  <2>1. /\ intents' = Append(intents, issued)
        /\ outbox' = [q \in Peer |-> IF q = p THEN With(q, g)
                                     ELSE IF q \in Receivers(s) THEN With(q, order)
                                     ELSE outbox[q]]
        /\ Serving(s, f) /\ UNCHANGED <<fence, finding>>
    BY <1>3 DEF ContainAuthorize
  <2>2. intents \in Seq(Intent) /\ issued \in Intent
    BY DEF Typed, Intent
  <2>3. /\ intents' \in Seq(Intent) /\ Len(intents') = Len(intents) + 1
        /\ \A i \in 1..Len(intents) : intents'[i] = intents[i]
        /\ intents'[Len(intents) + 1] = issued
        /\ Len(intents) \in Nat
    BY <2>1, <2>2
  <2>4. RuntimeGoesOn(s)
    <3>1. fence' \in FenceVector /\ Below(fence, fence')
      BY <2>1, UnchangedFence
    <3>2. finding' \in {"none", "published", "planned"}
      BY <2>1 DEF Typed
    <3>3. \A i \in 1..Len(intents') : intents'[i].verified =>
              i \in 1..Len(intents) /\ intents[i].verified
      <4> SUFFICES ASSUME NEW i \in 1..Len(intents'), intents'[i].verified
                   PROVE  i \in 1..Len(intents) /\ intents[i].verified
        OBVIOUS
      <4>1. i # Len(intents) + 1
        BY <2>3
      <4> QED BY <4>1, <2>3
    <3> QED BY <3>1, <3>2, <3>3, <2>3 DEF RuntimeGoesOn
  <2>5. g \in Answering /\ g.re = f.sequence
    <3>1. "PlanReply" = Answer["ContainAuthorize"] /\ "ContainAuthorize" \in DOMAIN Answer
      BY DEF Answer
    <3>2. "PlanReply" \in Range(Answer)
      BY <3>1 DEF Range
    <3> QED BY <1>1, <3>2 DEF Reply, Answering
  <2>6. AnswerTo(p, f, g)
    <3>1. g.type = Answer[f.type] /\ f.fence \in Bound(p, f.type) => f.fence = peer[p].fence
      BY <1>1 DEF Bound
    <3>2. g.type = Answer[f.type]
      BY <1>1 DEF Reply, Answer
    <3> QED BY <2>5, <2>1, <1>1, <3>1, <3>2 DEF AnswerTo, Granted
  <2>7. order \in Order /\ Len(intents') # 0 /\ Len(intents') \in Nat
    BY <2>3 DEF ContainIntent, Order
  <2>8. \A q \in Receivers(s) : /\ peer[q].phase = "gone" \/ peer[q].worker
                                /\ q # p /\ InSession(q)
    BY DEF Receivers, Connected, InSession, KindKept
  <2>9. outbox \in [Peer -> Seq(OutFrame)] /\ g \in OutFrame /\ order \in OutFrame
    BY <2>5, <2>7 DEF Typed, OutFrame
  <2> HIDE DEF g, order
  <2>10. Told(s)
    <3>1. ASSUME NEW q \in Peer
          PROVE  /\ outbox'[q] \in Seq(OutFrame)
                 /\ \/ outbox'[q] = outbox[q]
                    \/ /\ q = p /\ peer[q].phase \notin {"gone", "stray"}
                       /\ outbox'[q] = Append(outbox[q], g)
                    \/ /\ peer[q].worker /\ q # p /\ InSession(q)
                       /\ peer[q].phase \notin {"gone", "stray"}
                       /\ outbox'[q] = Append(outbox[q], order)
      <4>1. outbox[q] \in Seq(OutFrame)
        BY <2>9
      <4>2. Append(outbox[q], g) \in Seq(OutFrame) /\ Append(outbox[q], order) \in Seq(OutFrame)
        BY <4>1, <2>9
      <4>3. CASE q = p
        BY <4>1, <4>2, <4>3, <2>1 DEF With
      <4>4. CASE q # p /\ q \in Receivers(s)
        BY <4>1, <4>2, <4>4, <2>1, <2>8 DEF With
      <4>5. CASE q # p /\ q \notin Receivers(s)
        BY <4>1, <4>5, <2>1
      <4> QED BY <4>3, <4>4, <4>5
    <3>2. outbox' \in [Peer -> Seq(OutFrame)]
      BY <3>1, <2>1
    <3>3. order = ContainIntent(Len(intents'))
      BY DEF order
    <3> QED BY <3>1, <3>2, <3>3, <2>5, <2>6, <2>7 DEF Told
  <2> QED BY <2>1, <2>4, <2>10, <1>1, ServingContinues DEF Outcome
<1> QED BY <1>2, <1>3

\* What a worker reports is recorded with the intent it has taken.
LEMMA ReportFacts ==
    ASSUME Typed, Reported, NEW s \in DOMAIN sessions, inbox[sessions[s].conn] # <<>>,
           ContainReport(s, Frame(s))
    PROVE  RuntimeGoesOn(s) /\ Outcome(s)
<1> DEFINE f == Frame(s)
           p == sessions[s].conn
           i == f.intent
           current == intents[i].fence = fence
           acks == f.type = "ContainAck" /\ current
           verifies == f.type = "EffectReport" /\ current /\ f.fence = fence
           a == intents[i].acked \/ acks
           v == intents[i].verified \/ verifies
<1>1. f \in InFrame /\ p \in Peer /\ f.sequence \in Nat /\ f = inbox[p][1]
  BY FrameType
<1>2. /\ f.type \in {"ContainAck", "EffectReport"}
      /\ intents' = [intents EXCEPT ![i].acked = @ \/ acks, ![i].verified = @ \/ verifies]
      /\ Serving(s, f) /\ Answered(s, f, "ObservationAccepted", TRUE)
      /\ UNCHANGED <<fence, finding>>
  BY Zenon DEF ContainReport, ObservedUnder
<1>3. i \in 1..Len(intents)
  <2>1. inbox[p] \in Seq(InFrame)
    BY <1>1 DEF Typed
  <2>2. 1 \in 1..Len(inbox[p])
    BY <2>1
  <2> QED BY <2>2, <1>1, <1>2 DEF Reported, ReportedOf
<1>4. intents \in Seq(Intent) /\ intents[i] \in Intent /\ Len(intents) \in Nat
  BY <1>3 DEF Typed
<1> DEFINE r == [intents[i] EXCEPT !.acked = a, !.verified = v]
<1>5. intents' = [intents EXCEPT ![i] = r]
  BY <1>2, <1>3, <1>4
<1>6. a \in BOOLEAN /\ v \in BOOLEAN
  BY <1>4 DEF Intent
<1>7. r \in Intent /\ r.fence = intents[i].fence /\ r.verified = v
  BY <1>4, <1>6 DEF Intent
<1> HIDE DEF r
<1>8. /\ intents' \in Seq(Intent) /\ Len(intents') = Len(intents)
      /\ \A k \in 1..Len(intents) : intents'[k] = IF k = i THEN r ELSE intents[k]
  BY <1>3, <1>4, <1>5, <1>7
<1>9. RuntimeGoesOn(s)
  <2>1. fence' \in FenceVector /\ Below(fence, fence')
    BY <1>2, UnchangedFence
  <2>2. finding' \in {"none", "published", "planned"}
    BY <1>2 DEF Typed
  <2>3. \A k \in 1..Len(intents) : intents'[k].fence = intents[k].fence
    BY <1>7, <1>8
  <2>4. ASSUME NEW k \in 1..Len(intents), intents'[k].verified
        PROVE  \/ intents[k].verified
               \/ f.type = "EffectReport" /\ f.intent = k /\ f.fence = intents[k].fence
    <3>1. CASE k # i
      BY <3>1, <2>4, <1>8
    <3>2. CASE k = i
      <4>1. v
        BY <3>2, <2>4, <1>7, <1>8
      <4> QED BY <4>1, <3>2
    <3> QED BY <3>1, <3>2
  <2> QED BY <2>1, <2>2, <2>3, <2>4, <1>4, <1>8 DEF RuntimeGoesOn
<1>10. Told(s)
  <2>1. "ObservationAccepted" = Answer["SubmitObservation"]
        /\ "SubmitObservation" \in DOMAIN Answer
    BY DEF Answer
  <2>2. "ObservationAccepted" \in Range(Answer) \cup {"Error"}
    BY <2>1 DEF Range
  <2>3. f.type \notin DOMAIN Answer
    BY <1>2, AnswerFacts
  <2> QED BY <2>2, <2>3, <1>2, AnswerFacts, PlainAnswer
<1> QED BY <1>1, <1>2, <1>9, <1>10, ServingContinues DEF Outcome

\* The end of a session: an error to the sender at most, and its connection closes.
LEMMA EndFacts ==
    ASSUME Typed, NEW s \in DOMAIN sessions, inbox[sessions[s].conn] # <<>>,
           EndSession(s, Frame(s))
    PROVE  RuntimeGoesOn(s) /\ Outcome(s)
<1>1. RuntimeGoesOn(s)
  BY RefusedGoesOn DEF EndSession
<1>2. Ends(s)
  BY DEF EndSession, Ends
<1>3. CASE Answered(s, Frame(s), "Error", FALSE)
  <2>1. Frame(s).type \in DOMAIN Answer => "Error" # Answer[Frame(s).type]
    BY AnswerFacts
  <2>2. Told(s)
    BY <1>3, <2>1, AnsweredIsTold
  <2> QED BY <2>2, <1>1, <1>2 DEF Outcome
<1>4. CASE UNCHANGED outbox
  <2>1. Told(s)
    BY <1>4 DEF Told, Typed
  <2> QED BY <2>1, <1>1, <1>2 DEF Outcome
<1> QED BY <1>3, <1>4 DEF EndSession

\* Whatever the frame is.
LEMMA HandleFacts ==
    ASSUME Typed, Connected, Reported, NEW s \in DOMAIN sessions, Handle(s)
    PROVE  /\ up /\ greeting = NoOne /\ inbox[sessions[s].conn] # <<>>
           /\ UNCHANGED peer
           /\ RuntimeGoesOn(s) /\ Outcome(s)
           /\ inbox' = [q \in Peer |->
                 IF link'[q] = "closed" THEN <<>>
                 ELSE IF q = sessions[s].conn THEN Tail(inbox[q]) ELSE inbox[q]]
<1> DEFINE f == Frame(s)
<1>1. /\ up /\ greeting = NoOne /\ inbox[sessions[s].conn] # <<>>
      /\ UNCHANGED peer
      /\ inbox' = [q \in Peer |->
            IF link'[q] = "closed" THEN <<>>
            ELSE IF q = sessions[s].conn THEN Tail(inbox[sessions[s].conn]) ELSE inbox[q]]
  BY DEF Handle
<1>2. \/ EndSession(s, f) \/ Install(s, f) \/ FenceAdvance(s, f)
      \/ Report(s, f) \/ FindingWithdraw(s, f)
      \/ DetectRequest(s, f) \/ FindingPublish(s, f)
      \/ PlanRequest(s, f) \/ ContainAuthorize(s, f)
      \/ ContainReport(s, f) \/ Unsupported(s, f)
  BY DEF Handle, Frame
<1>3. RuntimeGoesOn(s) /\ Outcome(s)
  BY <1>1, <1>2, EndFacts, InstallFacts, AdvanceFacts, RequestFacts, AuthorizeFacts, ReportFacts
<1> QED BY <1>1, <1>3

-----------------------------------------------------------------------------
(* Serving a frame keeps the invariant *)

\* An empty mailbox and a mailbox without its first frame.
LEMMA TailFacts ==
    ASSUME NEW S, NEW q \in Seq(S), q # <<>>
    PROVE  /\ Tail(q) \in Seq(S) /\ Len(Tail(q)) = Len(q) - 1 /\ Len(q) \in Nat
           /\ Len(q) > 0
           /\ \A k \in 1..Len(Tail(q)) : Tail(q)[k] = q[k + 1] /\ k + 1 \in 1..Len(q)
OBVIOUS

\* A mailbox of one frame is empty once that frame is taken.
LEMMA LastFacts ==
    ASSUME NEW S, NEW q \in Seq(S), Len(q) <= 1, q # <<>>
    PROVE  Len(q) = 1 /\ Tail(q) = <<>>
<1>1. Len(q) = 1
  BY TailFacts
<1>2. Tail(q) \in Seq(S) /\ Len(Tail(q)) = 0
  BY <1>1
<1>3. ASSUME NEW t \in Seq(S), Len(t) = 0 PROVE t = <<>>
  BY <1>3
<1> QED BY <1>1, <1>2, <1>3

\* The empty mailbox.
LEMMA EmptySeqFacts ==
    ASSUME NEW S
    PROVE  <<>> \in Seq(S) /\ Len(<<>>) = 0
OBVIOUS

\* Two frames put at the end of a mailbox.
LEMMA PairFacts ==
    ASSUME NEW S, NEW q \in Seq(S), NEW d \in S, NEW e \in S
    PROVE  /\ q \o <<d, e>> = Append(Append(q, d), e) /\ q \o <<d, e>> \in Seq(S)
           /\ \A k \in 1..Len(q \o <<d, e>>) :
                 \/ k \in 1..Len(q) /\ (q \o <<d, e>>)[k] = q[k]
                 \/ (q \o <<d, e>>)[k] \in {d, e}
<1>1. Append(Append(q, d), e) \in Seq(S) /\ Append(q, d) \in Seq(S)
  OBVIOUS
<1>2. q \o <<d, e>> = Append(Append(q, d), e)
  OBVIOUS
<1>3. Len(q \o <<d, e>>) = Len(q) + 2 /\ Len(q) \in Nat
  OBVIOUS
<1>4. \A k \in 1..Len(q) : (q \o <<d, e>>)[k] = q[k]
  OBVIOUS
<1>5. (q \o <<d, e>>)[Len(q) + 1] = d /\ (q \o <<d, e>>)[Len(q) + 2] = e
  OBVIOUS
<1>6. \A k \in 1..Len(q \o <<d, e>>) :
          k \in 1..Len(q) \/ k = Len(q) + 1 \/ k = Len(q) + 2
  BY <1>3
<1> QED BY <1>1, <1>2, <1>4, <1>5, <1>6

\* What is left of a mailbox once its first frame is taken, or all are lost.
LEMMA ShiftFacts ==
    ASSUME NEW S, NEW q \in Seq(S), q # <<>>, NEW r, r \in {<<>>, Tail(q)}
    PROVE  /\ 1 \in 1..Len(q)
           /\ \A k \in 1..Len(r) : /\ k + 1 \in 1..Len(q) /\ r[k] = q[k + 1]
                                   /\ k + 1 = Len(q) => k = Len(r)
           /\ Len(q) <= 1 => r = <<>>
<1>1. Len(q) \in Nat /\ Len(q) > 0 /\ Len(Tail(q)) = Len(q) - 1
  BY TailFacts
<1>2. CASE r = <<>>
  BY <1>1, <1>2, EmptySeqFacts
<1>3. CASE r = Tail(q)
  <2>1. ASSUME NEW k \in 1..Len(r)
        PROVE  k + 1 \in 1..Len(q) /\ r[k] = q[k + 1] /\ (k + 1 = Len(q) => k = Len(r))
    <3>1. Len(r) = Len(q) - 1 /\ k \in 1..Len(Tail(q))
      BY <1>1, <1>3
    <3>2. k + 1 \in 1..Len(q) /\ r[k] = q[k + 1]
      BY <3>1, <1>3, TailFacts
    <3> QED BY <3>1, <3>2, <1>1
  <2>2. Len(q) <= 1 => r = <<>>
    BY <1>3, LastFacts
  <2>3. 1 \in 1..Len(q)
    BY <1>1
  <2> QED BY <2>1, <2>2, <2>3
<1>4. r = <<>> \/ r = Tail(q)
  OBVIOUS
<1> QED BY <1>2, <1>3, <1>4

\* One frame put at the end of a mailbox.
LEMMA AppendFacts ==
    ASSUME NEW S, NEW q \in Seq(S), NEW e \in S
    PROVE  /\ Append(q, e) \in Seq(S) /\ Len(Append(q, e)) = Len(q) + 1
           /\ Append(q, e) # <<>> /\ Append(q, e)[Len(q) + 1] = e /\ Len(q) \in Nat
           /\ \A k \in 1..Len(q) : Append(q, e)[k] = q[k]
OBVIOUS

\* A session that is left was there before, with the same connection, which is
\* open still.
LEMMA HandleSessions ==
    ASSUME Typed, Connected, NEW s \in DOMAIN sessions, RuntimeGoesOn(s), Outcome(s)
    PROVE  /\ sessions' \in [DOMAIN sessions' -> Entry]
           /\ DOMAIN sessions' \subseteq DOMAIN sessions
           /\ link' \in [Peer -> {"none", "open", "closed"}]
           /\ \A t \in DOMAIN sessions' :
                 /\ sessions'[t].conn = sessions[t].conn
                 /\ sessions'[t].worker = sessions[t].worker
                 /\ link'[sessions[t].conn] = "open"
           /\ \A q \in Peer : \/ link'[q] = link[q]
                              \/ link[q] = "open" /\ link'[q] = "closed"
<1>1. sessions \in [DOMAIN sessions -> Entry] /\ link \in [Peer -> {"none", "open", "closed"}]
  BY DEF Typed
<1>2. \A t \in DOMAIN sessions : sessions[t].conn \in Peer /\ link[sessions[t].conn] = "open"
  BY <1>1 DEF Entry, Connected
<1>3. CASE Exit
  BY <1>1, <1>3 DEF Exit
<1>4. CASE Continues
  BY <1>1, <1>2, <1>4 DEF Continues
<1>5. CASE Ends(s)
  <2>1. /\ sessions' = [t \in DOMAIN sessions \ {s} |-> sessions[t]]
        /\ link' = [link EXCEPT ![sessions[s].conn] = "closed"]
    BY <1>5 DEF Ends, Forget, Closed, Restrict
  <2>2. \A t \in DOMAIN sessions \ {s} : sessions[t].conn # sessions[s].conn
    BY DEF Connected
  <2> QED BY <1>1, <1>2, <2>1, <2>2
<1> QED BY <1>3, <1>4, <1>5 DEF Outcome

\* Handling a frame keeps every variable in its type.
LEMMA HandleTyped ==
    ASSUME IInv, NEW s \in DOMAIN sessions, Handle(s)
    PROVE  Typed'
<1> USE DEF IInv
<1>1. /\ up /\ greeting = NoOne /\ inbox[sessions[s].conn] # <<>>
      /\ UNCHANGED peer
      /\ RuntimeGoesOn(s) /\ Outcome(s)
      /\ inbox' = [q \in Peer |->
             IF link'[q] = "closed" THEN <<>>
             ELSE IF q = sessions[s].conn THEN Tail(inbox[q]) ELSE inbox[q]]
  BY HandleFacts
<1>2. /\ fence' \in FenceVector /\ finding' \in {"none", "published", "planned"}
      /\ intents' \in Seq(Intent)
  BY <1>1 DEF RuntimeGoesOn
<1>3. /\ sessions' \in [DOMAIN sessions' -> Entry]
      /\ link' \in [Peer -> {"none", "open", "closed"}]
  BY <1>1, HandleSessions
<1>4. /\ up' \in BOOLEAN /\ greeting' \in Peer \cup {NoOne} /\ backlog' \in Seq(Peer)
  <2>1. CASE Exit
    BY <2>1, EmptySeqFacts DEF Exit
  <2>2. CASE Continues \/ Ends(s)
    BY <2>2 DEF Continues, Ends, Typed
  <2> QED BY <1>1, <2>1, <2>2 DEF Outcome
<1>5. outbox' \in [Peer -> Seq(OutFrame)]
  BY <1>1, EmptySeqFacts DEF Outcome, Exit, Told
<1>6. inbox' \in [Peer -> Seq(InFrame)]
  <2> SUFFICES ASSUME NEW q \in Peer PROVE inbox'[q] \in Seq(InFrame)
    BY <1>1
  <2>1. inbox[q] \in Seq(InFrame)
    BY DEF Typed
  <2>2. q = sessions[s].conn => Tail(inbox[q]) \in Seq(InFrame)
    BY <1>1, <2>1
  <2> QED BY <1>1, <2>1, <2>2
<1>7. peer' \in [Peer -> PeerState]
  BY <1>1 DEF Typed
<1> QED BY <1>2, <1>3, <1>4, <1>5, <1>6, <1>7 DEF Typed

\* Handling a frame opens no session and keeps the connections of those left.
LEMMA OutcomeConnected ==
    ASSUME Typed, Connected, NEW s \in DOMAIN sessions,
           greeting = NoOne, UNCHANGED peer, RuntimeGoesOn(s), Outcome(s)
    PROVE  Connected' /\ \A q \in Peer : InSession(q)' => InSession(q)
<1>1. /\ greeting = NoOne /\ UNCHANGED peer /\ RuntimeGoesOn(s) /\ Outcome(s)
  OBVIOUS
<1>2. /\ DOMAIN sessions' \subseteq DOMAIN sessions
      /\ \A t \in DOMAIN sessions' :
                 /\ sessions'[t].conn = sessions[t].conn
                 /\ sessions'[t].worker = sessions[t].worker
                 /\ link'[sessions[t].conn] = "open"
      /\ \A q \in Peer : \/ link'[q] = link[q]
                         \/ link[q] = "open" /\ link'[q] = "closed"
  BY <1>1, HandleSessions
<1>3. \A q : InSession(q)' => InSession(q)
  BY <1>2 DEF InSession
<1>4. ASSUME NEW t \in DOMAIN sessions'
      PROVE  /\ link'[sessions'[t].conn] = "open"
             /\ KindKept(t)'
             /\ \A u \in DOMAIN sessions' \ {t} : sessions'[u].conn # sessions'[t].conn
  <2>1. t \in DOMAIN sessions /\ KindKept(t)
    BY <1>2 DEF Connected
  <2>2. KindKept(t)'
    BY <1>1, <1>2, <2>1 DEF KindKept
  <2> QED BY <1>2, <2>1, <2>2 DEF Connected
<1>5. greeting' = NoOne
  BY <1>1 DEF Outcome, Exit, Continues, Ends
<1>6. \A k \in 1..Len(backlog') :
          /\ link'[backlog'[k]] = "open"
          /\ \A t \in DOMAIN sessions' : sessions'[t].conn # backlog'[k]
          /\ \A m \in 1..Len(backlog') : backlog'[m] = backlog'[k] => m = k
  <2>1. CASE Exit
    BY <2>1 DEF Exit
  <2>2. CASE Continues
    BY <2>2, <1>2 DEF Continues, Connected, InSession
  <2>3. CASE Ends(s)
    <3>1. backlog' = backlog /\ link' = [link EXCEPT ![sessions[s].conn] = "closed"]
      BY <2>3 DEF Ends, Closed
    <3>2. InSession(sessions[s].conn)
      BY DEF InSession
    <3>3. backlog \in Seq(Peer) /\ link \in [Peer -> {"none", "open", "closed"}]
      BY DEF Typed
    <3> QED BY <3>1, <3>2, <3>3, <1>2 DEF Connected, InSession
  <2> QED BY <1>1, <2>1, <2>2, <2>3 DEF Outcome
<1>7. \A q \in Peer : peer'[q].phase = "new" => link'[q] = "none"
  BY <1>1, <1>2 DEF Connected
<1> QED BY <1>3, <1>4, <1>5, <1>6, <1>7 DEF Connected, InSession, InBacklog

\* What a frame leaves in a mailbox: what was there, and one frame more at most.
LEMMA HandleOutbox ==
    ASSUME Typed, NEW s \in DOMAIN sessions, Outcome(s), NEW q \in Peer
    PROVE  \/ outbox'[q] = <<>> /\ Exit
           \/ outbox'[q] = outbox[q]
           \/ /\ peer[q].phase \notin {"gone", "stray"}
              /\ \E g \in OutFrame :
                    /\ outbox'[q] = Append(outbox[q], g)
                    /\ \/ q = sessions[s].conn /\ g \in Answering /\ AnswerTo(q, Frame(s), g)
                       \/ /\ peer[q].worker /\ q # sessions[s].conn /\ InSession(q)
                          /\ Len(intents') # 0 /\ g = ContainIntent(Len(intents'))
<1>1. CASE Exit
  BY <1>1 DEF Exit
<1>2. CASE Told(s)
  <2>1. Answering \subseteq OutFrame
    BY DEF OutFrame
  <2>2. CASE outbox'[q] = Append(outbox[q], ContainIntent(Len(intents')))
    <3>1. outbox' \in [Peer -> Seq(OutFrame)] /\ outbox[q] \in Seq(OutFrame)
      BY <1>2 DEF Told, Typed
    <3>2. DEFINE g == ContainIntent(Len(intents'))
    <3>3. outbox'[q] \in Seq(OutFrame) /\ Len(outbox[q]) + 1 \in 1..Len(outbox'[q])
          /\ outbox'[q][Len(outbox[q]) + 1] = g
      BY <2>2, <3>1
    <3>4. g \in OutFrame
      BY <3>3
    <3> QED BY <1>2, <2>1, <2>2, <3>4 DEF Told
  <2> QED BY <1>2, <2>1, <2>2 DEF Told
<1> QED BY <1>1, <1>2 DEF Outcome

\* The connection whose frame is served belongs to a session and was greeted.  Its
\* operator waits, or goes on without an answer.
LEMMA ServedPeer ==
    ASSUME IInv, NEW s \in DOMAIN sessions, inbox[sessions[s].conn] # <<>>
    PROVE  /\ sessions[s].conn \in Peer /\ InSession(sessions[s].conn)
           /\ link[sessions[s].conn] = "open"
           /\ sessions[s].conn \in Operator =>
                 peer[sessions[s].conn].phase \in {"idle", "waiting", "gone"}
<1> DEFINE p == sessions[s].conn
<1> USE DEF IInv
<1>1. p \in Peer /\ InSession(p) /\ link[p] = "open"
  BY FrameType DEF InSession, Connected
<1>2. peer[p].phase # "new"
  BY <1>1 DEF Connected
<1>3. ASSUME p \in Operator PROVE peer[p].phase # "hello"
  <2>1. peer[p].phase = "hello" => outbox[p] # <<>>
    BY <1>1 DEF Phased, PhasedOf
  <2> QED BY <2>1, <1>3 DEF Turns, TurnOf, Greeted
<1>4. p \in Operator => peer[p].phase \in {"hello", "idle", "waiting", "gone"}
  BY <1>1, <1>2 DEF Phased, PhasedOf
<1> QED BY <1>1, <1>3, <1>4

\* What takes mail away from an operator leaves its turn to it.
LEMMA MailLost ==
    ASSUME Typed, fence' \in FenceVector, Below(fence, fence'),
           NEW q \in Operator, TurnOf(q), peer'[q] = peer[q],
           inbox'[q] = inbox[q] \/ inbox'[q] = <<>>,
           outbox'[q] = outbox[q] \/ outbox'[q] = <<>>
    PROVE  TurnOf(q)'
<1>1. Greeted(q) /\ Alternate(q) /\ Awaiting(q) /\ q \in Peer
  BY DEF TurnOf, Peer
<1>2. Greeted(q)' /\ Alternate(q)'
  BY <1>1, EmptySeqFacts DEF Greeted, Alternate
<1>3. Awaiting(q)'
  <2>1. \A type : Bound(q, type)' = Bound(q, type)
    BY DEF Bound
  <2>2. ASSUME peer[q].phase = "waiting", Below(peer[q].asked.fence, fence)
        PROVE  Below(peer[q].asked.fence, fence')
    <3>1. peer[q].asked.fence \in FenceVector /\ fence \in FenceVector
      BY <1>1, <2>2 DEF Awaiting, Asked, Typed
    <3> QED BY <3>1, <2>2, BelowThrough
  <2>3. \A f : Requested(q, f)' <=> Requested(q, f)
    BY DEF Requested
  <2>4. Len(<<>>) = 0 /\ 1..0 = {}
    BY EmptySeqFacts
  <2>5. peer[q].phase \in {"hello", "idle"} =>
          \A k \in 1..Len(outbox'[q]) : outbox'[q][k].type \in Beside
    BY <1>1, <2>4 DEF Awaiting
  <2>6. peer[q].phase = "idle" =>
          \A k \in 1..Len(inbox'[q]) : inbox'[q][k].type = "SubmitObservation"
    BY <1>1, <2>4 DEF Awaiting
  <2>7. ASSUME peer[q].phase = "waiting"
        PROVE  /\ \A k \in 1..Len(inbox'[q]) :
                    \/ inbox'[q][k].type = "SubmitObservation"
                    \/ k = Len(inbox'[q]) /\ Requested(q, inbox'[q][k])
               /\ \A k \in 1..Len(outbox'[q]) :
                    \/ outbox'[q][k].type \in Beside
                    \/ /\ inbox'[q] = <<>>
                       /\ outbox'[q][k].type = Answer[peer[q].asked.type]
                       /\ outbox'[q][k].re = peer[q].sequence
                       /\ \A m \in 1..Len(outbox'[q]) :
                             m # k => outbox'[q][m].type \in Beside
               /\ \A k \in 1..Len(outbox'[q]) :
                    outbox'[q][k].type = Answer[peer[q].asked.type] =>
                        Below(peer[q].asked.fence, fence')
    BY <1>1, <2>2, <2>4, <2>7 DEF Awaiting
  <2> HIDE DEF Beside
  <2> QED BY <1>1, <2>1, <2>3, <2>5, <2>6, <2>7 DEF Awaiting
<1> QED BY <1>2, <1>3 DEF TurnOf

\* So does a frame that answers nothing and comes to one to which intents are
\* pushed.
LEMMA MailBeside ==
    ASSUME Typed, fence' \in FenceVector, Below(fence, fence'),
           NEW q \in Operator, TurnOf(q), peer'[q] = peer[q], peer[q].worker,
           inbox'[q] = inbox[q], peer[q].phase = "hello" => outbox[q] # <<>>,
           NEW g \in OutFrame, g.type \in Beside, g.type # "ObservationAccepted",
           outbox'[q] = Append(outbox[q], g)
    PROVE  TurnOf(q)'
<1>1. Greeted(q) /\ Awaiting(q) /\ q \in Peer
  BY DEF TurnOf, Peer
<1>2. Greeted(q)' /\ Alternate(q)'
  BY <1>1 DEF Greeted, Alternate
<1>3. outbox[q] \in Seq(OutFrame)
  BY <1>1 DEF Typed
<1>4. \A k \in 1..Len(outbox'[q]) :
         \/ k \in 1..Len(outbox[q]) /\ outbox'[q][k] = outbox[q][k]
         \/ outbox'[q][k] = g
  BY <1>3, AppendFacts
<1>5. Awaiting(q)'
  <2>1. \A type : Bound(q, type)' = Bound(q, type)
    BY DEF Bound
  <2>2. ASSUME peer[q].phase = "waiting", Below(peer[q].asked.fence, fence)
        PROVE  Below(peer[q].asked.fence, fence')
    <3>1. peer[q].asked.fence \in FenceVector /\ fence \in FenceVector
      BY <1>1, <2>2 DEF Awaiting, Asked, Typed
    <3> QED BY <3>1, <2>2, BelowThrough
  <2>3. \A f : Requested(q, f)' <=> Requested(q, f)
    BY DEF Requested
  <2>4. peer[q].phase \in {"hello", "idle"} =>
          \A k \in 1..Len(outbox'[q]) : outbox'[q][k].type \in Beside
    BY <1>1, <1>4 DEF Awaiting
  <2>5. ASSUME peer[q].phase = "waiting"
        PROVE  /\ \A k \in 1..Len(outbox'[q]) :
                    \/ outbox'[q][k].type \in Beside
                    \/ /\ inbox[q] = <<>>
                       /\ outbox'[q][k].type = Answer[peer[q].asked.type]
                       /\ outbox'[q][k].re = peer[q].sequence
                       /\ \A m \in 1..Len(outbox'[q]) :
                             m # k => outbox'[q][m].type \in Beside
    BY <1>1, <1>4, <2>5 DEF Awaiting
  <2>6. ASSUME peer[q].phase = "waiting"
        PROVE  \A k \in 1..Len(outbox'[q]) :
                    outbox'[q][k].type = Answer[peer[q].asked.type] =>
                        Below(peer[q].asked.fence, fence')
    <3>1. peer[q].asked.type \in DOMAIN Answer
      BY <1>1, <2>6 DEF Awaiting, Asked
    <3>2. g.type # Answer[peer[q].asked.type]
      BY <3>1, AnswerFacts
    <3> QED BY <1>1, <1>4, <2>2, <2>6, <3>2 DEF Awaiting
  <2> HIDE DEF Beside
  <2> QED BY <1>1, <2>1, <2>3, <2>4, <2>5, <2>6 DEF Awaiting
<1> QED BY <1>2, <1>5 DEF TurnOf

\* Handling a frame keeps each connection in one place.
LEMMA HandleConnected ==
    ASSUME IInv, NEW s \in DOMAIN sessions, Handle(s)
    PROVE  Connected' /\ \A q \in Peer : InSession(q)' => InSession(q)
BY HandleFacts, OutcomeConnected DEF IInv

\* Handling a frame leaves each peer in a phase of its kind.
LEMMA HandlePhased ==
    ASSUME IInv, NEW s \in DOMAIN sessions, Handle(s)
    PROVE  Phased'
<1> USE DEF IInv
<1> DEFINE p == sessions[s].conn
<1>1. /\ inbox[p] # <<>> /\ UNCHANGED peer /\ RuntimeGoesOn(s) /\ Outcome(s)
      /\ inbox' = [q \in Peer |->
             IF link'[q] = "closed" THEN <<>>
             ELSE IF q = p THEN Tail(inbox[q]) ELSE inbox[q]]
  BY HandleFacts
<1>2. p \in Peer /\ InSession(p) /\ link[p] = "open"
  BY <1>1, ServedPeer
<1>3. ASSUME NEW q \in Peer, peer[q].phase = "new"
      PROVE  inbox'[q] = <<>> /\ outbox'[q] = <<>>
  <2>1. inbox[q] = <<>> /\ outbox[q] = <<>> /\ link[q] = "none"
    BY <1>3 DEF Phased, PhasedOf, Connected
  <2>2. q # p /\ ~InSession(q)
    BY <1>2, <2>1 DEF Connected, InSession
  <2> QED BY <1>1, <2>1, <2>2, HandleOutbox
<1>4. ASSUME NEW q \in Peer, peer[q].phase = "hello"
      PROVE  IF outbox'[q] = <<>> THEN ~ InSession(q)' ELSE outbox'[q][1].type = "HelloAck"
  <2>1. InSession(q)' => InSession(q)
    BY HandleConnected
  <2>2. IF outbox[q] = <<>> THEN ~ InSession(q) ELSE outbox[q][1].type = "HelloAck"
    BY <1>4 DEF Phased, PhasedOf
  <2>3. CASE outbox'[q] = <<>> /\ Exit
    BY <2>3 DEF Exit, InSession
  <2>4. CASE outbox'[q] = outbox[q]
    BY <2>1, <2>2, <2>4
  <2>5. ASSUME NEW g \in OutFrame, outbox'[q] = Append(outbox[q], g),
               q = p \/ InSession(q)
        PROVE  IF outbox'[q] = <<>> THEN ~ InSession(q)' ELSE outbox'[q][1].type = "HelloAck"
    <3>1. InSession(q) /\ outbox[q] # <<>> /\ outbox[q][1].type = "HelloAck"
      BY <1>2, <2>2, <2>5
    <3>2. outbox[q] \in Seq(OutFrame)
      BY DEF Typed
    <3>3. outbox'[q] # <<>> /\ outbox'[q][1] = outbox[q][1]
      BY <2>5, <3>1, <3>2
    <3> QED BY <3>1, <3>3
  <2> QED BY <1>1, <2>3, <2>4, <2>5, HandleOutbox
<1> QED BY <1>1, <1>3, <1>4 DEF Phased, PhasedOf

\* The coordinator answers each request of an operator at most once.
LEMMA HandleTurns ==
    ASSUME IInv, NEW s \in DOMAIN sessions, Handle(s)
    PROVE  Turns'
<1> USE DEF IInv
<1> DEFINE p == sessions[s].conn
           f == Frame(s)
<1>1. /\ inbox[p] # <<>> /\ UNCHANGED peer /\ RuntimeGoesOn(s) /\ Outcome(s)
      /\ inbox' = [q \in Peer |->
             IF link'[q] = "closed" THEN <<>>
             ELSE IF q = p THEN Tail(inbox[q]) ELSE inbox[q]]
  BY HandleFacts
<1>2. /\ p \in Peer
      /\ p \in Operator => peer[p].phase \in {"idle", "waiting", "gone"}
  BY <1>1, ServedPeer
<1>3. fence \in FenceVector /\ fence' \in FenceVector /\ Below(fence, fence')
  BY <1>1 DEF RuntimeGoesOn, Typed
<1>4. f \in InFrame /\ f = inbox[p][1]
  BY <1>1, FrameType
<1>5. peer' = peer
  BY <1>1
<1> SUFFICES ASSUME NEW q \in Operator
             PROVE  TurnOf(q)'
  BY DEF Turns
<1>6. q \in Peer /\ TurnOf(q) /\ Greeted(q) /\ Alternate(q) /\ Awaiting(q)
  BY DEF Peer, Turns, TurnOf
<1>7. inbox[q] \in Seq(InFrame) /\ outbox[q] \in Seq(OutFrame)
  BY <1>6 DEF Typed
<1>8. CASE outbox'[q] = <<>> /\ Exit
  <2>1. inbox'[q] = inbox[q] \/ inbox'[q] = <<>>
    <3>1. q = p => link'[q] = "closed"
      BY <1>2, <1>8, ServedPeer, <1>1 DEF Exit
    <3> QED BY <3>1, <1>1, <1>6
  <2> QED BY <2>1, <1>3, <1>5, <1>6, <1>8, MailLost
<1>9. CASE q # p
  <2>1. inbox'[q] = inbox[q] \/ inbox'[q] = <<>>
    BY <1>1, <1>6, <1>9
  <2>2. CASE outbox'[q] = outbox[q]
    BY <2>1, <2>2, <1>3, <1>5, <1>6, MailLost
  <2>3. ASSUME NEW g \in OutFrame, outbox'[q] = Append(outbox[q], g),
               peer[q].worker, InSession(q), peer[q].phase \notin {"gone", "stray"},
               g = ContainIntent(Len(intents')), ~ Exit
        PROVE  TurnOf(q)'
    <3>1. g.type = "ContainIntent"
      BY <2>3 DEF ContainIntent
    <3>2. peer[q].phase = "hello" => outbox[q] # <<>>
      BY <1>6, <2>3 DEF Phased, PhasedOf
    <3>3. link[q] = "open"
      BY <2>3 DEF InSession, Connected
    <3>4. link'[q] = "open"
      <4>1. CASE Continues
        BY <4>1, <3>3 DEF Continues
      <4>2. CASE Ends(s)
        BY <4>2, <3>3, <1>6, <1>9 DEF Ends, Closed, Typed
      <4> QED BY <4>1, <4>2, <2>3, <1>1 DEF Outcome
    <3>5. inbox'[q] = inbox[q]
      BY <3>4, <1>1, <1>6, <1>9
    <3> QED BY <3>1, <3>2, <3>5, <2>3, <1>3, <1>5, <1>6, MailBeside DEF Beside
  <2>4. CASE ~ Exit /\ outbox'[q] # outbox[q]
    <3>1. PICK g \in OutFrame :
             /\ outbox'[q] = Append(outbox[q], g)
             /\ peer[q].worker /\ InSession(q) /\ peer[q].phase \notin {"gone", "stray"}
             /\ g = ContainIntent(Len(intents'))
      BY <2>4, <1>1, <1>6, <1>9, HandleOutbox
    <3> QED BY <3>1, <2>3, <2>4
  <2>5. CASE Exit
    BY <2>5, <1>6, <1>8 DEF Exit
  <2> QED BY <2>2, <2>4, <2>5
<1>10. CASE q = p /\ peer[q].phase = "gone"
  <2>1. TurnOf(q)'
    BY <1>5, <1>10 DEF TurnOf, Greeted, Alternate, Awaiting
  <2> QED BY <2>1
<1>11. CASE q = p /\ peer[q].phase \in {"idle", "waiting"} /\ ~ Exit
  <2>1. /\ inbox[q] # <<>> /\ 1 \in 1..Len(inbox[q]) /\ f = inbox[q][1]
        /\ \A k \in 1..Len(outbox[q]) : outbox[q][k].type \in Beside
    <3>1. inbox[q] # <<>> /\ 1 \in 1..Len(inbox[q])
      BY <1>1, <1>7, <1>11, TailFacts
    <3> HIDE DEF Beside
    <3> QED BY <3>1, <1>4, <1>6, <1>11 DEF Awaiting
  <2>2. /\ inbox'[q] = <<>> \/ inbox'[q] = Tail(inbox[q])
        /\ \A k \in 1..Len(inbox'[q]) :
              /\ k + 1 \in 1..Len(inbox[q]) /\ inbox'[q][k] = inbox[q][k + 1]
              /\ k + 1 = Len(inbox[q]) => k = Len(inbox'[q])
    <3>1. inbox'[q] = <<>> \/ inbox'[q] = Tail(inbox[q])
      BY <1>1, <1>6, <1>11
    <3>2. CASE inbox'[q] = <<>>
      BY <3>2, EmptySeqFacts
    <3>3. CASE inbox'[q] = Tail(inbox[q])
      <4>1. /\ Len(Tail(inbox[q])) = Len(inbox[q]) - 1 /\ Len(inbox[q]) \in Nat
            /\ \A k \in 1..Len(Tail(inbox[q])) :
                  Tail(inbox[q])[k] = inbox[q][k + 1] /\ k + 1 \in 1..Len(inbox[q])
        BY <2>1, <1>7, TailFacts
      <4> QED BY <3>3, <4>1
    <3> QED BY <3>1, <3>2, <3>3
  <2>3. \/ f.type = "SubmitObservation"
        \/ /\ peer[q].phase = "waiting" /\ Len(inbox[q]) = 1 /\ Requested(q, f)
    BY <2>1, <1>6, <1>11 DEF Awaiting
  <2>4. \/ outbox'[q] = outbox[q]
        \/ \E g \in OutFrame : /\ outbox'[q] = Append(outbox[q], g)
                               /\ g \in Answering /\ AnswerTo(q, f, g)
    BY <1>1, <1>6, <1>11, HandleOutbox
  <2>5. Greeted(q)'
    BY <1>5, <1>11 DEF Greeted
  <2>6. Alternate(q)'
    <3> SUFFICES ASSUME ~ peer[q].worker, ~ peer[q].late PROVE Alternate(q)'
      BY <1>5 DEF Alternate
    <3>1. /\ peer[q].phase = "waiting" /\ outbox[q] = <<>> /\ Len(inbox[q]) = 1
          /\ f.sequence = peer[q].sequence
      BY <2>1, <1>6, <1>11 DEF Alternate
    <3>2. inbox'[q] = <<>>
      BY <3>1, <2>1, <2>2, <1>7, LastFacts
    <3>3. CASE outbox'[q] = outbox[q]
      BY <3>1, <3>2, <3>3, <1>5 DEF Alternate
    <3>4. ASSUME NEW g \in OutFrame, outbox'[q] = Append(outbox[q], g), AnswerTo(q, f, g)
          PROVE  Alternate(q)'
      <4>1. Len(outbox'[q]) = 1 /\ outbox'[q][1] = g
        BY <3>1, <3>4
      <4>2. g.re = peer[q].sequence
        BY <3>1, <3>4 DEF AnswerTo
      <4> QED BY <4>1, <4>2, <3>1, <3>2, <1>5 DEF Alternate
    <3> QED BY <3>3, <3>4, <2>4
  <2>7. Awaiting(q)'
    <3>1. \A type : Bound(q, type)' = Bound(q, type)
      BY <1>5 DEF Bound
    <3>2. \A h : Requested(q, h)' <=> Requested(q, h)
      BY <1>5 DEF Requested
    <3>3. \A k \in 1..Len(inbox'[q]) :
             \/ inbox'[q][k].type = "SubmitObservation"
             \/ /\ k = Len(inbox'[q]) /\ Requested(q, inbox'[q][k])
                /\ peer[q].phase = "waiting"
      BY <2>2, <1>6, <1>11 DEF Awaiting
    <3>4. peer[q].phase = "waiting" =>
             /\ peer[q].asked \in Asked /\ peer[q].asked.type \in DOMAIN Answer
             /\ peer[q].asked.fence \in FenceVector
             /\ peer[q].asked.fence \in Bound(q, peer[q].asked.type)
      BY <1>6 DEF Awaiting, Asked
    <3>5. ASSUME peer[q].phase = "waiting", Below(peer[q].asked.fence, fence)
          PROVE  Below(peer[q].asked.fence, fence')
      BY <3>4, <3>5, <1>3, BelowThrough
    <3>6. ASSUME outbox'[q] = outbox[q] PROVE Awaiting(q)'
      <4>1. ASSUME peer[q].phase = "waiting"
            PROVE  \A k \in 1..Len(outbox[q]) :
                    outbox[q][k].type = Answer[peer[q].asked.type] =>
                        Below(peer[q].asked.fence, fence')
        BY <3>5, <4>1, <1>6 DEF Awaiting
      <4> HIDE DEF Beside
      <4> QED BY <3>1, <3>2, <3>3, <3>4, <3>6, <4>1, <2>1, <1>5, <1>11 DEF Awaiting
    <3>7. ASSUME NEW g \in OutFrame, outbox'[q] = Append(outbox[q], g), g \in Answering,
                 AnswerTo(q, f, g)
          PROVE  Awaiting(q)'
      <4>1. \A k \in 1..Len(outbox'[q]) :
               \/ /\ k \in 1..Len(outbox[q]) /\ outbox'[q][k] = outbox[q][k]
                  /\ outbox'[q][k].type \in Beside /\ k # Len(outbox[q]) + 1
               \/ k = Len(outbox[q]) + 1 /\ outbox'[q][k] = g
        BY <3>7, <2>1, <1>7, AppendFacts
      <4>2. \/ g.type \in Beside
            \/ /\ peer[q].phase = "waiting" /\ inbox'[q] = <<>>
               /\ g.type = Answer[peer[q].asked.type] /\ g.re = peer[q].sequence
        <5>1. CASE f.type = "SubmitObservation"
          BY <5>1, <3>7, AnswerFacts DEF AnswerTo, Beside
        <5>2. CASE peer[q].phase = "waiting" /\ Len(inbox[q]) = 1 /\ Requested(q, f)
          <6>1. inbox'[q] = <<>>
            BY <5>2, <2>1, <2>2, <1>7, LastFacts
          <6>2. g.type \in {Answer[peer[q].asked.type], "Error"} /\ g.re = peer[q].sequence
            BY <5>2, <3>4, <3>7 DEF AnswerTo, Requested
          <6> QED BY <5>2, <6>1, <6>2 DEF Beside
        <5> QED BY <5>1, <5>2, <2>3
      <4>3. ASSUME peer[q].phase = "waiting", g.type = Answer[peer[q].asked.type]
            PROVE  Below(peer[q].asked.fence, fence')
        <5>1. Below(peer[q].fence, fence)
          BY <1>6 DEF Believed, BelievedOf
        <5>2. CASE f.type = "SubmitObservation"
          <6>1. g.type \in {"ObservationAccepted", "Error"}
            BY <5>2, <3>7, AnswerFacts DEF AnswerTo
          <6>2. peer[q].asked.type = "SubmitObservation"
            BY <6>1, <4>3, <3>4, AnswerFacts DEF Beside
          <6>3. peer[q].asked.fence = peer[q].fence
            BY <6>2, <4>3, <3>4 DEF Bound
          <6> QED BY <6>3, <5>1, <4>3, <3>5
        <5>3. CASE Requested(q, f)
          BY <5>1, <5>3, <4>3, <3>4, <3>7 DEF AnswerTo, Granted, Requested
        <5> QED BY <5>2, <5>3, <2>3
      <4>4. ASSUME peer[q].phase = "waiting"
            PROVE  /\ \A k \in 1..Len(outbox'[q]) :
                       \/ outbox'[q][k].type \in Beside
                       \/ /\ inbox'[q] = <<>>
                          /\ outbox'[q][k].type = Answer[peer[q].asked.type]
                          /\ outbox'[q][k].re = peer[q].sequence
                          /\ \A m \in 1..Len(outbox'[q]) :
                                m # k => outbox'[q][m].type \in Beside
        BY <4>1, <4>2
      <4>5. ASSUME peer[q].phase = "waiting"
            PROVE  \A k \in 1..Len(outbox'[q]) :
                       outbox'[q][k].type = Answer[peer[q].asked.type] =>
                           Below(peer[q].asked.fence, fence')
        BY <4>1, <4>3, <4>5, <3>5, <1>6 DEF Awaiting
      <4>6. peer[q].phase = "idle" =>
                \A k \in 1..Len(outbox'[q]) : outbox'[q][k].type \in Beside
        BY <4>1, <4>2
      <4> HIDE DEF Beside
      <4> QED BY <3>1, <3>2, <3>3, <3>4, <4>4, <4>5, <4>6, <1>5, <1>11 DEF Awaiting
    <3> QED BY <3>6, <3>7, <2>4
  <2> QED BY <2>5, <2>6, <2>7 DEF TurnOf
<1>12. CASE Exit
  BY <1>8, <1>12, <1>6 DEF Exit
<1> QED BY <1>2, <1>9, <1>10, <1>11, <1>12

\* What a handled frame raises, no peer has heard of before.
LEMMA HandleBelieved ==
    ASSUME IInv, NEW s \in DOMAIN sessions, Handle(s)
    PROVE  Believed'
<1> USE DEF IInv
<1>1. UNCHANGED peer /\ RuntimeGoesOn(s) /\ Outcome(s)
  BY HandleFacts
<1>2. fence \in FenceVector /\ fence' \in FenceVector /\ Below(fence, fence')
  BY <1>1 DEF RuntimeGoesOn, Typed
<1> SUFFICES ASSUME NEW q \in Peer
             PROVE  /\ Below(peer[q].fence, fence')
                    /\ \A k \in 1..Len(outbox'[q]) :
                          outbox'[q][k].type = "HelloAck" => Below(outbox'[q][k].fence, fence')
  BY <1>1 DEF Believed, BelievedOf
<1>3. Below(peer[q].fence, fence) /\ peer[q].fence \in FenceVector
  BY DEF Believed, BelievedOf, Typed, PeerState
<1>4. outbox[q] \in Seq(OutFrame)
  BY DEF Typed
<1>5. ASSUME NEW k \in 1..Len(outbox[q]), outbox[q][k].type = "HelloAck"
      PROVE  Below(outbox[q][k].fence, fence')
  <2>1. outbox[q][k] \in OutFrame
    BY <1>4
  <2>2. outbox[q][k].fence \in FenceVector
    BY <2>1, <1>5, AnswerFacts DEF OutFrame, Ack, Answering, Order, Range
  <2>3. Below(outbox[q][k].fence, fence)
    BY <1>5 DEF Believed, BelievedOf
  <2> QED BY <2>2, <2>3, <1>2, BelowThrough
<1>6. ASSUME NEW g \in OutFrame, outbox'[q] = Append(outbox[q], g), g.type # "HelloAck",
             NEW k \in 1..Len(outbox'[q]), outbox'[q][k].type = "HelloAck"
      PROVE  Below(outbox'[q][k].fence, fence')
  <2>1. k \in 1..Len(outbox[q]) /\ outbox'[q][k] = outbox[q][k]
    BY <1>4, <1>6, AppendFacts
  <2> QED BY <2>1, <1>5, <1>6
<1>7. \A g \in Answering : g.type # "HelloAck"
  BY AnswerFacts DEF Answering, Range
<1>8. ContainIntent(Len(intents')).type # "HelloAck"
  BY DEF ContainIntent
<1>9. \A k \in 1..Len(outbox'[q]) :
          outbox'[q][k].type = "HelloAck" => Below(outbox'[q][k].fence, fence')
  <2>1. CASE outbox'[q] = <<>>
    BY <2>1, EmptySeqFacts
  <2>2. CASE outbox'[q] = outbox[q]
    BY <2>2, <1>5
  <2> QED BY <2>1, <2>2, <1>1, <1>6, <1>7, <1>8, HandleOutbox
<1> QED BY <1>2, <1>3, <1>9, BelowThrough

\* Intents the coordinator sends are ones it has recorded.
LEMMA HandleReported ==
    ASSUME IInv, NEW s \in DOMAIN sessions, Handle(s)
    PROVE  Reported'
<1> USE DEF IInv
<1> DEFINE p == sessions[s].conn
<1>1. /\ inbox[p] # <<>> /\ UNCHANGED peer /\ RuntimeGoesOn(s) /\ Outcome(s)
      /\ inbox' = [q \in Peer |->
             IF link'[q] = "closed" THEN <<>>
             ELSE IF q = p THEN Tail(inbox[q]) ELSE inbox[q]]
  BY HandleFacts
<1>2. intents' \in Seq(Intent) /\ Len(intents) <= Len(intents') /\ Len(intents) \in Nat
      /\ Len(intents') \in Nat
  BY <1>1 DEF RuntimeGoesOn, Typed
<1>3. 1..Len(intents) \subseteq 1..Len(intents')
  BY <1>2
<1>4. peer' = peer
  BY <1>1
<1> SUFFICES ASSUME NEW q \in Peer
             PROVE  /\ peer[q].handled \subseteq 1..Len(intents')
                    /\ \A k \in 1..Len(outbox'[q]) :
                          outbox'[q][k].type = "ContainIntent" =>
                             outbox'[q][k].intent \in 1..Len(intents')
                    /\ \A k \in 1..Len(inbox'[q]) :
                          inbox'[q][k].type \in {"ContainAck", "EffectReport"} =>
                             /\ q \in Worker
                             /\ inbox'[q][k].intent \in peer[q].handled
                             /\ inbox'[q][k].fence = peer[q].fence
  BY <1>4 DEF Reported, ReportedOf
<1>5. outbox[q] \in Seq(OutFrame) /\ inbox[q] \in Seq(InFrame)
  BY DEF Typed
<1>6. peer[q].handled \subseteq 1..Len(intents')
  BY <1>3 DEF Reported, ReportedOf
<1>7. \A k \in 1..Len(outbox'[q]) :
          outbox'[q][k].type = "ContainIntent" => outbox'[q][k].intent \in 1..Len(intents')
  <2>1. CASE outbox'[q] = <<>>
    BY <2>1, EmptySeqFacts
  <2>2. CASE outbox'[q] = outbox[q]
    BY <2>2, <1>3 DEF Reported, ReportedOf
  <2>3. ASSUME NEW g \in OutFrame, outbox'[q] = Append(outbox[q], g),
               g.type = "ContainIntent" => g.intent \in 1..Len(intents'),
               NEW k \in 1..Len(outbox'[q]), outbox'[q][k].type = "ContainIntent"
        PROVE  outbox'[q][k].intent \in 1..Len(intents')
    <3>1. CASE k = Len(outbox[q]) + 1
      BY <2>3, <3>1, <1>5, AppendFacts
    <3>2. CASE k # Len(outbox[q]) + 1
      <4>1. k \in 1..Len(outbox[q]) /\ outbox'[q][k] = outbox[q][k]
        BY <2>3, <3>2, <1>5, AppendFacts
      <4> QED BY <4>1, <2>3, <1>3 DEF Reported, ReportedOf
    <3> QED BY <3>1, <3>2
  <2>4. \A g \in Answering : g.type # "ContainIntent"
    BY AnswerFacts DEF Answering, Range
  <2>5. Len(intents') # 0 => ContainIntent(Len(intents')).intent \in 1..Len(intents')
    BY <1>2 DEF ContainIntent
  <2> QED BY <2>1, <2>2, <2>3, <2>4, <2>5, <1>1, HandleOutbox
<1>8. \A k \in 1..Len(inbox'[q]) :
          inbox'[q][k].type \in {"ContainAck", "EffectReport"} =>
             /\ q \in Worker
             /\ inbox'[q][k].intent \in peer[q].handled
             /\ inbox'[q][k].fence = peer[q].fence
  <2>1. CASE inbox'[q] = <<>>
    BY <2>1, EmptySeqFacts
  <2>2. CASE inbox'[q] = inbox[q]
    BY <2>2 DEF Reported, ReportedOf
  <2>3. CASE inbox[q] # <<>> /\ inbox'[q] = Tail(inbox[q])
    <3>1. \A k \in 1..Len(inbox'[q]) :
              inbox'[q][k] = inbox[q][k + 1] /\ k + 1 \in 1..Len(inbox[q])
      BY <2>3, <1>5, TailFacts
    <3> QED BY <3>1 DEF Reported, ReportedOf
  <2> QED BY <2>1, <2>2, <2>3, <1>1
<1> QED BY <1>6, <1>7, <1>8

\* An intent is verified by a report under the fence it was issued under.
LEMMA HandleVerified ==
    ASSUME IInv, NEW s \in DOMAIN sessions, Handle(s)
    PROVE  VerifiedUnderItsFence'
<1> USE DEF IInv
<1> DEFINE p == sessions[s].conn
           f == Frame(s)
<1>1. inbox[p] # <<>> /\ peer' = peer /\ RuntimeGoesOn(s)
  BY HandleFacts
<1>2. p \in Peer /\ inbox[p] \in Seq(InFrame) /\ f = inbox[p][1] /\ 1 \in 1..Len(inbox[p])
  <2>1. p \in Peer /\ f = inbox[p][1]
    BY <1>1, FrameType
  <2>2. inbox[p] \in Seq(InFrame)
    BY <2>1 DEF Typed
  <2> QED BY <2>1, <2>2, <1>1
<1>3. Worker \subseteq Peer /\ intents' \in Seq(Intent) /\ intents \in Seq(Intent)
  BY <1>1 DEF Peer, RuntimeGoesOn, Typed
<1> SUFFICES ASSUME NEW i \in DOMAIN intents', intents'[i].verified
             PROVE  \E w \in Worker : i \in peer[w].handled /\ peer[w].fence = intents'[i].fence
  BY <1>1 DEF VerifiedUnderItsFence
<1>4. /\ i \in 1..Len(intents) /\ intents'[i].fence = intents[i].fence
      /\ \/ intents[i].verified
         \/ f.type = "EffectReport" /\ f.intent = i /\ f.fence = intents[i].fence
  <2>1. i \in 1..Len(intents')
    BY <1>3
  <2> QED BY <1>1, <2>1 DEF RuntimeGoesOn
<1>5. CASE intents[i].verified
  BY <1>3, <1>4, <1>5 DEF VerifiedUnderItsFence
<1>6. CASE f.type = "EffectReport" /\ f.intent = i /\ f.fence = intents[i].fence
  <2>1. p \in Worker /\ i \in peer[p].handled /\ f.fence = peer[p].fence
    BY <1>2, <1>6 DEF Reported, ReportedOf
  <2> QED BY <2>1, <1>4, <1>6
<1> QED BY <1>4, <1>5, <1>6

\* Handling a frame keeps the invariant.
LEMMA HandleKeeps ==
    ASSUME IInv, NEW s \in DOMAIN sessions, Handle(s)
    PROVE  IInv'
BY HandleTyped, HandleConnected, HandlePhased, HandleTurns, HandleBelieved, HandleReported,
   HandleVerified DEF IInv

-----------------------------------------------------------------------------
(* The other steps of the coordinator *)

\* A step that moves connections only.
LEMMA QuietKeeps ==
    ASSUME IInv, UNCHANGED <<runtime, inbox, outbox, peer>>, Typed', Connected',
           \A q \in Peer : InSession(q)' => InSession(q)
    PROVE  IInv'
<1> USE DEF IInv
<1>1. /\ fence' = fence /\ intents' = intents /\ inbox' = inbox /\ outbox' = outbox
      /\ peer' = peer
  BY DEF runtime
<1>2. Phased'
  BY <1>1 DEF Phased, PhasedOf
<1>3. Turns'
  <2>1. fence' \in FenceVector /\ Below(fence, fence')
    BY <1>1, UnchangedFence
  <2> QED BY <1>1, <2>1, MailLost DEF Turns
<1>4. Believed'
  BY <1>1 DEF Believed, BelievedOf
<1>5. Reported'
  BY <1>1 DEF Reported, ReportedOf
<1>6. VerifiedUnderItsFence'
  BY <1>1 DEF VerifiedUnderItsFence
<1> QED BY <1>2, <1>3, <1>4, <1>5, <1>6

\* A step that takes nothing but mail away, and raises nothing but the fence.
LEMMA SilenceKeeps ==
    ASSUME IInv, UNCHANGED <<intents, peer>>, fence' \in FenceVector, Below(fence, fence'),
           \A q \in Peer :
              /\ inbox'[q] = inbox[q] \/ inbox'[q] = <<>>
              /\ \/ outbox'[q] = outbox[q]
                 \/ outbox'[q] = <<>> /\ ~ InSession(q)',
           Typed', Connected', \A q \in Peer : InSession(q)' => InSession(q)
    PROVE  IInv'
<1> USE DEF IInv
<1>1. intents' = intents /\ peer' = peer
  OBVIOUS
<1>2. ASSUME NEW v \in FenceVector, Below(v, fence) PROVE Below(v, fence')
  <2>1. fence \in FenceVector
    BY DEF Typed
  <2> QED BY <2>1, <1>2, BelowThrough
<1>3. Phased'
  <2> SUFFICES ASSUME NEW q \in Peer PROVE PhasedOf(q)'
    BY DEF Phased
  <2>1. PhasedOf(q)
    BY DEF Phased
  <2> QED BY <2>1, <1>1 DEF PhasedOf
<1>4. Turns'
  <2> SUFFICES ASSUME NEW q \in Operator PROVE TurnOf(q)'
    BY DEF Turns
  <2>1. TurnOf(q) /\ q \in Peer
    BY DEF Turns, Peer
  <2> QED BY <2>1, <1>1, MailLost
<1>5. Believed'
  <2> SUFFICES ASSUME NEW q \in Peer PROVE BelievedOf(q)'
    BY DEF Believed
  <2>1. /\ BelievedOf(q) /\ peer[q].fence \in FenceVector /\ outbox[q] \in Seq(OutFrame)
    BY DEF Believed, Typed, PeerState
  <2>2. ASSUME NEW k \in 1..Len(outbox[q]), outbox[q][k].type = "HelloAck"
        PROVE  Below(outbox[q][k].fence, fence')
    <3>1. outbox[q][k] \in OutFrame
      BY <2>1
    <3>2. outbox[q][k].fence \in FenceVector
      BY <3>1, <2>2, AnswerFacts DEF OutFrame, Ack, Answering, Order, Range
    <3> QED BY <3>2, <2>1, <2>2, <1>2 DEF BelievedOf
  <2>3. Below(peer[q].fence, fence')
    BY <2>1, <1>2 DEF BelievedOf
  <2>4. outbox'[q] = outbox[q] \/ outbox'[q] = <<>>
    OBVIOUS
  <2> QED BY <2>2, <2>3, <2>4, <1>1, EmptySeqFacts DEF BelievedOf
<1>6. Reported'
  <2> SUFFICES ASSUME NEW q \in Peer PROVE ReportedOf(q)'
    BY DEF Reported
  <2>1. ReportedOf(q)
    BY DEF Reported
  <2> QED BY <2>1, <1>1, EmptySeqFacts DEF ReportedOf
<1>7. VerifiedUnderItsFence'
  BY <1>1 DEF VerifiedUnderItsFence
<1> QED BY <1>3, <1>4, <1>5, <1>6, <1>7

\* The end of the coordinator's process keeps the invariant.
LEMMA KilledKeeps ==
    ASSUME IInv, Killed
    PROVE  IInv'
<1> USE DEF IInv
<1>1. /\ up' = FALSE /\ sessions' = [s \in {} |-> NoOne] /\ DOMAIN sessions' = {}
      /\ greeting' = NoOne /\ backlog' = <<>>
      /\ link' = [p \in Peer |-> IF link[p] = "open" THEN "closed" ELSE link[p]]
      /\ outbox' = [p \in Peer |-> <<>>]
      /\ inbox' = [p \in Peer |-> IF link'[p] = "closed" THEN <<>> ELSE inbox[p]]
      /\ fence' = fence /\ finding' = finding /\ intents' = intents /\ peer' = peer
  BY DEF Killed, Exit, runtime
<1>2. Typed'
  <2>1. inbox \in [Peer -> Seq(InFrame)] /\ link \in [Peer -> {"none", "open", "closed"}]
    BY DEF Typed
  <2>2. inbox' \in [Peer -> Seq(InFrame)] /\ outbox' \in [Peer -> Seq(OutFrame)]
    BY <1>1, <2>1, EmptySeqFacts
  <2>3. link' \in [Peer -> {"none", "open", "closed"}] /\ backlog' \in Seq(Peer)
    BY <1>1, <2>1, EmptySeqFacts
  <2>4. sessions' \in [DOMAIN sessions' -> Entry]
    BY <1>1
  <2> QED BY <1>1, <2>2, <2>3, <2>4 DEF Typed
<1>3. Connected' /\ \A q \in Peer : ~ InSession(q)'
  BY <1>1, EmptySeqFacts DEF Connected, InSession, KindKept
<1>4. fence' \in FenceVector /\ Below(fence, fence')
  BY <1>1, UnchangedFence
<1>5. \A q \in Peer : /\ inbox'[q] = inbox[q] \/ inbox'[q] = <<>>
                      /\ outbox'[q] = <<>>
  BY <1>1
<1> QED BY <1>1, <1>2, <1>3, <1>4, <1>5, SilenceKeeps

\* A start on the same store raises the fence, if it changes it at all.
LEMMA RestartKeeps ==
    ASSUME IInv, Restart
    PROVE  IInv'
<1>1. /\ up' \in BOOLEAN /\ finding' = "none"
      /\ UNCHANGED <<intents, sessions, greeting, backlog, link, inbox, outbox, peer>>
  BY DEF Restart
<1>2. fence' \in FenceVector /\ Below(fence, fence')
  <2>1. fence \in [Component -> Nat] /\ \A c \in Component : fence[c] \in Nat
    BY DEF IInv, Typed, FenceVector
  <2>2. CASE fence' = fence
    BY <2>1, <2>2 DEF FenceVector, Below
  <2>3. CASE fence' = [fence EXCEPT !["topology"] = @ + 1, !["policy"] = @ + 1]
    BY <2>1, <2>3 DEF FenceVector, Below, Component
  <2>4. CASE fence' = [fence EXCEPT !["topology"] = @ + 1]
    BY <2>1, <2>4 DEF FenceVector, Below, Component
  <2> QED BY <2>2, <2>3, <2>4 DEF Restart, Reopened
<1>3. Typed'
  <2>1. /\ up' \in BOOLEAN /\ finding' = "none" /\ fence' \in FenceVector
        /\ intents' = intents /\ sessions' = sessions /\ greeting' = greeting
        /\ backlog' = backlog /\ link' = link /\ inbox' = inbox /\ outbox' = outbox
        /\ peer' = peer
    BY <1>1, <1>2
  <2> QED BY <2>1 DEF IInv, Typed
<1>4. Connected' /\ \A q \in Peer : InSession(q)' => InSession(q)
  BY <1>1 DEF IInv, Connected, InSession, InBacklog, KindKept
<1>5. \A q \in Peer : inbox'[q] = inbox[q] /\ outbox'[q] = outbox[q]
  BY <1>1
<1>6. intents' = intents /\ peer' = peer
  BY <1>1
<1> QED BY <1>2, <1>3, <1>4, <1>5, <1>6, SilenceKeeps

\* Forgetting a session whose peer has closed keeps the invariant.
LEMMA PeerClosedKeeps ==
    ASSUME IInv, NEW s \in DOMAIN sessions, PeerClosed(s)
    PROVE  IInv'
<1> USE DEF IInv
<1>1. /\ greeting = NoOne /\ Forget(s) /\ Closed(sessions[s].conn)
      /\ UNCHANGED <<up, runtime, greeting, backlog, inbox, outbox, peer>>
  BY DEF PeerClosed
<1>2. RuntimeGoesOn(s)
  BY <1>1, RefusedGoesOn
<1>3. Outcome(s)
  BY <1>1 DEF Outcome, Told, Ends, Typed
<1>4. Connected' /\ \A q \in Peer : InSession(q)' => InSession(q)
  BY <1>1, <1>2, <1>3, OutcomeConnected
<1>5. /\ sessions' \in [DOMAIN sessions' -> Entry]
      /\ link' \in [Peer -> {"none", "open", "closed"}]
  BY <1>2, <1>3, HandleSessions
<1>6. Typed'
  BY <1>1, <1>5 DEF Typed, runtime
<1> QED BY <1>1, <1>4, <1>6, QuietKeeps

\* Taking a connection from the backlog keeps the invariant.
LEMMA AcceptKeeps ==
    ASSUME IInv, Accept
    PROVE  IInv'
<1> USE DEF IInv
<1>1. /\ greeting = NoOne /\ backlog # <<>>
      /\ greeting' = Head(backlog) /\ backlog' = Tail(backlog)
      /\ UNCHANGED <<up, runtime, sessions, link, inbox, outbox, peer>>
  BY DEF Accept
<1>2. backlog \in Seq(Peer)
  BY DEF Typed
<1>3. /\ greeting' = backlog[1] /\ 1 \in 1..Len(backlog) /\ greeting' \in Peer
      /\ backlog' \in Seq(Peer)
      /\ \A k \in 1..Len(backlog') : /\ backlog'[k] = backlog[k + 1]
                                     /\ k + 1 \in 1..Len(backlog) /\ k + 1 # 1
  BY <1>1, <1>2, TailFacts
<1>4. Typed'
  BY <1>1, <1>3 DEF Typed, runtime
<1>5. \A q : InSession(q)' <=> InSession(q)
  BY <1>1 DEF InSession
<1>6. Connected'
  <2>1. /\ link[backlog[1]] = "open" /\ ~ InSession(backlog[1])
        /\ \A m \in 1..Len(backlog) : backlog[m] = backlog[1] => m = 1
    BY <1>3 DEF Connected
  <2>2. link'[greeting'] = "open" /\ ~ InSession(greeting)' /\ ~ InBacklog(greeting)'
    BY <2>1, <1>1, <1>3 DEF InBacklog, InSession
  <2>3. \A k \in 1..Len(backlog') :
          /\ link'[backlog'[k]] = "open"
          /\ \A t \in DOMAIN sessions' : sessions'[t].conn # backlog'[k]
          /\ \A m \in 1..Len(backlog') : backlog'[m] = backlog'[k] => m = k
    <3> SUFFICES ASSUME NEW k \in 1..Len(backlog')
                 PROVE  /\ link'[backlog'[k]] = "open"
                        /\ \A t \in DOMAIN sessions' : sessions'[t].conn # backlog'[k]
                        /\ \A m \in 1..Len(backlog') : backlog'[m] = backlog'[k] => m = k
      OBVIOUS
    <3>1. k \in Nat /\ backlog'[k] = backlog[k + 1] /\ k + 1 \in 1..Len(backlog)
      BY <1>3
    <3>2. \A m \in 1..Len(backlog) : backlog[m] = backlog[k + 1] => m = k + 1
      BY <3>1 DEF Connected
    <3>3. ASSUME NEW m \in 1..Len(backlog'), backlog'[m] = backlog'[k] PROVE m = k
      <4>1. m \in Nat /\ backlog[m + 1] = backlog[k + 1] /\ m + 1 \in 1..Len(backlog)
        BY <1>3, <3>1, <3>3
      <4> QED BY <4>1, <3>1, <3>2
    <3> QED BY <3>1, <3>3, <1>1 DEF Connected, InSession
  <2> QED BY <2>2, <2>3, <1>1 DEF Connected, InSession, InBacklog, KindKept
<1> QED BY <1>1, <1>4, <1>5, <1>6, QuietKeeps

\* Giving up on a peer that says no hello keeps the invariant.
LEMMA GreetExpiresKeeps ==
    ASSUME IInv, GreetExpires
    PROVE  IInv'
<1> USE DEF IInv
<1>1. /\ greeting # NoOne /\ link' = [link EXCEPT ![greeting] = "closed"]
      /\ greeting' = NoOne
      /\ UNCHANGED <<up, runtime, sessions, backlog, inbox, outbox, peer>>
  BY DEF GreetExpires, Closed
<1>2. /\ greeting \in Peer /\ link[greeting] = "open"
      /\ ~ InSession(greeting) /\ ~ InBacklog(greeting)
  BY <1>1 DEF Typed, Connected
<1>3. link \in [Peer -> {"none", "open", "closed"}]
  BY DEF Typed
<1>4. Typed'
  BY <1>1, <1>2 DEF Typed, runtime
<1>5. \A q \in Peer : InSession(q)' => InSession(q)
  BY <1>1 DEF InSession
<1>6. Connected'
  BY <1>1, <1>2, <1>3 DEF Connected, InSession, InBacklog, KindKept
<1> QED BY <1>1, <1>4, <1>5, <1>6, QuietKeeps

\* The three outcomes of a first frame.  A session is new, and so is its name.
Welcomed(p, f) ==
    /\ f.session \notin DOMAIN sessions
    /\ sessions' \in [DOMAIN sessions \cup {f.session} -> Entry]
    /\ \A t \in DOMAIN sessions : sessions'[t] = sessions[t]
    /\ sessions'[f.session].conn = p
    /\ sessions'[f.session].worker = peer[p].worker
    /\ UNCHANGED link

TurnedAway(p) == UNCHANGED sessions /\ link' = [link EXCEPT ![p] = "closed"]

Acknowledged(p, f) ==
    \E ok \in BOOLEAN :
        outbox' = [outbox EXCEPT ![p] = With(p, [type |-> "HelloAck", re |-> f.sequence,
                                                 ok |-> ok, fence |-> fence])]

\* What a hello does: it is welcomed with a session, or its connection is closed.
LEMMA GreetFacts ==
    ASSUME IInv, Greet
    PROVE  LET p == greeting
               f == Head(inbox[p])
           IN  /\ p \in Peer /\ f \in InFrame /\ f = inbox[p][1]
               /\ inbox[p] # <<>> /\ link[p] = "open" /\ ~ InSession(p) /\ ~ InBacklog(p)
               /\ peer[p].phase # "new"
               /\ \/ Welcomed(p, f) /\ Acknowledged(p, f)
                  \/ TurnedAway(p) /\ (Acknowledged(p, f) \/ UNCHANGED outbox)
               /\ inbox'[p] \in {<<>>, Tail(inbox[p])}
               /\ inbox' \in [Peer -> Seq(InFrame)]
               /\ \A q \in Peer \ {p} : inbox'[q] = inbox[q]
               /\ greeting' = NoOne
               /\ UNCHANGED <<up, runtime, backlog, peer>>
<1> USE DEF IInv
<1> DEFINE p == greeting
           f == Head(inbox[p])
           ack(ok) == [type |-> "HelloAck", re |-> f.sequence, ok |-> ok, fence |-> fence]
<1>1. /\ p # NoOne /\ inbox[p] # <<>> /\ greeting' = NoOne
      /\ UNCHANGED <<up, runtime, backlog, peer>>
      /\ inbox' = [inbox EXCEPT ![p] = IF link'[p] = "closed" THEN <<>> ELSE Tail(inbox[p])]
  BY DEF Greet
<1>2. p \in Peer /\ link[p] = "open" /\ ~ InSession(p) /\ ~ InBacklog(p)
  BY <1>1 DEF Typed, Connected
<1>3. inbox \in [Peer -> Seq(InFrame)] /\ sessions \in [DOMAIN sessions -> Entry]
  BY DEF Typed
<1>4. f \in InFrame /\ f = inbox[p][1] /\ Tail(inbox[p]) \in Seq(InFrame)
  BY <1>1, <1>2, <1>3
<1>5. /\ inbox'[p] \in {<<>>, Tail(inbox[p])} /\ inbox' \in [Peer -> Seq(InFrame)]
      /\ \A q \in Peer \ {p} : inbox'[q] = inbox[q]
  BY <1>1, <1>2, <1>3, <1>4, EmptySeqFacts
<1>6. peer[p].phase # "new"
  BY <1>2 DEF Connected
<1>7. \/ /\ Claimable(f.session)
         /\ sessions' = [s \in DOMAIN sessions \cup {f.session} |->
                            IF s = f.session THEN Registered(p) ELSE sessions[s]]
         /\ outbox' = [outbox EXCEPT ![p] = With(p, ack(TRUE))]
         /\ UNCHANGED link
      \/ /\ outbox' = [outbox EXCEPT ![p] = With(p, ack(FALSE))] \/ UNCHANGED outbox
         /\ Closed(p) /\ UNCHANGED sessions
  BY DEF Greet
<1> HIDE DEF f
<1>8. CASE /\ Claimable(f.session)
           /\ sessions' = [s \in DOMAIN sessions \cup {f.session} |->
                            IF s = f.session THEN Registered(p) ELSE sessions[s]]
           /\ outbox' = [outbox EXCEPT ![p] = With(p, ack(TRUE))]
           /\ UNCHANGED link
  <2>1. Registered(p) \in Entry /\ Registered(p).conn = p /\ Registered(p).worker = peer[p].worker
    BY <1>2 DEF Registered, Entry, Typed, PeerState
  <2>2. Welcomed(p, f)
    BY <1>3, <1>8, <2>1 DEF Welcomed, Claimable
  <2>3. Acknowledged(p, f)
    BY <1>8 DEF Acknowledged
  <2> QED BY <1>1, <1>2, <1>4, <1>5, <1>6, <2>2, <2>3 DEF f
<1>9. CASE /\ outbox' = [outbox EXCEPT ![p] = With(p, ack(FALSE))] \/ UNCHANGED outbox
           /\ Closed(p) /\ UNCHANGED sessions
  <2>1. TurnedAway(p)
    BY <1>9 DEF TurnedAway, Closed
  <2>2. Acknowledged(p, f) \/ UNCHANGED outbox
    BY <1>9 DEF Acknowledged
  <2> QED BY <1>1, <1>2, <1>4, <1>5, <1>6, <2>1, <2>2 DEF f
<1> QED BY <1>7, <1>8, <1>9

\* The mailbox of the peer that is greeted, and the others'.
LEMMA GreetOutbox ==
    ASSUME Typed, NEW p \in Peer, NEW f \in InFrame, Acknowledged(p, f) \/ UNCHANGED outbox
    PROVE  /\ outbox' \in [Peer -> Seq(OutFrame)]
           /\ \A q \in Peer \ {p} : outbox'[q] = outbox[q]
           /\ \/ outbox'[p] = outbox[p]
              \/ /\ peer[p].phase \notin {"gone", "stray"}
                 /\ \E g \in Ack : /\ g.re = f.sequence /\ g.fence = fence
                                   /\ outbox'[p] = Append(outbox[p], g)
           /\ Acknowledged(p, f) /\ peer[p].phase \notin {"gone", "stray"} =>
                 outbox'[p] # outbox[p]
<1>1. outbox \in [Peer -> Seq(OutFrame)] /\ fence \in FenceVector /\ outbox[p] \in Seq(OutFrame)
  BY DEF Typed
<1>2. CASE UNCHANGED outbox /\ ~ Acknowledged(p, f)
  BY <1>1, <1>2
<1>3. CASE Acknowledged(p, f)
  <2>1. PICK ok \in BOOLEAN :
            outbox' = [outbox EXCEPT ![p] = With(p, [type |-> "HelloAck", re |-> f.sequence,
                                                     ok |-> ok, fence |-> fence])]
    BY <1>3 DEF Acknowledged
  <2> DEFINE g == [type |-> "HelloAck", re |-> f.sequence, ok |-> ok, fence |-> fence]
  <2>2. g \in Ack /\ g.re = f.sequence /\ g.fence = fence
    BY <1>1 DEF Ack, InFrame
  <2>3. g \in OutFrame
    BY <2>2 DEF OutFrame
  <2> HIDE DEF g
  <2>4. outbox' = [outbox EXCEPT ![p] = With(p, g)]
    BY <2>1 DEF g
  <2>5. CASE peer[p].phase \in {"gone", "stray"}
    BY <1>1, <2>4, <2>5 DEF With
  <2>6. CASE peer[p].phase \notin {"gone", "stray"}
    <3>1. outbox' = [outbox EXCEPT ![p] = Append(outbox[p], g)]
      BY <2>4, <2>6 DEF With
    <3>2. Append(outbox[p], g) \in Seq(OutFrame) /\ Append(outbox[p], g) # outbox[p]
      BY <1>1, <2>3, AppendFacts
    <3> QED BY <1>1, <2>2, <2>6, <3>1, <3>2
  <2> QED BY <2>5, <2>6
<1> QED BY <1>2, <1>3

\* An operator whose first frame is taken keeps its turn, with the answer to its
\* hello or without.
LEMMA GreetsOperator ==
    ASSUME Typed, fence' \in FenceVector, Below(fence, fence'), NEW q \in Operator,
           TurnOf(q), peer' = peer, inbox[q] # <<>>, inbox'[q] \in {<<>>, Tail(inbox[q])},
           \/ outbox'[q] = outbox[q]
           \/ \E g \in Ack : /\ g.re = inbox[q][1].sequence
                            /\ outbox'[q] = Append(outbox[q], g)
    PROVE  TurnOf(q)'
<1>1. q \in Peer /\ Greeted(q) /\ Alternate(q) /\ Awaiting(q)
  BY DEF Peer, TurnOf
<1>2. inbox[q] \in Seq(InFrame) /\ outbox[q] \in Seq(OutFrame)
  BY <1>1 DEF Typed
<1>3. /\ 1 \in 1..Len(inbox[q])
      /\ \A k \in 1..Len(inbox'[q]) :
            /\ k + 1 \in 1..Len(inbox[q]) /\ inbox'[q][k] = inbox[q][k + 1]
            /\ k + 1 = Len(inbox[q]) => k = Len(inbox'[q])
      /\ Len(inbox[q]) <= 1 => inbox'[q] = <<>>
  BY <1>2, ShiftFacts
<1>4. \A k \in 1..Len(outbox'[q]) :
         \/ k \in 1..Len(outbox[q]) /\ outbox'[q][k] = outbox[q][k]
         \/ outbox'[q][k].type = "HelloAck"
  <2>1. ASSUME NEW g \in Ack, outbox'[q] = Append(outbox[q], g), NEW k \in 1..Len(outbox'[q])
        PROVE  \/ k \in 1..Len(outbox[q]) /\ outbox'[q][k] = outbox[q][k]
               \/ outbox'[q][k].type = "HelloAck"
    <3>1. g \in OutFrame /\ g.type = "HelloAck"
      BY DEF Ack, OutFrame
    <3> QED BY <2>1, <3>1, <1>2, AppendFacts
  <2> QED BY <2>1
<1>5. outbox[q] = <<>> =>
          \/ outbox'[q] = <<>>
          \/ Len(outbox'[q]) = 1 /\ outbox'[q][1].re = inbox[q][1].sequence
  <2>1. ASSUME NEW g \in Ack, g.re = inbox[q][1].sequence, outbox'[q] = Append(outbox[q], g),
               outbox[q] = <<>>
        PROVE  Len(outbox'[q]) = 1 /\ outbox'[q][1].re = inbox[q][1].sequence
    BY <2>1
  <2> QED BY <2>1
<1>6. peer[q].phase = "hello" =>
          outbox[q] = <<>> /\ inbox'[q] = <<>> /\ Len(outbox'[q]) <= 1
  BY <1>1, <1>3, <1>5, EmptySeqFacts DEF Greeted
<1>7. Greeted(q)'
  BY <1>6 DEF Greeted
<1>8. Alternate(q)'
  <2> SUFFICES ASSUME ~ peer[q].worker, ~ peer[q].late PROVE Alternate(q)'
    BY DEF Alternate
  <2>1. peer[q].phase # "idle"
    BY <1>1 DEF Alternate
  <2>2. ASSUME peer[q].phase = "waiting"
        PROVE  /\ inbox'[q] = <<>>
               /\ \/ outbox'[q] = <<>>
                  \/ Len(outbox'[q]) = 1 /\ outbox'[q][1].re = peer[q].sequence
    <3>1. /\ outbox[q] = <<>> /\ Len(inbox[q]) = 1
          /\ inbox[q][1].sequence = peer[q].sequence
      BY <1>1, <2>2 DEF Alternate
    <3> QED BY <3>1, <1>3, <1>5
  <2> QED BY <1>6, <2>1, <2>2 DEF Alternate
<1>9. Awaiting(q)'
  <2>1. \A type : Bound(q, type)' = Bound(q, type)
    BY DEF Bound
  <2>2. \A f : Requested(q, f)' <=> Requested(q, f)
    BY DEF Requested
  <2>3. peer[q].phase \in {"hello", "idle"} =>
          \A k \in 1..Len(outbox'[q]) : outbox'[q][k].type \in Beside
    BY <1>1, <1>4 DEF Awaiting, Beside
  <2>4. peer[q].phase = "idle" =>
          \A k \in 1..Len(inbox'[q]) : inbox'[q][k].type = "SubmitObservation"
    BY <1>1, <1>3 DEF Awaiting
  <2>5. ASSUME peer[q].phase = "waiting"
        PROVE  \A k \in 1..Len(inbox'[q]) :
                  \/ inbox'[q][k].type = "SubmitObservation"
                  \/ k = Len(inbox'[q]) /\ Requested(q, inbox'[q][k])
    BY <1>1, <1>3, <2>5 DEF Awaiting
  <2>6. ASSUME peer[q].phase = "waiting"
        PROVE  \A k \in 1..Len(outbox'[q]) : outbox'[q][k].type \in Beside
    BY <1>1, <1>4, <2>6 DEF Awaiting, Beside
  <2>7. ASSUME peer[q].phase = "waiting"
        PROVE  \A k \in 1..Len(outbox'[q]) :
                    outbox'[q][k].type = Answer[peer[q].asked.type] =>
                        Below(peer[q].asked.fence, fence')
    <3>1. /\ peer[q].asked.type \in DOMAIN Answer /\ peer[q].asked.fence \in FenceVector
          /\ fence \in FenceVector
      BY <1>1, <2>7 DEF Awaiting, Asked, Typed
    <3>2. Answer[peer[q].asked.type] # "HelloAck"
      BY <3>1, AnswerFacts
    <3>3. Below(peer[q].asked.fence, fence) => Below(peer[q].asked.fence, fence')
      BY <3>1, BelowThrough
    <3> QED BY <1>1, <1>4, <2>7, <3>2, <3>3 DEF Awaiting
  <2> HIDE DEF Beside
  <2> QED BY <1>1, <2>1, <2>2, <2>3, <2>4, <2>5, <2>6, <2>7 DEF Awaiting
<1> QED BY <1>7, <1>8, <1>9 DEF TurnOf

\* Answering a hello keeps the invariant.
LEMMA GreetKeeps ==
    ASSUME IInv, Greet
    PROVE  IInv'
<1> USE DEF IInv
<1> DEFINE p == greeting
           f == Head(inbox[p])
<1>1. /\ p \in Peer /\ f \in InFrame /\ f = inbox[p][1]
      /\ inbox[p] # <<>> /\ link[p] = "open" /\ ~ InSession(p) /\ ~ InBacklog(p)
      /\ peer[p].phase # "new"
      /\ \/ Welcomed(p, f) /\ Acknowledged(p, f)
         \/ TurnedAway(p) /\ (Acknowledged(p, f) \/ UNCHANGED outbox)
      /\ inbox'[p] \in {<<>>, Tail(inbox[p])}
      /\ inbox' \in [Peer -> Seq(InFrame)]
      /\ \A q \in Peer \ {p} : inbox'[q] = inbox[q]
      /\ greeting' = NoOne
      /\ UNCHANGED <<up, runtime, backlog, peer>>
  BY GreetFacts
<1> HIDE DEF p, f
<1>2. /\ fence' = fence /\ finding' = finding /\ intents' = intents /\ peer' = peer
      /\ up' = up /\ backlog' = backlog
  BY <1>1 DEF runtime
<1>3. /\ outbox' \in [Peer -> Seq(OutFrame)]
      /\ \A q \in Peer \ {p} : outbox'[q] = outbox[q]
      /\ \/ outbox'[p] = outbox[p]
         \/ /\ peer[p].phase \notin {"gone", "stray"}
            /\ \E g \in Ack : /\ g.re = f.sequence /\ g.fence = fence
                              /\ outbox'[p] = Append(outbox[p], g)
      /\ Acknowledged(p, f) /\ peer[p].phase \notin {"gone", "stray"} => outbox'[p] # outbox[p]
  BY <1>1, GreetOutbox
<1>4. /\ sessions \in [DOMAIN sessions -> Entry] /\ link \in [Peer -> {"none", "open", "closed"}]
      /\ inbox[p] \in Seq(InFrame) /\ outbox[p] \in Seq(OutFrame)
  BY <1>1 DEF Typed
<1>5. \A t \in DOMAIN sessions : sessions[t].conn # p
  BY <1>1 DEF InSession
<1>6. \A k \in 1..Len(backlog) : backlog[k] # p
  BY <1>1 DEF InBacklog
<1>7. Typed'
  <2>1. sessions' \in [DOMAIN sessions' -> Entry] /\ link' \in [Peer -> {"none", "open", "closed"}]
    BY <1>1, <1>4 DEF Welcomed, TurnedAway
  <2> QED BY <2>1, <1>1, <1>2, <1>3 DEF Typed
<1>8. \A q \in Peer : InSession(q)' => InSession(q) \/ (q = p /\ Welcomed(p, f))
  BY <1>1 DEF InSession, Welcomed, TurnedAway
<1>9. Connected'
  <2>1. CASE Welcomed(p, f)
    <3>1. /\ DOMAIN sessions' = DOMAIN sessions \cup {f.session} /\ link' = link
          /\ \A t \in DOMAIN sessions : sessions'[t] = sessions[t]
          /\ f.session \notin DOMAIN sessions
          /\ sessions'[f.session].conn = p /\ sessions'[f.session].worker = peer[p].worker
      BY <2>1 DEF Welcomed
    <3>2. ASSUME NEW t \in DOMAIN sessions'
          PROVE  /\ link'[sessions'[t].conn] = "open"
                 /\ KindKept(t)'
                 /\ \A u \in DOMAIN sessions' \ {t} : sessions'[u].conn # sessions'[t].conn
      <4>1. CASE t = f.session
        BY <3>1, <4>1, <1>1, <1>2, <1>5 DEF KindKept
      <4>2. CASE t # f.session
        <5>1. KindKept(t)'
          BY <3>1, <3>2, <4>2, <1>2 DEF Connected, KindKept
        <5> QED BY <3>1, <3>2, <4>2, <5>1, <1>1, <1>5 DEF Connected
      <4> QED BY <4>1, <4>2
    <3>3. \A k \in 1..Len(backlog) : \A t \in DOMAIN sessions' : sessions'[t].conn # backlog[k]
      BY <3>1, <1>6 DEF Connected, InSession
    <3>4. \A k \in 1..Len(backlog) :
              /\ link[backlog[k]] = "open"
              /\ \A m \in 1..Len(backlog) : backlog[m] = backlog[k] => m = k
      BY DEF Connected
    <3>5. \A q \in Peer : peer[q].phase = "new" => link[q] = "none"
      BY DEF Connected
    <3> QED BY <3>1, <3>2, <3>3, <3>4, <3>5, <1>1, <1>2 DEF Connected, InSession
  <2>2. CASE TurnedAway(p)
    BY <1>1, <1>2, <1>4, <1>5, <1>6, <2>2 DEF Connected, TurnedAway, InSession, KindKept
  <2> QED BY <1>1, <2>1, <2>2
<1>10. Phased'
  <2> SUFFICES ASSUME NEW q \in Peer
               PROVE  /\ peer[q].phase = "new" => inbox'[q] = <<>> /\ outbox'[q] = <<>>
                      /\ peer[q].phase = "hello" =>
                            IF outbox'[q] = <<>> THEN ~ InSession(q)'
                            ELSE outbox'[q][1].type = "HelloAck"
    BY <1>2 DEF Phased, PhasedOf
  <2>1. CASE q # p
    BY <2>1, <1>1, <1>3, <1>8 DEF Phased, PhasedOf
  <2>2. CASE q = p /\ outbox'[p] = outbox[p]
    <3>1. peer[q].phase = "hello" => ~ Welcomed(p, f)
      <4>1. ~ (Welcomed(p, f) /\ TurnedAway(p))
        BY DEF Welcomed, TurnedAway
      <4> QED BY <4>1, <2>2, <1>1, <1>3
    <3>2. peer[q].phase = "hello" /\ InSession(q)' => InSession(q)
      BY <3>1, <1>8
    <3>3. peer[q].phase = "hello" =>
              IF outbox[q] = <<>> THEN ~ InSession(q) ELSE outbox[q][1].type = "HelloAck"
      BY DEF Phased, PhasedOf
    <3> QED BY <2>2, <3>2, <3>3, <1>1
  <2>3. ASSUME q = p, NEW g \in Ack, outbox'[p] = Append(outbox[p], g)
        PROVE  outbox'[q] # <<>> /\ (peer[q].phase = "hello" => outbox'[q][1].type = "HelloAck")
    <3>1. g \in OutFrame /\ g.type = "HelloAck"
      BY DEF Ack, OutFrame
    <3>2. outbox'[q] # <<>>
      BY <2>3, <3>1, <1>4, AppendFacts
    <3>3. CASE outbox[p] = <<>>
      BY <2>3, <3>1, <3>2, <3>3
    <3>4. CASE outbox[p] # <<>>
      <4>1. outbox'[p][1] = outbox[p][1]
        BY <2>3, <3>1, <3>4, <1>4, TailFacts, AppendFacts
      <4> QED BY <3>2, <3>4, <4>1, <2>3, <1>1 DEF Phased, PhasedOf
    <3> QED BY <3>2, <3>3, <3>4
  <2> QED BY <2>1, <2>2, <2>3, <1>1, <1>3
<1>11. Turns'
  <2> SUFFICES ASSUME NEW q \in Operator
               PROVE  TurnOf(q)'
    BY DEF Turns
  <2>1. q \in Peer /\ TurnOf(q) /\ Greeted(q) /\ Alternate(q) /\ Awaiting(q)
    BY DEF Peer, Turns, TurnOf
  <2>2. fence' \in FenceVector /\ Below(fence, fence')
    BY <1>2, UnchangedFence
  <2>3. CASE inbox'[q] \in {inbox[q], <<>>} /\ outbox'[q] = outbox[q]
    BY <2>1, <2>2, <2>3, <1>2, MailLost
  <2>4. CASE q = p
    <3>1. \/ outbox'[q] = outbox[q]
          \/ \E g \in Ack : /\ g.re = inbox[q][1].sequence
                           /\ outbox'[q] = Append(outbox[q], g)
      BY <2>4, <1>1, <1>3
    <3>2. /\ inbox[q] # <<>> /\ inbox'[q] \in {<<>>, Tail(inbox[q])}
          /\ Typed /\ peer' = peer
      BY <2>4, <1>1, <1>2
    <3> QED BY <3>1, <3>2, <2>1, <2>2, GreetsOperator
  <2> QED BY <2>1, <2>3, <2>4, <1>1, <1>3
<1>12. ASSUME NEW q \in Peer, NEW k \in 1..Len(outbox'[q])
       PROVE  \/ k \in 1..Len(outbox[q]) /\ outbox'[q][k] = outbox[q][k]
              \/ outbox'[q][k].type = "HelloAck" /\ outbox'[q][k].fence = fence
  <2>1. CASE outbox'[q] = outbox[q]
    BY <2>1, <1>12
  <2>2. ASSUME q = p, NEW g \in Ack, g.fence = fence, outbox'[p] = Append(outbox[p], g)
        PROVE  \/ k \in 1..Len(outbox[q]) /\ outbox'[q][k] = outbox[q][k]
               \/ outbox'[q][k].type = "HelloAck" /\ outbox'[q][k].fence = fence
    <3>1. g \in OutFrame /\ g.type = "HelloAck"
      BY DEF Ack, OutFrame
    <3> QED BY <2>2, <3>1, <1>4, <1>12, AppendFacts
  <2> QED BY <2>1, <2>2, <1>3
<1>13. Believed'
  <2>1. Below(fence, fence)
    BY UnchangedFence, <1>2
  <2> QED BY <2>1, <1>2, <1>12 DEF Believed, BelievedOf
<1>14. Reported'
  <2> SUFFICES ASSUME NEW q \in Peer
               PROVE  /\ \A k \in 1..Len(outbox'[q]) :
                            outbox'[q][k].type = "ContainIntent" =>
                               outbox'[q][k].intent \in 1..Len(intents)
                      /\ \A k \in 1..Len(inbox'[q]) :
                            inbox'[q][k].type \in {"ContainAck", "EffectReport"} =>
                               /\ q \in Worker
                               /\ inbox'[q][k].intent \in peer[q].handled
                               /\ inbox'[q][k].fence = peer[q].fence
    BY <1>2 DEF Reported, ReportedOf
  <2>1. \A k \in 1..Len(outbox'[q]) :
           outbox'[q][k].type = "ContainIntent" => outbox'[q][k].intent \in 1..Len(intents)
    BY <1>12 DEF Reported, ReportedOf
  <2>2. CASE inbox'[q] = <<>>
    BY <2>1, <2>2, EmptySeqFacts
  <2>3. CASE inbox'[q] = inbox[q]
    BY <2>1, <2>3 DEF Reported, ReportedOf
  <2>4. CASE q = p /\ inbox'[p] = Tail(inbox[p])
    <3>1. \A k \in 1..Len(inbox'[q]) :
              inbox'[q][k] = inbox[q][k + 1] /\ k + 1 \in 1..Len(inbox[q])
      BY <2>4, <1>1, <1>4, TailFacts
    <3> QED BY <2>1, <3>1 DEF Reported, ReportedOf
  <2> QED BY <2>2, <2>3, <2>4, <1>1
<1>15. VerifiedUnderItsFence'
  BY <1>2 DEF VerifiedUnderItsFence
<1> QED BY <1>7, <1>9, <1>10, <1>11, <1>13, <1>14, <1>15

-----------------------------------------------------------------------------
(* The steps of peers *)

\* One peer moves.  A worker that has taken an intent keeps its fence.
PeerStep(p) ==
    /\ UNCHANGED <<up, fence, finding, intents, sessions, greeting>>
    /\ peer' \in [Peer -> PeerState]
    /\ inbox' \in [Peer -> Seq(InFrame)] /\ outbox' \in [Peer -> Seq(OutFrame)]
    /\ \A q \in Peer \ {p} :
          peer'[q] = peer[q] /\ inbox'[q] = inbox[q] /\ outbox'[q] = outbox[q]
    /\ p \in Worker =>
          /\ peer[p].handled \subseteq peer'[p].handled
          /\ peer[p].handled # {} => peer'[p].fence = peer[p].fence

\* A step of one peer keeps the invariant if it keeps what is said of that peer.
LEMMA PeerStepKeeps ==
    ASSUME IInv, NEW p \in Peer, PeerStep(p),
           backlog' \in Seq(Peer), link' \in [Peer -> {"none", "open", "closed"}],
           Connected', PhasedOf(p)', BelievedOf(p)', ReportedOf(p)',
           p \in Operator => TurnOf(p)'
    PROVE  IInv'
<1> USE DEF IInv
<1>1. /\ fence' = fence /\ finding' = finding /\ intents' = intents /\ sessions' = sessions
      /\ up' = up /\ greeting' = greeting
      /\ \A q \in Peer \ {p} :
            peer'[q] = peer[q] /\ inbox'[q] = inbox[q] /\ outbox'[q] = outbox[q]
  BY DEF PeerStep
<1>2. Typed'
  BY <1>1 DEF Typed, PeerStep
<1>3. ASSUME NEW q \in Peer \ {p}
      PROVE  PhasedOf(q)' /\ BelievedOf(q)' /\ ReportedOf(q)'
  <2>1. /\ peer'[q] = peer[q] /\ inbox'[q] = inbox[q] /\ outbox'[q] = outbox[q]
        /\ PhasedOf(q) /\ BelievedOf(q) /\ ReportedOf(q)
    BY <1>1 DEF Phased, Believed, Reported
  <2>2. PhasedOf(q)'
    BY <2>1, <1>1 DEF PhasedOf, InSession
  <2>3. BelievedOf(q)'
    BY <2>1, <1>1 DEF BelievedOf
  <2>4. ReportedOf(q)'
    BY <2>1, <1>1 DEF ReportedOf
  <2> QED BY <2>2, <2>3, <2>4
<1>4. ASSUME NEW q \in Operator, q # p
      PROVE  TurnOf(q)'
  <2>1. /\ peer'[q] = peer[q] /\ inbox'[q] = inbox[q] /\ outbox'[q] = outbox[q]
        /\ TurnOf(q)
    BY <1>1, <1>4 DEF Turns, Peer
  <2>2. fence' \in FenceVector /\ Below(fence, fence')
    BY <1>1, UnchangedFence
  <2> QED BY <2>1, <2>2, MailLost
<1>5. Phased' /\ Believed' /\ Reported' /\ Turns'
  BY <1>3, <1>4 DEF Phased, Believed, Reported, Turns
<1>6. VerifiedUnderItsFence'
  <2> SUFFICES ASSUME NEW i \in DOMAIN intents, intents[i].verified
               PROVE  \E w \in Worker : i \in peer'[w].handled /\ peer'[w].fence = intents[i].fence
    BY <1>1 DEF VerifiedUnderItsFence
  <2>1. PICK w \in Worker : i \in peer[w].handled /\ peer[w].fence = intents[i].fence
    BY DEF VerifiedUnderItsFence
  <2>2. w \in Peer
    BY DEF Peer
  <2>3. CASE w # p
    BY <1>1, <2>1, <2>2, <2>3
  <2>4. CASE w = p
    BY <2>1, <2>4 DEF PeerStep
  <2> QED BY <2>3, <2>4
<1> QED BY <1>2, <1>5, <1>6

\* A step of a peer that touches no connection keeps them in their places.
LEMMA SameConnections ==
    ASSUME IInv, NEW p \in Peer, UNCHANGED <<sessions, greeting, backlog, link>>,
           peer[p].phase # "gone", peer'[p].phase # "new",
           peer'[p].phase = "gone" \/ peer'[p].worker = peer[p].worker,
           \A q \in Peer \ {p} : peer'[q] = peer[q]
    PROVE  Connected'
<1>1. ASSUME NEW s \in DOMAIN sessions PROVE KindKept(s)'
  <2>1. KindKept(s) /\ sessions[s].conn \in Peer
    BY DEF IInv, Connected, Typed, Entry
  <2> QED BY <2>1 DEF KindKept
<1> QED BY <1>1 DEF IInv, Connected, InSession, InBacklog

\* Each field of what a peer knows.
LEMMA PeerFacts ==
    ASSUME Typed, NEW p \in Peer
    PROVE  /\ peer \in [Peer -> PeerState] /\ peer[p] \in PeerState
           /\ peer[p].phase \in Phase /\ peer[p].fence \in FenceVector
           /\ peer[p].worker \in BOOLEAN /\ peer[p].late \in BOOLEAN
           /\ peer[p].sequence \in Nat /\ peer[p].asked \in Asked \cup {NoOne}
           /\ peer[p].left \in Seq(DOMAIN Answer) /\ peer[p].handled \subseteq Nat
           /\ inbox[p] \in Seq(InFrame) /\ outbox[p] \in Seq(OutFrame)
           /\ Claims[p] \in SessionId /\ Claims[p] \in Named
<1>1. peer \in [Peer -> PeerState] /\ inbox[p] \in Seq(InFrame) /\ outbox[p] \in Seq(OutFrame)
  BY DEF Typed
<1>2. Claims[p] \in SessionId /\ Claims[p] \in Named
  BY PeerAssumption DEF SessionId, Named, Range
<1> QED BY <1>1, <1>2 DEF PeerState

\* The fields of a frame that a peer sends.
LEMMA SentFacts ==
    ASSUME Typed, NEW p \in Peer, NEW type \in InType, NEW v \in FenceVector, NEW i \in Nat
    PROVE  /\ Sent(p, type, v, i) \in InFrame
           /\ Sent(p, type, v, i).type = type /\ Sent(p, type, v, i).fence = v
           /\ Sent(p, type, v, i).intent = i
           /\ Sent(p, type, v, i).sequence = peer[p].sequence + 1
BY PeerFacts DEF Sent, InFrame

\* One frame more in the mailbox of the coordinator.
LEMMA SendsFacts ==
    ASSUME Typed, NEW p \in Peer, NEW f \in InFrame, Sends(p, <<f>>)
    PROVE  /\ inbox' \in [Peer -> Seq(InFrame)]
           /\ \A q \in Peer \ {p} : inbox'[q] = inbox[q]
           /\ link[p] # "closed" => inbox'[p] = Append(inbox[p], f)
           /\ link[p] = "closed" => inbox'[p] = <<>>
<1>1. inbox \in [Peer -> Seq(InFrame)] /\ inbox[p] \in Seq(InFrame)
  BY DEF Typed
<1>2. inbox[p] \o <<f>> = Append(inbox[p], f) /\ Append(inbox[p], f) \in Seq(InFrame)
  BY <1>1
<1>3. inbox' = [inbox EXCEPT ![p] = IF link[p] = "closed" THEN <<>> ELSE Append(inbox[p], f)]
  BY <1>2 DEF Sends
<1> QED BY <1>1, <1>2, <1>3, EmptySeqFacts

\* A worker that starts to serve keeps the invariant.
LEMMA BeginServingKeeps ==
    ASSUME IInv, NEW p \in Peer, BeginServing(p)
    PROVE  IInv'
<1> USE DEF IInv
<1>1. /\ p \in Worker /\ peer[p].phase = "idle"
      /\ peer' = [peer EXCEPT ![p] = [peer[p] EXCEPT !.phase = "serving"]]
      /\ UNCHANGED <<up, fence, finding, intents, sessions, greeting, backlog, link, inbox, outbox>>
  BY DEF BeginServing, Becomes, Elsewhere, runtime
<1>2. /\ peer' \in [Peer -> PeerState] /\ \A q \in Peer \ {p} : peer'[q] = peer[q]
      /\ peer'[p] = [peer[p] EXCEPT !.phase = "serving"]
  <2>1. [peer[p] EXCEPT !.phase = "serving"] \in PeerState
    BY PeerFacts DEF PeerState, Phase
  <2> QED BY <2>1, <1>1, PeerFacts
<1>3. /\ peer'[p].phase = "serving" /\ peer'[p].fence = peer[p].fence
      /\ peer'[p].handled = peer[p].handled /\ peer'[p].worker = peer[p].worker
  BY <1>2, PeerFacts DEF PeerState
<1>4. PhasedOf(p) /\ BelievedOf(p) /\ ReportedOf(p) /\ p \notin Operator /\ p \notin Stray
  BY <1>1, PeerAssumption DEF Phased, Believed, Reported
<1>5. PeerStep(p)
  BY <1>1, <1>2, <1>3 DEF PeerStep, Typed
<1>6. PhasedOf(p)' /\ BelievedOf(p)' /\ ReportedOf(p)'
  BY <1>1, <1>3, <1>4 DEF PhasedOf, BelievedOf, ReportedOf
<1>7. Connected'
  BY <1>1, <1>2, <1>3, SameConnections
<1> QED BY <1>1, <1>4, <1>5, <1>6, <1>7, PeerStepKeeps DEF Typed

\* A peer that leaves keeps its view of the fence and what it has handled.
LEMMA GoneFacts ==
    ASSUME Typed, NEW p \in Peer
    PROVE  /\ Gone(p) \in PeerState /\ Gone(p).phase = "gone"
           /\ Gone(p).fence = peer[p].fence /\ Gone(p).handled = peer[p].handled
BY PeerFacts, EmptySeqFacts DEF Gone, PeerState, Phase

\* A peer that leaves, with a goodbye or without, keeps the invariant.
LEMMA LeaveKeeps ==
    ASSUME IInv, NEW p \in Peer, Leave(p)
    PROVE  IInv'
<1> USE DEF IInv
<1>1. /\ peer' = [peer EXCEPT ![p] = Gone(p)] /\ peer[p].phase # "gone"
      /\ UNCHANGED <<up, fence, finding, intents, sessions, greeting, backlog, link>>
      /\ outbox' = [outbox EXCEPT ![p] = <<>>]
      /\ Sends(p, <<Sent(p, "Bye", peer[p].fence, 0)>>) \/ UNCHANGED inbox
  BY DEF Leave, Becomes, Elsewhere, runtime
<1> DEFINE bye == Sent(p, "Bye", peer[p].fence, 0)
<1>2. bye \in InFrame /\ bye.type = "Bye"
  <2>1. "Bye" \in InType /\ peer[p].fence \in FenceVector /\ 0 \in Nat
    BY PeerFacts DEF InType
  <2> QED BY <2>1, SentFacts
<1> HIDE DEF bye
<1>3. /\ inbox' \in [Peer -> Seq(InFrame)] /\ \A q \in Peer \ {p} : inbox'[q] = inbox[q]
      /\ inbox'[p] \in {<<>>, inbox[p], Append(inbox[p], bye)}
  <2>1. CASE Sends(p, <<bye>>)
    BY <2>1, <1>2, SendsFacts
  <2>2. CASE UNCHANGED inbox
    BY <2>2 DEF Typed
  <2> QED BY <1>1, <2>1, <2>2 DEF bye
<1>4. /\ peer' \in [Peer -> PeerState] /\ \A q \in Peer \ {p} : peer'[q] = peer[q]
      /\ peer'[p].phase = "gone" /\ peer'[p].fence = peer[p].fence
      /\ peer'[p].handled = peer[p].handled
  BY <1>1, GoneFacts, PeerFacts
<1>5. PhasedOf(p) /\ BelievedOf(p) /\ ReportedOf(p)
  BY DEF Phased, Believed, Reported
<1>6. /\ outbox' \in [Peer -> Seq(OutFrame)] /\ outbox'[p] = <<>>
      /\ \A q \in Peer \ {p} : outbox'[q] = outbox[q]
  BY <1>1, EmptySeqFacts DEF Typed
<1>7. PeerStep(p)
  BY <1>1, <1>3, <1>4, <1>6 DEF PeerStep, Typed
<1>8. PhasedOf(p)' /\ BelievedOf(p)'
  BY <1>1, <1>4, <1>5, <1>6, EmptySeqFacts DEF PhasedOf, BelievedOf
<1>9. ReportedOf(p)'
  <2>1. \A k \in 1..Len(inbox'[p]) :
            \/ inbox'[p][k].type = "Bye"
            \/ k \in 1..Len(inbox[p]) /\ inbox'[p][k] = inbox[p][k]
    <3>1. CASE inbox'[p] = <<>>
      BY <3>1, EmptySeqFacts
    <3>2. CASE inbox'[p] = inbox[p]
      BY <3>2
    <3>3. CASE inbox'[p] = Append(inbox[p], bye)
      BY <3>3, <1>2, PeerFacts, AppendFacts
    <3> QED BY <3>1, <3>2, <3>3, <1>3
  <2> QED BY <2>1, <1>1, <1>4, <1>5, <1>6, EmptySeqFacts DEF ReportedOf
<1>10. TurnOf(p)'
  BY <1>4 DEF TurnOf, Greeted, Alternate, Awaiting
<1>11. Connected'
  BY <1>1, <1>4, SameConnections
<1> QED BY <1>1, <1>7, <1>8, <1>9, <1>10, <1>11, PeerStepKeeps DEF Typed

\* What every way of taking a frame has in common.
LEMMA TakeFacts ==
    ASSUME IInv, NEW p \in Peer, Take(p)
    PROVE  /\ outbox[p] # <<>> /\ Head(outbox[p]) = outbox[p][1] /\ outbox[p][1] \in OutFrame
           /\ peer[p].phase # "gone" /\ 1 \in 1..Len(outbox[p])
           /\ outbox' \in [Peer -> Seq(OutFrame)] /\ outbox'[p] \in {<<>>, Tail(outbox[p])}
           /\ \A q \in Peer \ {p} : outbox'[q] = outbox[q]
           /\ UNCHANGED <<up, fence, finding, intents, sessions, greeting, backlog, link>>
           /\ \A k \in 1..Len(outbox'[p]) :
                 k + 1 \in 1..Len(outbox[p]) /\ outbox'[p][k] = outbox[p][k + 1]
           /\ Len(outbox[p]) <= 1 => outbox'[p] = <<>>
           /\ PhasedOf(p) /\ BelievedOf(p) /\ ReportedOf(p)
           /\ p \in Operator => Greeted(p) /\ Alternate(p) /\ Awaiting(p)
<1> USE DEF IInv
<1>1. /\ outbox[p] # <<>> /\ peer[p].phase # "gone" /\ UNCHANGED <<backlog, link>>
      /\ outbox' = [outbox EXCEPT ![p] =
                        IF peer'[p].phase = "gone" THEN <<>> ELSE Tail(outbox[p])]
  BY DEF Take
<1>2. UNCHANGED <<up, fence, finding, intents, sessions, greeting>>
  BY DEF Take, TakeHelloAck, TakeAnswer, NoAnswer, TakeAnything, TakeIntent, Becomes,
         Elsewhere, runtime
<1>3. outbox \in [Peer -> Seq(OutFrame)] /\ outbox[p] \in Seq(OutFrame)
  BY DEF Typed
<1>4. /\ Tail(outbox[p]) \in Seq(OutFrame) /\ Head(outbox[p]) = outbox[p][1]
      /\ outbox[p][1] \in OutFrame
  BY <1>1, <1>3, TailFacts
<1>5. /\ outbox' \in [Peer -> Seq(OutFrame)] /\ outbox'[p] \in {<<>>, Tail(outbox[p])}
      /\ \A q \in Peer \ {p} : outbox'[q] = outbox[q]
  BY <1>1, <1>3, <1>4, EmptySeqFacts
<1>6. /\ 1 \in 1..Len(outbox[p]) /\ Len(outbox[p]) <= 1 => outbox'[p] = <<>>
      /\ \A k \in 1..Len(outbox'[p]) :
            k + 1 \in 1..Len(outbox[p]) /\ outbox'[p][k] = outbox[p][k + 1]
  BY <1>1, <1>3, <1>5, ShiftFacts
<1>7. /\ PhasedOf(p) /\ BelievedOf(p) /\ ReportedOf(p)
      /\ p \in Operator => Greeted(p) /\ Alternate(p) /\ Awaiting(p)
  BY DEF Phased, Believed, Reported, Turns, TurnOf
<1> QED BY <1>1, <1>2, <1>4, <1>5, <1>6, <1>7

\* A peer that reads the answer to its hello learns no fence still to come.
LEMMA TakeHelloAckKeeps ==
    ASSUME IInv, NEW p \in Peer, Take(p), TakeHelloAck(p, Head(outbox[p]))
    PROVE  IInv'
<1> USE DEF IInv
<1> DEFINE f == outbox[p][1]
           next == IF f.ok THEN [peer[p] EXCEPT !.phase = "idle", !.fence = f.fence]
                   ELSE Gone(p)
<1>1. /\ outbox[p] # <<>> /\ Head(outbox[p]) = f /\ f \in OutFrame
      /\ 1 \in 1..Len(outbox[p])
      /\ outbox' \in [Peer -> Seq(OutFrame)]
      /\ \A q \in Peer \ {p} : outbox'[q] = outbox[q]
      /\ UNCHANGED <<up, fence, finding, intents, sessions, greeting, backlog, link>>
      /\ \A k \in 1..Len(outbox'[p]) :
            k + 1 \in 1..Len(outbox[p]) /\ outbox'[p][k] = outbox[p][k + 1]
      /\ Len(outbox[p]) <= 1 => outbox'[p] = <<>>
      /\ PhasedOf(p) /\ BelievedOf(p) /\ ReportedOf(p)
      /\ p \in Operator => Greeted(p) /\ Alternate(p) /\ Awaiting(p)
  BY TakeFacts
<1>2. peer[p].phase = "hello" /\ peer' = [peer EXCEPT ![p] = next] /\ UNCHANGED inbox
  BY <1>1 DEF TakeHelloAck, Becomes
<1>3. f.type = "HelloAck" /\ peer[p].handled = {} /\ p \notin Stray
  BY <1>1, <1>2 DEF PhasedOf
<1>4. f \in Ack /\ f.fence \in FenceVector
  BY <1>1, <1>3, AnswerFacts DEF OutFrame, Ack, Answering, Order, Range
<1>5. Below(f.fence, fence) /\ Below(peer[p].fence, fence)
  BY <1>1, <1>3 DEF BelievedOf
<1>6. /\ next \in PeerState /\ next.phase \in {"idle", "gone"} /\ next.handled = peer[p].handled
      /\ next.fence \in {f.fence, peer[p].fence}
      /\ next.phase = "gone" \/ (next.worker = peer[p].worker /\ next.late = peer[p].late)
  <2>1. CASE f.ok
    <3>1. next = [peer[p] EXCEPT !.phase = "idle", !.fence = f.fence]
      BY <2>1
    <3> QED BY <3>1, <1>4, PeerFacts DEF PeerState, Phase
  <2>2. CASE ~ f.ok
    BY <2>2, GoneFacts
  <2> QED BY <2>1, <2>2
<1> HIDE DEF next, f
<1>7. /\ peer' \in [Peer -> PeerState] /\ \A q \in Peer \ {p} : peer'[q] = peer[q]
      /\ peer'[p] = next
  BY <1>2, <1>6, PeerFacts
<1>8. PeerStep(p)
  BY <1>1, <1>2, <1>3, <1>6, <1>7 DEF PeerStep, Typed
<1>9. PhasedOf(p)'
  BY <1>3, <1>6, <1>7 DEF PhasedOf
<1>10. BelievedOf(p)'
  BY <1>1, <1>5, <1>6, <1>7 DEF BelievedOf
<1>11. ReportedOf(p)'
  <2>1. \A k \in 1..Len(inbox[p]) : inbox[p][k].type \notin {"ContainAck", "EffectReport"}
    BY <1>1, <1>3 DEF ReportedOf
  <2>2. \A k \in 1..Len(outbox'[p]) :
           outbox'[p][k].type = "ContainIntent" => outbox'[p][k].intent \in 1..Len(intents)
    BY <1>1 DEF ReportedOf
  <2>3. peer'[p].handled = {} /\ inbox' = inbox /\ intents' = intents
    BY <1>1, <1>2, <1>3, <1>6, <1>7
  <2> QED BY <2>1, <2>2, <2>3 DEF ReportedOf
<1>12. ASSUME p \in Operator PROVE TurnOf(p)'
  <2>1. /\ inbox'[p] = <<>>
        /\ ~ peer[p].worker /\ ~ peer[p].late => outbox'[p] = <<>>
    BY <1>1, <1>2, <1>12 DEF Greeted, Alternate
  <2>2. \A k \in 1..Len(outbox'[p]) : outbox'[p][k].type \in Beside
    BY <1>1, <1>2, <1>12 DEF Awaiting
  <2>3. Greeted(p)' /\ Alternate(p)'
    BY <2>1, <1>6, <1>7 DEF Greeted, Alternate
  <2> HIDE DEF Beside
  <2>4. Awaiting(p)'
    BY <2>1, <2>2, <1>6, <1>7, EmptySeqFacts DEF Awaiting
  <2> QED BY <2>3, <2>4 DEF TurnOf
<1>13. Connected'
  BY <1>1, <1>2, <1>6, <1>7, SameConnections
<1> QED BY <1>1, <1>8, <1>9, <1>10, <1>11, <1>12, <1>13, PeerStepKeeps DEF Typed

\* An operator that goes on after an answer, or without one, or ends, keeps the
\* invariant: an answer it did not get is one to an observation.
LEMMA OperatorGoesOn ==
    ASSUME IInv, NEW p \in Peer, peer[p].phase = "waiting",
           NEW next \in PeerState, peer' = [peer EXCEPT ![p] = next],
           next.handled = peer[p].handled, next.fence \in FenceVector, Below(next.fence, fence),
           \/ next.phase = "gone"
           \/ /\ next.phase = "idle" /\ next.worker = peer[p].worker
              /\ ~ next.worker /\ ~ next.late => inbox[p] = <<>> /\ outbox'[p] = <<>>
              /\ \A k \in 1..Len(inbox[p]) : inbox[p][k].type = "SubmitObservation"
              /\ \A k \in 1..Len(outbox'[p]) : outbox'[p][k].type \in Beside,
           UNCHANGED <<up, fence, finding, intents, sessions, greeting, backlog, link, inbox>>,
           outbox' \in [Peer -> Seq(OutFrame)], \A q \in Peer \ {p} : outbox'[q] = outbox[q],
           \A k \in 1..Len(outbox'[p]) :
              \E m \in 1..Len(outbox[p]) : outbox'[p][k] = outbox[p][m]
    PROVE  IInv'
<1> USE DEF IInv
<1>1. /\ peer' \in [Peer -> PeerState] /\ \A q \in Peer \ {p} : peer'[q] = peer[q]
      /\ peer'[p] = next
  BY PeerFacts
<1>2. PhasedOf(p) /\ BelievedOf(p) /\ ReportedOf(p)
  BY DEF Phased, Believed, Reported
<1>3. p \in Operator /\ p \notin Worker /\ p \notin Stray
  BY <1>2, PeerAssumption DEF PhasedOf, Peer
<1>4. PeerStep(p)
  BY <1>1, <1>3 DEF PeerStep, Typed
<1>5. PhasedOf(p)'
  BY <1>1, <1>3 DEF PhasedOf
<1>6. BelievedOf(p)'
  <2>1. \A k \in 1..Len(outbox'[p]) :
           outbox'[p][k].type = "HelloAck" => Below(outbox'[p][k].fence, fence)
    BY <1>2 DEF BelievedOf
  <2> QED BY <2>1, <1>1 DEF BelievedOf
<1>7. ReportedOf(p)'
  <2>1. \A k \in 1..Len(outbox'[p]) :
           outbox'[p][k].type = "ContainIntent" => outbox'[p][k].intent \in 1..Len(intents)
    BY <1>2 DEF ReportedOf
  <2>2. \A k \in 1..Len(inbox[p]) : inbox[p][k].type \notin {"ContainAck", "EffectReport"}
    BY <1>2, <1>3 DEF ReportedOf
  <2> QED BY <2>1, <2>2, <1>1, <1>2 DEF ReportedOf
<1>8. TurnOf(p)'
  <2>1. Greeted(p)' /\ Alternate(p)'
    BY <1>1 DEF Greeted, Alternate
  <2> HIDE DEF Beside
  <2>2. Awaiting(p)'
    BY <1>1 DEF Awaiting
  <2> QED BY <2>1, <2>2 DEF TurnOf
<1>9. Connected'
  BY <1>1, SameConnections
<1> QED BY <1>4, <1>5, <1>6, <1>7, <1>8, <1>9, PeerStepKeeps DEF Typed

\* What is left of a script is a script.
LEMMA RestFacts ==
    ASSUME NEW left \in Seq(DOMAIN Answer), NEW rest \in AfterObserve(left)
    PROVE  rest \in Seq(DOMAIN Answer)
<1>1. PICK n \in 0 .. Len(left) : rest = SubSeq(left, n + 1, Len(left))
  BY DEF AfterObserve
<1> QED BY <1>1

\* An operator without its answer, which ends or leaves the step, keeps it.
LEMMA NoAnswerKeeps ==
    ASSUME IInv, NEW p \in Operator, peer[p].phase = "waiting", NoAnswer(p),
           UNCHANGED <<up, fence, finding, intents, sessions, greeting, backlog, link, inbox>>,
           outbox' \in [Peer -> Seq(OutFrame)], \A q \in Peer \ {p} : outbox'[q] = outbox[q],
           \A k \in 1..Len(outbox'[p]) :
              \E m \in 1..Len(outbox[p]) : outbox'[p][k] = outbox[p][m]
    PROVE  IInv'
<1> USE DEF IInv
<1>1. p \in Peer /\ Awaiting(p) /\ Below(peer[p].fence, fence) /\ peer[p].fence \in FenceVector
  BY PeerFacts DEF Peer, Turns, TurnOf, Believed, BelievedOf
<1>2. CASE peer[p].asked.type = "SubmitObservation"
  <2>1. PICK rest \in AfterObserve(peer[p].left) :
            peer' = [peer EXCEPT ![p] = [peer[p] EXCEPT
                        !.phase = "idle", !.late = TRUE, !.left = rest]]
    BY <1>2 DEF NoAnswer, Becomes
  <2> DEFINE next == [peer[p] EXCEPT !.phase = "idle", !.late = TRUE, !.left = rest]
  <2>2. rest \in Seq(DOMAIN Answer)
    BY <1>1, PeerFacts, RestFacts
  <2>3. /\ next \in PeerState /\ next.phase = "idle" /\ next.late
        /\ next.worker = peer[p].worker
        /\ next.fence = peer[p].fence /\ next.handled = peer[p].handled
    BY <2>2, <1>1, PeerFacts DEF PeerState, Phase
  <2>4. peer' = [peer EXCEPT ![p] = next]
    BY <2>1
  <2> HIDE DEF next
  <2>5. \A k \in 1..Len(inbox[p]) : inbox[p][k].type = "SubmitObservation"
    BY <1>1, <1>2 DEF Awaiting, Requested
  <2>6. \A m \in 1..Len(outbox[p]) : outbox[p][m].type \in Beside
    <3>1. Answer[peer[p].asked.type] \in Beside
      BY <1>2, AnswerFacts DEF Beside
    <3> HIDE DEF Beside
    <3> QED BY <3>1, <1>1 DEF Awaiting
  <2>7. \A k \in 1..Len(outbox'[p]) : outbox'[p][k].type \in Beside
    BY <2>6
  <2> HIDE DEF Beside
  <2> QED BY <2>3, <2>4, <2>5, <2>7, <1>1, OperatorGoesOn
<1>3. CASE peer[p].asked.type # "SubmitObservation"
  <2>1. peer' = [peer EXCEPT ![p] = Gone(p)]
    BY <1>3 DEF NoAnswer, Becomes
  <2>2. /\ Gone(p) \in PeerState /\ Gone(p).phase = "gone"
        /\ Gone(p).fence = peer[p].fence /\ Gone(p).handled = peer[p].handled
    BY <1>1, GoneFacts
  <2> QED BY <2>1, <2>2, <1>1, OperatorGoesOn
<1> QED BY <1>2, <1>3

\* An operator that reads an answer takes up the fence the answer confirms.
LEMMA TakeAnswerKeeps ==
    ASSUME IInv, NEW p \in Peer, Take(p), TakeAnswer(p, Head(outbox[p]))
    PROVE  IInv'
<1> USE DEF IInv
<1> DEFINE f == outbox[p][1]
           asked == peer[p].asked
           next == [peer[p] EXCEPT !.phase = "idle", !.fence = asked.fence]
<1>1. /\ outbox[p] # <<>> /\ Head(outbox[p]) = f /\ 1 \in 1..Len(outbox[p])
      /\ outbox' \in [Peer -> Seq(OutFrame)]
      /\ \A q \in Peer \ {p} : outbox'[q] = outbox[q]
      /\ UNCHANGED <<up, fence, finding, intents, sessions, greeting, backlog, link>>
      /\ \A k \in 1..Len(outbox'[p]) :
            k + 1 \in 1..Len(outbox[p]) /\ outbox'[p][k] = outbox[p][k + 1]
      /\ Len(outbox[p]) <= 1 => outbox'[p] = <<>>
      /\ PhasedOf(p)
      /\ p \in Operator => Greeted(p) /\ Alternate(p) /\ Awaiting(p)
  BY TakeFacts
<1>2. /\ peer[p].phase = "waiting" /\ UNCHANGED inbox
      /\ IF f.type = Answer[asked.type] THEN peer' = [peer EXCEPT ![p] = next] ELSE NoAnswer(p)
  BY <1>1 DEF TakeAnswer, Becomes
<1>3. p \in Operator
  BY <1>1, <1>2 DEF PhasedOf, Peer
<1>4. \A k \in 1..Len(outbox'[p]) : \E m \in 1..Len(outbox[p]) : outbox'[p][k] = outbox[p][m]
  BY <1>1
<1>5. CASE f.type = Answer[asked.type]
  <2>1. /\ asked \in Asked /\ asked.fence \in FenceVector /\ asked.type \in DOMAIN Answer
        /\ Below(asked.fence, fence)
    BY <1>1, <1>2, <1>3, <1>5 DEF Awaiting, Asked
  <2>2. /\ next \in PeerState /\ next.phase = "idle" /\ next.handled = peer[p].handled
        /\ next.worker = peer[p].worker /\ next.late = peer[p].late
        /\ next.fence = asked.fence
    BY <2>1, PeerFacts DEF PeerState, Phase
  <2>3. ~ peer[p].worker /\ ~ peer[p].late => inbox[p] = <<>> /\ outbox'[p] = <<>>
    BY <1>1, <1>2, <1>3 DEF Alternate
  <2>4. CASE f.type \in Beside
    <3>1. asked.type = "SubmitObservation" /\ Answer[asked.type] \in Beside
      BY <2>1, <2>4, <1>5, AnswerFacts
    <3>2. \A k \in 1..Len(inbox[p]) : inbox[p][k].type = "SubmitObservation"
      BY <3>1, <1>1, <1>2, <1>3 DEF Awaiting, Requested
    <3> HIDE DEF Beside
    <3>3. \A m \in 1..Len(outbox[p]) : outbox[p][m].type \in Beside
      BY <3>1, <1>1, <1>2, <1>3 DEF Awaiting
    <3>4. \A k \in 1..Len(outbox'[p]) : outbox'[p][k].type \in Beside
      BY <3>3, <1>1
    <3> HIDE DEF next, asked
    <3> QED BY <3>2, <3>4, <2>1, <2>2, <2>3, <1>1, <1>2, <1>4, <1>5, OperatorGoesOn
  <2>5. CASE f.type \notin Beside
    <3> HIDE DEF Beside
    <3>1. inbox[p] = <<>> /\ \A m \in 1..Len(outbox[p]) : m # 1 => outbox[p][m].type \in Beside
      BY <2>5, <1>1, <1>2, <1>3 DEF Awaiting
    <3>2. ASSUME NEW k \in 1..Len(outbox'[p]) PROVE outbox'[p][k].type \in Beside
      <4>1. k + 1 \in 1..Len(outbox[p]) /\ k + 1 # 1 /\ outbox'[p][k] = outbox[p][k + 1]
        BY <1>1
      <4> QED BY <4>1, <3>1
    <3>3. \A k \in 1..Len(inbox[p]) : inbox[p][k].type = "SubmitObservation"
      BY <3>1, EmptySeqFacts
    <3> HIDE DEF next, asked
    <3> QED BY <3>2, <3>3, <2>1, <2>2, <2>3, <1>1, <1>2, <1>4, <1>5, OperatorGoesOn
  <2> QED BY <2>4, <2>5
<1>6. CASE f.type # Answer[asked.type]
  BY <1>1, <1>2, <1>3, <1>4, <1>6, NoAnswerKeeps
<1> QED BY <1>5, <1>6

\* An operator that has heard nothing until its deadline keeps the invariant.
LEMMA GiveUpKeeps ==
    ASSUME IInv, NEW p \in Peer, GiveUp(p)
    PROVE  IInv'
<1>1. /\ peer[p].phase = "waiting" /\ NoAnswer(p)
      /\ UNCHANGED <<up, fence, finding, intents, sessions, greeting, backlog, link, inbox>>
      /\ UNCHANGED outbox
  BY DEF GiveUp, NoAnswer, Becomes, Elsewhere, runtime
<1>2. p \in Operator
  BY <1>1 DEF IInv, Phased, PhasedOf, Peer
<1>3. outbox' \in [Peer -> Seq(OutFrame)]
  BY <1>1 DEF IInv, Typed
<1> QED BY <1>1, <1>2, <1>3, NoAnswerKeeps

\* A worker that takes any frame for its answer keeps the invariant.
LEMMA TakeAnythingKeeps ==
    ASSUME IInv, NEW p \in Peer, Take(p), TakeAnything(p, Head(outbox[p]))
    PROVE  IInv'
<1> USE DEF IInv
<1> DEFINE phase == IF peer[p].phase = "observing" THEN "idle" ELSE "serving"
<1>1. /\ outbox' \in [Peer -> Seq(OutFrame)]
      /\ \A q \in Peer \ {p} : outbox'[q] = outbox[q]
      /\ UNCHANGED <<up, fence, finding, intents, sessions, greeting, backlog, link>>
      /\ \A k \in 1..Len(outbox'[p]) :
            k + 1 \in 1..Len(outbox[p]) /\ outbox'[p][k] = outbox[p][k + 1]
      /\ PhasedOf(p) /\ BelievedOf(p) /\ ReportedOf(p)
  BY TakeFacts
<1>2. /\ peer[p].phase \in {"observing", "effect"} /\ UNCHANGED inbox
      /\ peer' = [peer EXCEPT ![p] = [peer[p] EXCEPT !.phase = phase]]
  <2>1. [peer[p] EXCEPT !.phase = IF @ = "observing" THEN "idle" ELSE "serving"]
            = [peer[p] EXCEPT !.phase = phase]
    BY PeerFacts DEF PeerState
  <2> QED BY <2>1 DEF TakeAnything, Becomes
<1>3. p \in Worker /\ p \notin Operator /\ p \notin Stray
  BY <1>1, <1>2, PeerAssumption DEF PhasedOf, Peer
<1>4. phase \in {"idle", "serving"}
  OBVIOUS
<1> HIDE DEF phase
<1>5. /\ peer' \in [Peer -> PeerState] /\ \A q \in Peer \ {p} : peer'[q] = peer[q]
      /\ peer'[p].phase = phase /\ peer'[p].fence = peer[p].fence
      /\ peer'[p].handled = peer[p].handled /\ peer'[p].worker = peer[p].worker
  <2>1. /\ [peer[p] EXCEPT !.phase = phase] \in PeerState
        /\ [peer[p] EXCEPT !.phase = phase].phase = phase
        /\ [peer[p] EXCEPT !.phase = phase].fence = peer[p].fence
        /\ [peer[p] EXCEPT !.phase = phase].handled = peer[p].handled
        /\ [peer[p] EXCEPT !.phase = phase].worker = peer[p].worker
    BY <1>4, PeerFacts DEF PeerState, Phase
  <2> QED BY <2>1, <1>2, PeerFacts
<1>6. PeerStep(p)
  BY <1>1, <1>2, <1>5 DEF PeerStep, Typed
<1>7. PhasedOf(p)' /\ BelievedOf(p)' /\ ReportedOf(p)'
  <2>1. PhasedOf(p)'
    BY <1>3, <1>4, <1>5 DEF PhasedOf
  <2>2. BelievedOf(p)'
    BY <1>1, <1>5 DEF BelievedOf
  <2>3. ReportedOf(p)'
    <3>1. inbox' = inbox /\ intents' = intents
      BY <1>1, <1>2
    <3> QED BY <3>1, <1>1, <1>5 DEF ReportedOf
  <2> QED BY <2>1, <2>2, <2>3
<1>8. Connected'
  BY <1>1, <1>2, <1>4, <1>5, SameConnections
<1> QED BY <1>1, <1>3, <1>6, <1>7, <1>8, PeerStepKeeps DEF Typed

\* A worker that takes an intent reports it under its own view of the fence.
LEMMA TakeIntentKeeps ==
    ASSUME IInv, NEW p \in Peer, Take(p), TakeIntent(p, Head(outbox[p]))
    PROVE  IInv'
<1> USE DEF IInv
<1> DEFINE f == outbox[p][1]
           v == peer[p].fence
           ack == Sent(p, "ContainAck", v, f.intent)
           effect == [Sent(p, "EffectReport", v, f.intent) EXCEPT !.sequence = @ + 1]
           next == [peer[p] EXCEPT !.phase = "effect", !.sequence = @ + 2,
                                   !.handled = @ \cup {f.intent}]
<1>1. /\ outbox[p] # <<>> /\ Head(outbox[p]) = f /\ f \in OutFrame
      /\ outbox' \in [Peer -> Seq(OutFrame)]
      /\ \A q \in Peer \ {p} : outbox'[q] = outbox[q]
      /\ UNCHANGED <<up, fence, finding, intents, sessions, greeting, backlog, link>>
      /\ \A k \in 1..Len(outbox'[p]) :
            k + 1 \in 1..Len(outbox[p]) /\ outbox'[p][k] = outbox[p][k + 1]
      /\ PhasedOf(p) /\ BelievedOf(p) /\ ReportedOf(p)
  BY TakeFacts
<1>2. peer[p].phase = "serving"
  BY DEF TakeIntent
<1>3. p \in Worker /\ p \notin Operator /\ p \notin Stray
  BY <1>1, <1>2, PeerAssumption DEF PhasedOf, Peer
<1>4. CASE f.type # "ContainIntent"
  <2>1. peer' = [peer EXCEPT ![p] = peer[p]] /\ UNCHANGED inbox
    BY <1>1, <1>4 DEF TakeIntent, Becomes
  <2>2. peer' = peer
    BY <2>1, PeerFacts
  <2>3. PeerStep(p)
    BY <1>1, <2>1, <2>2 DEF PeerStep, Typed
  <2>4. PhasedOf(p)' /\ BelievedOf(p)' /\ ReportedOf(p)'
    <3>1. PhasedOf(p)'
      BY <1>2, <1>3, <2>2 DEF PhasedOf
    <3>2. BelievedOf(p)'
      BY <1>1, <2>2 DEF BelievedOf
    <3>3. ReportedOf(p)'
      BY <1>1, <2>1, <2>2 DEF ReportedOf
    <3> QED BY <3>1, <3>2, <3>3
  <2>5. Connected'
    BY <1>1, <1>2, <2>2, SameConnections
  <2> QED BY <1>1, <1>3, <2>3, <2>4, <2>5, PeerStepKeeps DEF Typed
<1>5. CASE f.type = "ContainIntent"
  <2>1. f \in Order /\ f.intent \in Nat /\ f.intent \in 1..Len(intents)
    <3>1. f \in Order
      BY <1>1, <1>5, AnswerFacts DEF OutFrame, Ack, Answering, Range
    <3>2. 1 \in 1..Len(outbox[p])
      BY <1>1, PeerFacts, TailFacts
    <3> QED BY <3>1, <3>2, <1>1, <1>5 DEF Order, ReportedOf
  <2>2. peer' = [peer EXCEPT ![p] = next] /\ Sends(p, <<ack, effect>>)
    BY <1>1, <1>5 DEF TakeIntent, Becomes
  <2>3. ack \in InFrame /\ ack.intent = f.intent /\ ack.fence = v
    <3>1. "ContainAck" \in InType /\ v \in FenceVector
      BY PeerFacts DEF InType
    <3> QED BY <3>1, <2>1, SentFacts
  <2>4. effect \in InFrame /\ effect.intent = f.intent /\ effect.fence = v
    <3> DEFINE g == Sent(p, "EffectReport", v, f.intent)
    <3>1. g \in InFrame /\ g.intent = f.intent /\ g.fence = v
      <4>1. "EffectReport" \in InType /\ v \in FenceVector
        BY PeerFacts DEF InType
      <4> QED BY <4>1, <2>1, SentFacts
    <3> HIDE DEF g
    <3>2. /\ [g EXCEPT !.sequence = @ + 1] \in InFrame
          /\ [g EXCEPT !.sequence = @ + 1].intent = f.intent
          /\ [g EXCEPT !.sequence = @ + 1].fence = v
      BY <3>1 DEF InFrame
    <3> QED BY <3>2 DEF g
  <2>5. /\ next \in PeerState /\ next.phase = "effect" /\ next.fence = v
        /\ next.handled = peer[p].handled \cup {f.intent} /\ next.worker = peer[p].worker
    <3>1. peer[p].sequence + 2 \in Nat /\ peer[p].handled \cup {f.intent} \in SUBSET Nat
      BY <2>1, PeerFacts
    <3>2. next = [peer[p] EXCEPT !.phase = "effect", !.sequence = peer[p].sequence + 2,
                                 !.handled = peer[p].handled \cup {f.intent}]
      BY PeerFacts DEF PeerState
    <3> DEFINE m == peer[p].sequence + 2
               h == peer[p].handled \cup {f.intent}
               after == [peer[p] EXCEPT !.phase = "effect", !.sequence = m, !.handled = h]
    <3>3. m \in Nat /\ h \in SUBSET Nat /\ peer[p] \in PeerState
      BY <3>1, PeerFacts
    <3> HIDE DEF m, h
    <3>4. /\ after \in PeerState /\ after.phase = "effect" /\ after.fence = peer[p].fence
          /\ after.handled = h /\ after.worker = peer[p].worker
      BY <3>3 DEF PeerState, Phase
    <3> QED BY <3>2, <3>4 DEF m, h
  <2> HIDE DEF ack, effect, next, v, f
  <2>6. /\ peer' \in [Peer -> PeerState] /\ \A q \in Peer \ {p} : peer'[q] = peer[q]
        /\ peer'[p] = next
    BY <2>2, <2>5, PeerFacts
  <2>7. /\ inbox[p] \o <<ack, effect>> \in Seq(InFrame)
        /\ \A k \in 1..Len(inbox[p] \o <<ack, effect>>) :
              \/ k \in 1..Len(inbox[p]) /\ (inbox[p] \o <<ack, effect>>)[k] = inbox[p][k]
              \/ (inbox[p] \o <<ack, effect>>)[k] \in {ack, effect}
    <3>1. inbox[p] \in Seq(InFrame)
      BY PeerFacts
    <3> QED BY <3>1, <2>3, <2>4, PairFacts
  <2>8. /\ inbox' \in [Peer -> Seq(InFrame)] /\ \A q \in Peer \ {p} : inbox'[q] = inbox[q]
        /\ inbox'[p] \in {<<>>, inbox[p] \o <<ack, effect>>}
    <3> DEFINE both == inbox[p] \o <<ack, effect>>
    <3>1. both \in Seq(InFrame) /\ inbox \in [Peer -> Seq(InFrame)]
      BY <2>7 DEF Typed
    <3>2. inbox' = [inbox EXCEPT ![p] = IF link[p] = "closed" THEN <<>> ELSE both]
      BY <2>2 DEF Sends
    <3> HIDE DEF both
    <3>3. /\ inbox' \in [Peer -> Seq(InFrame)] /\ \A q \in Peer \ {p} : inbox'[q] = inbox[q]
          /\ inbox'[p] \in {<<>>, both}
      BY <3>1, <3>2, EmptySeqFacts
    <3> QED BY <3>3 DEF both
  <2>9. PeerStep(p)
    BY <1>1, <2>5, <2>6, <2>8 DEF PeerStep, v
  <2>10. PhasedOf(p)' /\ BelievedOf(p)'
    <3>1. peer'[p].phase = "effect" /\ peer'[p].fence = peer[p].fence
      BY <2>5, <2>6 DEF v
    <3>2. PhasedOf(p)'
      BY <3>1, <1>3 DEF PhasedOf
    <3>3. BelievedOf(p)'
      <4>1. Below(peer'[p].fence, fence')
        BY <3>1, <1>1 DEF BelievedOf
      <4>2. \A k \in 1..Len(outbox'[p]) :
               outbox'[p][k].type = "HelloAck" => Below(outbox'[p][k].fence, fence')
        BY <1>1 DEF BelievedOf
      <4> QED BY <4>1, <4>2 DEF BelievedOf
    <3> QED BY <3>2, <3>3
  <2>11. ReportedOf(p)'
    <3>1. \A k \in 1..Len(inbox'[p]) :
              \/ k \in 1..Len(inbox[p]) /\ inbox'[p][k] = inbox[p][k]
              \/ inbox'[p][k] \in {ack, effect}
      BY <2>7, <2>8, EmptySeqFacts
    <3>2. peer'[p].fence = peer[p].fence /\ peer'[p].handled = peer[p].handled \cup {f.intent}
      BY <2>5, <2>6 DEF v
    <3>3. \A k \in 1..Len(inbox'[p]) :
              inbox'[p][k].type \in {"ContainAck", "EffectReport"} =>
                 /\ inbox'[p][k].intent \in peer'[p].handled
                 /\ inbox'[p][k].fence = peer'[p].fence
      BY <3>1, <3>2, <1>1, <2>3, <2>4 DEF ReportedOf, v
    <3>4. \A k \in 1..Len(outbox'[p]) :
              outbox'[p][k].type = "ContainIntent" => outbox'[p][k].intent \in 1..Len(intents)
      BY <1>1 DEF ReportedOf
    <3>5. peer'[p].handled \subseteq 1..Len(intents)
      BY <3>2, <1>1, <2>1 DEF ReportedOf
    <3> QED BY <3>3, <3>4, <3>5, <1>1, <1>3 DEF ReportedOf
  <2>12. Connected'
    BY <1>1, <1>2, <2>5, <2>6, SameConnections
  <2> QED BY <1>1, <1>3, <2>9, <2>10, <2>11, <2>12, PeerStepKeeps DEF Typed
<1> QED BY <1>4, <1>5

\* What a peer may bind a request to is a fence.
LEMMA BoundType ==
    ASSUME Typed, NEW p \in Peer, NEW type, NEW v \in Bound(p, type)
    PROVE  v \in FenceVector
<1>1. peer[p].fence \in FenceVector
  BY PeerFacts
<1>2. \A u \in FenceVector, c \in Component : [u EXCEPT ![c] = @ + 1] \in FenceVector
  BY DEF FenceVector
<1>3. \/ v = peer[p].fence
      \/ \E c \in Component : v = [peer[p].fence EXCEPT ![c] = @ + 1]
  <2>1. {"topology", "forwarding", "policy"} \subseteq Component
    BY DEF Component
  <2>2. CASE type \in {"SetTopology", "SetPolicy"}
    BY <2>1, <2>2 DEF Bound
  <2>3. CASE type = "FenceAdvance"
    BY <2>1, <2>3 DEF Bound
  <2>4. CASE type \notin {"SetTopology", "SetPolicy", "FenceAdvance"}
    BY <2>4 DEF Bound
  <2> QED BY <2>2, <2>3, <2>4
<1> QED BY <1>1, <1>2, <1>3

\* The first frame of a mailbox, and the others.
LEMMA HeadFacts ==
    ASSUME NEW S, NEW q \in Seq(S), q # <<>>
    PROVE  Head(q) \in S /\ Tail(q) \in Seq(S)
OBVIOUS

\* A request that is sent keeps the invariant.
LEMMA AskKeeps ==
    ASSUME IInv, NEW p \in Peer, Ask(p)
    PROVE  IInv'
<1> USE DEF IInv
<1> DEFINE type == Head(peer[p].left)
           phase == IF p \in Worker THEN "observing" ELSE "waiting"
<1>1. /\ peer[p].phase = "idle" /\ link[p] = "open" /\ peer[p].left # <<>>
      /\ UNCHANGED <<up, fence, finding, intents, sessions, greeting, backlog, link, outbox>>
  BY DEF Ask, Becomes, Elsewhere, runtime
<1>2. PICK v \in Bound(p, type) :
        /\ Sends(p, <<Sent(p, type, v, 0)>>)
        /\ peer' = [peer EXCEPT ![p] = [peer[p] EXCEPT
                !.phase = phase, !.sequence = @ + 1, !.left = Tail(@),
                !.asked = [type |-> type, fence |-> v]]]
  BY DEF Ask, Becomes
<1>3. /\ type \in DOMAIN Answer /\ type \in InType /\ Tail(peer[p].left) \in Seq(DOMAIN Answer)
      /\ type \notin {"ContainAck", "EffectReport"}
  <2>1. peer[p].left \in Seq(DOMAIN Answer)
    BY PeerFacts
  <2>2. type \in DOMAIN Answer /\ Tail(peer[p].left) \in Seq(DOMAIN Answer)
    BY <2>1, <1>1, HeadFacts
  <2> HIDE DEF type
  <2> QED BY <2>2, AnswerFacts DEF InType
<1> HIDE DEF type
<1>4. v \in FenceVector
  BY <1>2, BoundType
<1> DEFINE f == Sent(p, type, v, 0)
           asked == [type |-> type, fence |-> v]
           next == [peer[p] EXCEPT !.phase = phase, !.sequence = @ + 1, !.left = Tail(@),
                                   !.asked = asked]
<1>5. f \in InFrame /\ f.type = type /\ f.fence = v /\ f.sequence = peer[p].sequence + 1
  BY <1>3, <1>4, SentFacts
<1>6. asked \in Asked /\ asked.type = type /\ asked.fence = v
  BY <1>3, <1>4 DEF Asked
<1>7. /\ phase \in {"observing", "waiting"} /\ (phase = "waiting" <=> p \notin Worker)
  OBVIOUS
<1> HIDE DEF asked, phase
<1>8. /\ next \in PeerState /\ next.phase = phase /\ next.sequence = peer[p].sequence + 1
      /\ next.asked = asked /\ next.fence = peer[p].fence /\ next.handled = peer[p].handled
      /\ next.worker = peer[p].worker /\ next.late = peer[p].late
  <2>1. peer[p].sequence + 1 \in Nat /\ asked \in Asked \cup {NoOne} /\ phase \in Phase
    BY <1>6, <1>7, PeerFacts DEF Phase
  <2> QED BY <2>1, <1>3, PeerFacts DEF PeerState
<1>9. peer' = [peer EXCEPT ![p] = next]
  BY <1>2 DEF asked
<1> HIDE DEF next, f
<1>10. /\ peer' \in [Peer -> PeerState] /\ \A q \in Peer \ {p} : peer'[q] = peer[q]
       /\ peer'[p] = next
  BY <1>8, <1>9, PeerFacts
<1>11. /\ inbox' \in [Peer -> Seq(InFrame)] /\ \A q \in Peer \ {p} : inbox'[q] = inbox[q]
       /\ inbox'[p] = Append(inbox[p], f)
  <2>1. Sends(p, <<f>>)
    BY <1>2 DEF f
  <2> QED BY <2>1, <1>1, <1>5, SendsFacts
<1>12. PhasedOf(p) /\ BelievedOf(p) /\ ReportedOf(p) 
       /\ (p \in Operator => Alternate(p) /\ Awaiting(p))
  BY DEF Phased, Believed, Reported, Turns, TurnOf
<1>13. p \notin Stray /\ (p \in Operator <=> p \notin Worker)
  BY <1>1, <1>12, PeerAssumption DEF PhasedOf, Peer
<1>14. PeerStep(p)
  BY <1>1, <1>8, <1>10, <1>11 DEF PeerStep, Typed
<1>15. PhasedOf(p)'
  BY <1>7, <1>8, <1>10, <1>13 DEF PhasedOf
<1>16. BelievedOf(p)'
  BY <1>1, <1>8, <1>10, <1>12 DEF BelievedOf
<1>17. ReportedOf(p)'
  <2>1. \A k \in 1..Len(inbox'[p]) :
            \/ inbox'[p][k].type \notin {"ContainAck", "EffectReport"}
            \/ k \in 1..Len(inbox[p]) /\ inbox'[p][k] = inbox[p][k]
    BY <1>3, <1>5, <1>11, PeerFacts, AppendFacts
  <2>2. /\ peer'[p].handled = peer[p].handled /\ peer'[p].fence = peer[p].fence
        /\ intents' = intents /\ outbox' = outbox
    BY <1>1, <1>8, <1>10
  <2> QED BY <2>1, <2>2, <1>12 DEF ReportedOf
<1>18. ASSUME p \in Operator PROVE TurnOf(p)'
  <2>1. /\ peer'[p].phase = "waiting" /\ peer'[p].worker = peer[p].worker
        /\ peer'[p].late = peer[p].late /\ peer'[p].fence = peer[p].fence
        /\ peer'[p].asked = asked /\ peer'[p].sequence = f.sequence
    BY <1>5, <1>7, <1>8, <1>10, <1>13, <1>18
  <2>2. /\ inbox[p] \in Seq(InFrame) /\ Len(inbox'[p]) = Len(inbox[p]) + 1
        /\ inbox'[p][Len(inbox[p]) + 1] = f /\ Len(inbox[p]) \in Nat
        /\ \A k \in 1..Len(inbox[p]) : inbox'[p][k] = inbox[p][k]
    BY <1>5, <1>11, PeerFacts, AppendFacts
  <2>3. Alternate(p)'
    <3>1. ASSUME ~ peer[p].worker, ~ peer[p].late
          PROVE  /\ outbox'[p] = <<>> /\ Len(inbox'[p]) = 1
                 /\ inbox'[p][1].sequence = peer'[p].sequence
      <4>1. inbox[p] = <<>> /\ outbox[p] = <<>> /\ Len(inbox[p]) = 0
        BY <3>1, <1>1, <1>12, <1>18, EmptySeqFacts DEF Alternate
      <4> QED BY <4>1, <2>1, <2>2, <1>1
    <3> QED BY <3>1, <2>1 DEF Alternate
  <2>4. Awaiting(p)'
    <3>1. \A t : Bound(p, t)' = Bound(p, t)
      BY <2>1 DEF Bound
    <3>2. /\ f.sequence = peer'[p].sequence /\ f.type = peer'[p].asked.type
          /\ f.fence = peer'[p].asked.fence
      BY <2>1, <1>5, <1>6
    <3>3. \A k \in 1..Len(inbox'[p]) :
             \/ inbox'[p][k].type = "SubmitObservation"
             \/ k = Len(inbox'[p]) /\ inbox'[p][k] = f
      <4>1. \A k \in 1..Len(inbox[p]) : inbox[p][k].type = "SubmitObservation"
        BY <1>1, <1>12, <1>18 DEF Awaiting
      <4>2. \A k \in 1..Len(inbox'[p]) : k \in 1..Len(inbox[p]) \/ k = Len(inbox[p]) + 1
        BY <2>2
      <4> QED BY <4>1, <4>2, <2>2
    <3>4. \A k \in 1..Len(outbox'[p]) : outbox'[p][k].type \in Beside
      BY <1>1, <1>12, <1>18 DEF Awaiting
    <3>5. ASSUME Answer[type] \in Beside PROVE Below(v, fence')
      <4>1. type = "SubmitObservation"
        BY <3>5, <1>3, AnswerFacts
      <4>2. v = peer[p].fence
        BY <4>1, <1>2 DEF Bound
      <4> QED BY <4>2, <1>1, <1>12 DEF BelievedOf
    <3> HIDE DEF Beside
    <3>6. /\ peer'[p].asked \in Asked /\ peer'[p].asked.type = type
          /\ peer'[p].asked.fence = v /\ v \in Bound(p, type)
      BY <2>1, <1>2, <1>6
    <3>7. \A k \in 1..Len(inbox'[p]) :
             \/ inbox'[p][k].type = "SubmitObservation"
             \/ k = Len(inbox'[p]) /\ Requested(p, inbox[p][k])'
      BY <3>2, <3>3 DEF Requested
    <3> QED BY <3>1, <3>4, <3>5, <3>6, <3>7, <2>1 DEF Awaiting
  <2> QED BY <2>1, <2>3, <2>4 DEF TurnOf, Greeted
<1>19. Connected'
  BY <1>1, <1>7, <1>8, <1>10, SameConnections
<1> QED BY <1>1, <1>14, <1>15, <1>16, <1>17, <1>18, <1>19, PeerStepKeeps DEF Typed

\* What a stray peer sends are frames, and none is about an intent.
LEMMA StrayFacts ==
    ASSUME Typed, NEW p \in Peer, NEW frames \in StrayFrames(p)
    PROVE  /\ frames \in Seq(InFrame)
           /\ \A k \in 1..Len(frames) : frames[k].type \notin {"ContainAck", "EffectReport"}
<1> DEFINE Harmless == {f \in InFrame : f.type \notin {"ContainAck", "EffectReport"}}
           hello == Sent(p, "Hello", FirstFence, 0)
           query == [hello EXCEPT !.type = "FindingQuery"]
           next == [query EXCEPT !.sequence = 2]
           second == {hello, query, next, [hello EXCEPT !.sequence = 2],
                      [next EXCEPT !.session = @ + 1]}
<1>1. hello \in Harmless /\ hello.session \in SessionId
  <2>1. "Hello" \in InType /\ FirstFence \in FenceVector
    BY DEF InType, FirstFence, FenceVector
  <2>2. hello \in InFrame /\ hello.type = "Hello"
    BY <2>1, SentFacts
  <2>3. hello.session = Claims[p]
    BY DEF Sent
  <2> QED BY <2>2, <2>3, PeerFacts
<1>2. "FindingQuery" \in InType
  BY AnswerFacts DEF InType
<1> HIDE DEF hello
<1>3. query \in Harmless /\ query.session = hello.session
  BY <1>1, <1>2 DEF InFrame
<1> HIDE DEF query
<1>4. second \subseteq Harmless
  <2>1. next \in Harmless /\ next.session = query.session
    BY <1>3 DEF InFrame
  <2>2. [hello EXCEPT !.sequence = 2] \in Harmless
    BY <1>1 DEF InFrame
  <2>3. query.session + 1 \in Named
    BY <1>1, <1>3 DEF Named
  <2> HIDE DEF next
  <2>4. [next EXCEPT !.session = @ + 1] \in Harmless
    BY <2>1, <2>3 DEF InFrame
  <2> QED BY <2>1, <2>2, <2>4, <1>1, <1>3
<1>5. frames \in {<<>>, <<query>>} \cup {<<hello, f>> : f \in second}
  BY DEF StrayFrames, hello, query
<1> HIDE DEF second
<1>6. ASSUME NEW g \in Harmless PROVE g \in InFrame /\ g.type \notin {"ContainAck", "EffectReport"}
  OBVIOUS
<1> HIDE DEF Harmless
<1>7. CASE frames = <<>>
  BY <1>7, EmptySeqFacts
<1>8. CASE frames = <<query>>
  BY <1>3, <1>6, <1>8
<1>9. ASSUME NEW f \in second, frames = <<hello, f>>
      PROVE  /\ frames \in Seq(InFrame)
             /\ \A k \in 1..Len(frames) : frames[k].type \notin {"ContainAck", "EffectReport"}
  BY <1>1, <1>4, <1>6, <1>9
<1> QED BY <1>5, <1>7, <1>8, <1>9

\* A peer that connects and says hello keeps the invariant.
LEMMA ConnectKeeps ==
    ASSUME IInv, NEW p \in Peer, Connect(p)
    PROVE  IInv'
<1> USE DEF IInv
<1>1. /\ peer[p].phase = "new"
      /\ link' = [link EXCEPT ![p] = "open"] /\ backlog' = Append(backlog, p)
      /\ UNCHANGED <<up, fence, finding, intents, sessions, greeting, outbox>>
  BY DEF Connect, Becomes, Elsewhere, runtime
<1>2. /\ PhasedOf(p) /\ BelievedOf(p) /\ ReportedOf(p) /\ link[p] = "none"
      /\ link \in [Peer -> {"none", "open", "closed"}] /\ backlog \in Seq(Peer)
  BY <1>1 DEF Phased, Believed, Reported, Connected, Typed
<1>3. inbox[p] = <<>> /\ outbox[p] = <<>> /\ peer[p].handled = {}
  BY <1>1, <1>2 DEF PhasedOf
<1>4. ~ InSession(p) /\ ~ InBacklog(p) /\ p # greeting
  <2>1. ~ InSession(p)
    BY <1>2 DEF InSession, Connected
  <2>2. ~ InBacklog(p)
    BY <1>2 DEF InBacklog, Connected
  <2>3. p # greeting
    BY <1>2, PeerAssumption DEF Connected
  <2> QED BY <2>1, <2>2, <2>3
<1>5. ASSUME NEW frames \in Seq(InFrame), Sends(p, frames)
      PROVE  /\ inbox' \in [Peer -> Seq(InFrame)] /\ inbox'[p] = frames
             /\ \A q \in Peer \ {p} : inbox'[q] = inbox[q]
  <2>1. inbox[p] \o frames = frames
    BY <1>3, <1>5
  <2>2. inbox' = [inbox EXCEPT ![p] = frames]
    BY <1>2, <1>5, <2>1 DEF Sends
  <2> QED BY <2>2 DEF Typed
<1>6. ASSUME NEW next \in PeerState, peer' = [peer EXCEPT ![p] = next],
             next.phase \in {"hello", "stray"}, next.phase = "stray" <=> p \in Stray,
             next.fence = peer[p].fence, next.handled = {},
             NEW frames \in Seq(InFrame), inbox'[p] = frames,
             inbox' \in [Peer -> Seq(InFrame)], \A q \in Peer \ {p} : inbox'[q] = inbox[q],
             \A k \in 1..Len(frames) : frames[k].type \notin {"ContainAck", "EffectReport"},
             p \notin Stray => Len(frames) <= 1
      PROVE  IInv'
  <2>1. /\ peer' \in [Peer -> PeerState] /\ \A q \in Peer \ {p} : peer'[q] = peer[q]
        /\ peer'[p] = next
    BY <1>6, PeerFacts
  <2>2. PeerStep(p)
    BY <1>1, <1>3, <1>6, <2>1 DEF PeerStep, Typed
  <2>3. PhasedOf(p)'
    <3>1. ~ InSession(p)' /\ outbox'[p] = <<>>
      BY <1>1, <1>3, <1>4 DEF InSession
    <3> QED BY <3>1, <1>6, <2>1, PeerAssumption DEF PhasedOf
  <2>4. BelievedOf(p)'
    BY <1>1, <1>2, <1>6, <2>1 DEF BelievedOf
  <2>5. ReportedOf(p)'
    BY <1>1, <1>2, <1>6, <2>1 DEF ReportedOf
  <2>6. ASSUME p \in Operator PROVE TurnOf(p)'
    <3>1. p \notin Stray /\ peer'[p].phase = "hello" /\ outbox'[p] = <<>>
      BY <2>6, <2>1, <1>1, <1>3, <1>6, PeerAssumption
    <3>2. Greeted(p)' /\ Alternate(p)' /\ Awaiting(p)'
      BY <3>1, <1>6, EmptySeqFacts DEF Greeted, Alternate, Awaiting
    <3> QED BY <3>2 DEF TurnOf
  <2>7. backlog' \in Seq(Peer) /\ link' \in [Peer -> {"none", "open", "closed"}]
    BY <1>1, <1>2
  <2>8. Connected'
    <3>1. /\ Len(backlog') = Len(backlog) + 1 /\ backlog'[Len(backlog) + 1] = p
          /\ \A k \in 1..Len(backlog) : backlog'[k] = backlog[k]
          /\ Len(backlog) \in Nat
      BY <1>1, <1>2, AppendFacts
    <3>2. \A s \in DOMAIN sessions : sessions[s].conn # p /\ link'[sessions[s].conn] = "open"
      BY <1>1, <1>2, <1>4 DEF InSession, Connected, Typed, Entry
    <3>7. ASSUME NEW s \in DOMAIN sessions PROVE KindKept(s)'
      <4>1. KindKept(s) /\ sessions[s].conn \in Peer
        BY DEF Connected, Typed, Entry
      <4> QED BY <4>1, <3>2, <2>1, <1>1 DEF KindKept
    <3>3. \A k \in 1..Len(backlog) : backlog[k] # p /\ link'[backlog[k]] = "open"
      BY <1>1, <1>2, <1>4 DEF InBacklog, Connected
    <3>4. greeting # NoOne =>
             link'[greeting] = "open" /\ ~ InSession(greeting)' /\ ~ InBacklog(greeting)'
      <4> SUFFICES ASSUME greeting # NoOne
                   PROVE  link'[greeting] = "open" /\ ~ InSession(greeting) /\
                          \A k \in 1..Len(backlog') : backlog'[k] # greeting
        BY <1>1 DEF InSession, InBacklog
      <4>1. link[greeting] = "open" /\ ~ InSession(greeting) /\ ~ InBacklog(greeting)
        BY DEF Connected
      <4>2. greeting \in Peer
        BY DEF Typed
      <4>3. \A k \in 1..Len(backlog') : k \in 1..Len(backlog) \/ k = Len(backlog) + 1
        BY <3>1
      <4> QED BY <4>1, <4>2, <4>3, <3>1, <1>1, <1>2, <1>4 DEF InBacklog
    <3>5. ASSUME NEW k \in 1..Len(backlog')
          PROVE  /\ link'[backlog'[k]] = "open"
                 /\ \A s \in DOMAIN sessions : sessions[s].conn # backlog'[k]
                 /\ \A m \in 1..Len(backlog') : backlog'[m] = backlog'[k] => m = k
      <4>1. \A m \in 1..Len(backlog') : m \in 1..Len(backlog) \/ m = Len(backlog) + 1
        BY <3>1
      <4>2. CASE k = Len(backlog) + 1
        BY <4>1, <4>2, <3>1, <3>2, <3>3, <1>1, <1>2
      <4>3. CASE k \in 1..Len(backlog)
        BY <4>1, <4>3, <3>1, <3>2, <3>3 DEF Connected, InSession
      <4> QED BY <4>1, <4>2, <4>3
    <3>6. \A q \in Peer : peer'[q].phase = "new" => link'[q] = "none"
      BY <1>1, <1>2, <1>6, <2>1 DEF Connected
    <3> QED BY <3>2, <3>4, <3>5, <3>6, <3>7, <1>1 DEF Connected, InSession
  <2> QED BY <2>2, <2>3, <2>4, <2>5, <2>6, <2>7, <2>8, PeerStepKeeps
<1>7. CASE p \in Stray
  <2>1. PICK frames \in StrayFrames(p) : Sends(p, frames)
    BY <1>7 DEF Connect
  <2>2. frames \in Seq(InFrame)
        /\ \A k \in 1..Len(frames) : frames[k].type \notin {"ContainAck", "EffectReport"}
    BY StrayFacts
  <2> DEFINE next == [peer[p] EXCEPT !.phase = "stray"]
  <2>3. peer' = [peer EXCEPT ![p] = next]
    BY <1>7 DEF Connect, Becomes
  <2>4. /\ next \in PeerState /\ next.phase = "stray" /\ next.fence = peer[p].fence
        /\ next.handled = {}
    BY <1>3, PeerFacts DEF PeerState, Phase
  <2> HIDE DEF next
  <2> QED BY <2>1, <2>2, <2>3, <2>4, <1>5, <1>6, <1>7
<1>8. CASE p \notin Stray
  <2> DEFINE f == Sent(p, "Hello", FirstFence, 0)
  <2>1. Sends(p, <<f>>)
    BY <1>8 DEF Connect
  <2>2. f \in InFrame /\ f.type = "Hello"
    <3>1. "Hello" \in InType /\ FirstFence \in FenceVector
      BY DEF InType, FirstFence, FenceVector
    <3> QED BY <3>1, SentFacts
  <2>3. PICK script \in Scripts[p], kind \in Kinds(p) :
           peer' = [peer EXCEPT ![p] = [peer[p] EXCEPT !.phase = "hello", !.worker = kind,
                                                       !.sequence = 1, !.left = script]]
    BY <1>8 DEF Connect, Becomes
  <2>4. script \in Seq(DOMAIN Answer) /\ kind \in BOOLEAN
    <3>1. kind \in BOOLEAN
      BY DEF Kinds
    <3> QED BY <3>1, <1>8, ScriptAssumption, PeerAssumption DEF Peer
  <2> DEFINE next == [peer[p] EXCEPT !.phase = "hello", !.worker = kind, !.sequence = 1,
                                     !.left = script]
  <2>5. /\ next \in PeerState /\ next.phase = "hello" /\ next.fence = peer[p].fence
        /\ next.handled = {}
    BY <1>3, <2>4, PeerFacts DEF PeerState, Phase
  <2> HIDE DEF next, f
  <2>6. /\ <<f>> \in Seq(InFrame) /\ Len(<<f>>) = 1
        /\ \A k \in 1..Len(<<f>>) : <<f>>[k].type \notin {"ContainAck", "EffectReport"}
    BY <2>2
  <2>7. /\ inbox' \in [Peer -> Seq(InFrame)] /\ inbox'[p] = <<f>>
        /\ \A q \in Peer \ {p} : inbox'[q] = inbox[q]
    BY <2>1, <2>6, <1>5
  <2>8. peer' = [peer EXCEPT ![p] = next]
    BY <2>3 DEF next
  <2> DEFINE frames == <<f>>
  <2> HIDE DEF frames
  <2>9. /\ frames \in Seq(InFrame) /\ Len(frames) <= 1 /\ inbox'[p] = frames
        /\ \A k \in 1..Len(frames) : frames[k].type \notin {"ContainAck", "EffectReport"}
    BY <2>6, <2>7 DEF frames
  <2> QED BY <2>5, <2>7, <2>8, <2>9, <1>6, <1>8
<1> QED BY <1>7, <1>8

\* A peer that reads a frame keeps the invariant.
LEMMA TakeKeeps ==
    ASSUME IInv, NEW p \in Peer, Take(p)
    PROVE  IInv'
<1>1. \/ TakeHelloAck(p, Head(outbox[p])) \/ TakeAnswer(p, Head(outbox[p]))
      \/ TakeAnything(p, Head(outbox[p])) \/ TakeIntent(p, Head(outbox[p]))
  BY DEF Take
<1> QED BY <1>1, TakeHelloAckKeeps, TakeAnswerKeeps, TakeAnythingKeeps, TakeIntentKeeps

-----------------------------------------------------------------------------
(* The invariant *)

\* The initial state satisfies the invariant.
LEMMA InitEstablishes ==
    ASSUME Init
    PROVE  IInv
<1> USE DEF Init
<1>1. FirstFence \in FenceVector /\ Below(FirstFence, FirstFence)
  BY DEF FirstFence, FenceVector, Below, Component
<1>2. DOMAIN sessions = {} /\ backlog = <<>> /\ Len(backlog) = 0 /\ intents = <<>> /\ DOMAIN intents = {}
  BY EmptySeqFacts
<1>3. ASSUME NEW p \in Peer
      PROVE  /\ peer[p] \in PeerState /\ peer[p].phase = "new" /\ peer[p].fence = FirstFence
             /\ peer[p].handled = {} /\ inbox[p] = <<>> /\ outbox[p] = <<>>
             /\ link[p] = "none"
  BY <1>1, EmptySeqFacts DEF PeerState, Phase
<1>4. Typed
  <2>1. sessions \in [DOMAIN sessions -> Entry]
    BY <1>2
  <2>2. /\ intents \in Seq(Intent) /\ backlog \in Seq(Peer)
        /\ inbox \in [Peer -> Seq(InFrame)] /\ outbox \in [Peer -> Seq(OutFrame)]
        /\ peer \in [Peer -> PeerState] /\ link \in [Peer -> {"none", "open", "closed"}]
    BY <1>3, EmptySeqFacts
  <2> QED BY <2>1, <2>2, <1>1 DEF Typed
<1>5. Connected
  BY <1>2, <1>3 DEF Connected
<1>6. Phased /\ Believed
  BY <1>1, <1>2, <1>3, EmptySeqFacts DEF Phased, PhasedOf, Believed, BelievedOf
<1>7. Turns
  BY <1>3 DEF Turns, TurnOf, Greeted, Alternate, Awaiting, Peer
<1>8. Reported
  BY <1>3, EmptySeqFacts DEF Reported, ReportedOf
<1>9. VerifiedUnderItsFence
  BY <1>2 DEF VerifiedUnderItsFence
<1> QED BY <1>4, <1>5, <1>6, <1>7, <1>8, <1>9 DEF IInv

\* Every step keeps the invariant.
LEMMA NextKeeps ==
    ASSUME IInv, [Next]_vars
    PROVE  IInv'
<1>1. CASE Accept
  BY <1>1, AcceptKeeps
<1>2. CASE Greet
  BY <1>2, GreetKeeps
<1>3. CASE GreetExpires \/ Killed \/ Restart
  BY <1>3, GreetExpiresKeeps, KilledKeeps, RestartKeeps
<1>4. ASSUME NEW s \in DOMAIN sessions, Serve(s) PROVE IInv'
  BY <1>4, HandleKeeps, PeerClosedKeeps DEF Serve
<1>5. ASSUME NEW p \in Peer,
             \/ Connect(p) \/ Ask(p) \/ Take(p)
             \/ BeginServing(p) \/ GiveUp(p) \/ Leave(p)
      PROVE  IInv'
  BY <1>5, ConnectKeeps, AskKeeps, TakeKeeps, BeginServingKeeps, GiveUpKeeps, LeaveKeeps
<1>6. CASE UNCHANGED vars
  <2>1. /\ UNCHANGED <<runtime, inbox, outbox, peer>>
        /\ UNCHANGED <<up, sessions, greeting, backlog, link>>
    BY <1>6 DEF vars
  <2>2. Typed'
    BY <2>1 DEF IInv, Typed, runtime
  <2>3. Connected' /\ \A q \in Peer : InSession(q)' => InSession(q)
    BY <2>1 DEF IInv, Connected, InSession, InBacklog, KindKept
  <2> QED BY <2>1, <2>2, <2>3, QuietKeeps
<1> QED BY <1>1, <1>2, <1>3, <1>4, <1>5, <1>6 DEF Next

\* The invariant holds in every reachable state of any deployment.
THEOREM Invariance == Spec => []IInv
<1>1. Init => IInv
  BY InitEstablishes
<1>2. IInv /\ [Next]_vars => IInv'
  BY NextKeeps
<1> QED BY <1>1, <1>2, PTL DEF Spec

\* The state is of its types, and each session has an open connection of its own
\* (Coordinator::sessions).
THEOREM SessionTyped == Spec => []TypeOK
<1>1. IInv => TypeOK
  BY DEF IInv, Typed, Connected, TypeOK
<1> QED BY <1>1, Invariance, PTL

\* What an operator takes for the answer to a request is the answer to it, except
\* that an observation may get the late answer to another one; and no other frame
\* is in the way of one that is no worker and has had the answer to each of its
\* observations (expect and the observe step in lgctl.cpp, the dispatch of intents
\* in ContainAuthorize).
THEOREM OperatorsReadTheirAnswers == Spec => []OperatorReadsItsAnswer
<1>1. ASSUME IInv PROVE OperatorReadsItsAnswer
  <2> SUFFICES ASSUME NEW p \in Operator, peer[p].phase = "waiting", outbox[p] # <<>>
               PROVE  /\ outbox[p][1].type = Answer[peer[p].asked.type] =>
                            \/ peer[p].asked.type = "SubmitObservation"
                            \/ outbox[p][1].re = peer[p].sequence
                      /\ ~ peer[p].worker /\ ~ peer[p].late =>
                            Len(outbox[p]) = 1 /\ outbox[p][1].re = peer[p].sequence
    BY <1>1 DEF OperatorReadsItsAnswer, IInv, Typed, Peer
  <2>1. Alternate(p) /\ Awaiting(p) /\ outbox[p] \in Seq(OutFrame)
    BY <1>1 DEF IInv, Turns, TurnOf, Typed, Peer
  <2>2. 1 \in 1..Len(outbox[p])
    BY <2>1, TailFacts
  <2>3. ASSUME outbox[p][1].type = Answer[peer[p].asked.type],
               peer[p].asked.type # "SubmitObservation"
        PROVE  outbox[p][1].re = peer[p].sequence
    <3>1. outbox[p][1].type \notin Beside
      BY <2>1, <2>3, AnswerFacts DEF Awaiting, Asked
    <3> QED BY <3>1, <2>1, <2>2 DEF Awaiting
  <2>4. ~ peer[p].worker /\ ~ peer[p].late =>
            Len(outbox[p]) = 1 /\ outbox[p][1].re = peer[p].sequence
    BY <2>1 DEF Alternate
  <2> QED BY <2>3, <2>4
<1> QED BY <1>1, Invariance, PTL

\* No peer takes for the fence in force what is not or was not (FenceAdvance,
\* SetTopology; the fence that lgctl.cpp and lg_worker.cpp keep).
THEOREM ViewsAreNotAhead == Spec => []ViewIsNotAhead
<1>1. IInv => ViewIsNotAhead
  BY DEF IInv, Believed, BelievedOf, Below, ViewIsNotAhead
<1> QED BY <1>1, Invariance, PTL

\* Containment is verified by a worker that has taken the intent, and shook hands
\* under the fence it was issued under (ContainAck, EffectReport).
THEOREM VerificationIsOwned == Spec => []VerifiedUnderItsFence
<1>1. IInv => VerifiedUnderItsFence
  BY DEF IInv
<1> QED BY <1>1, Invariance, PTL

\* A session keeps the connection that shook hands for it (handle_hello).
THEOREM SessionsStayBound == Spec => SessionStaysBound
<1> DEFINE StaysBound == \A s \in DOMAIN sessions \cap DOMAIN sessions' :
                        sessions'[s].conn = sessions[s].conn
<1>1. ASSUME IInv, [Next]_vars PROVE StaysBound
  <2> USE <1>1 DEF IInv
  <2>1. CASE UNCHANGED sessions
    BY <2>1
  <2>2. CASE Greet
    <3>1. \/ Welcomed(greeting, Head(inbox[greeting]))
          \/ TurnedAway(greeting)
      BY <2>2, GreetFacts
    <3> QED BY <3>1 DEF Welcomed, TurnedAway
  <2>3. ASSUME NEW s \in DOMAIN sessions, Serve(s) PROVE StaysBound
    <3>1. CASE Handle(s)
      <4>1. RuntimeGoesOn(s) /\ Outcome(s)
        BY <3>1, HandleFacts
      <4> QED BY <4>1, HandleSessions
    <3>2. CASE PeerClosed(s)
      <4>1. sessions' = [t \in DOMAIN sessions \ {s} |-> sessions[t]]
        BY <3>2 DEF PeerClosed, Forget, Restrict
      <4> QED BY <4>1
    <3> QED BY <2>3, <3>1, <3>2 DEF Serve
  <2>4. CASE Accept \/ GreetExpires \/ Restart
    BY <2>1, <2>4 DEF Accept, GreetExpires, Restart
  <2>5. CASE Killed
    <3>1. DOMAIN sessions' = {}
      BY <2>5 DEF Killed, Exit
    <3> QED BY <3>1
  <2>6. ASSUME NEW p \in Peer,
               \/ Connect(p) \/ Ask(p) \/ Take(p)
               \/ BeginServing(p) \/ GiveUp(p) \/ Leave(p)
        PROVE  StaysBound
    <3>1. UNCHANGED sessions
      BY <2>6 DEF Connect, Ask, Take, TakeHelloAck, TakeAnswer, NoAnswer, TakeAnything,
                  TakeIntent, BeginServing, GiveUp, Leave, Becomes, Elsewhere
    <3> QED BY <2>1, <3>1
  <2>7. CASE UNCHANGED vars
    BY <2>1, <2>7 DEF vars
  <2> QED BY <2>2, <2>3, <2>4, <2>5, <2>6, <2>7 DEF Next
<1>2. IInv /\ [Next]_vars => [StaysBound]_vars
  BY <1>1
<1> QED BY <1>2, Invariance, PTL DEF Spec, SessionStaysBound

=============================================================================
