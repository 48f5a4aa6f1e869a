------------------------------- MODULE Session -------------------------------
(***************************************************************************)
(* The coordinator process and its peers: the handshake, the loop that     *)
(* takes one frame of one session at a time, the dispatch of every message *)
(* to the runtime, the operators (lgctl) that ask and wait, and the        *)
(* workers (lg_worker) that report observations, acknowledge intents and   *)
(* report effects.  Connections deliver frames in order, as Transport      *)
(* does while no send is given up.                                         *)
(*                                                                         *)
(* The runtime is kept to what sessions see of it: the fence, the finding  *)
(* in force and the intents issued.  Whether the evidence proves a loop is *)
(* a choice; a loop that is proved has a plan with targets.                *)
(***************************************************************************)
EXTENDS Naturals, Sequences, FiniteSets, Functions

CONSTANTS
    Operator, Worker,
    AsWorker,       \* the operators that may be started with --as-worker
    Stray,          \* peers that follow no protocol
    Claims,         \* the session identity each peer claims
    NoOne,          \* no connection, no assessment
    Scripts,        \* the scripts each peer may run: sequences of requests
    MaxPeers        \* bound: the peers that ever connect, one less per restart

Peer == Operator \cup Worker \cup Stray
SessionId == Range(Claims)

ASSUME PeerAssumption ==
    /\ DOMAIN Claims = Peer /\ NoOne \notin Peer
    /\ Operator \cap Worker = {} /\ Stray \cap (Operator \cup Worker) = {}
    /\ AsWorker \subseteq Operator
    /\ DOMAIN Scripts = Operator \cup Worker
    /\ MaxPeers \in Nat

VARIABLES
    up,             \* the coordinator process runs
    boot,           \* how often it was started with this store
    fence,          \* the runtime's fence, as far as sessions move it
    finding,        \* "none", "published" or "planned" under that fence
    intents,        \* the intents issued, and what was reported of each
    sessions,       \* Coordinator::sessions
    greeting,       \* the accepted connection whose first frame is awaited
    backlog,        \* connections not accepted yet
    link,           \* the state of each connection
    inbox,          \* frames of each peer that the coordinator did not receive yet
    outbox,         \* frames that each peer did not receive yet
    peer            \* what each peer process knows

runtime == <<fence, finding, intents>>
vars == <<up, boot, runtime, sessions, greeting, backlog, link, inbox, outbox, peer>>

-----------------------------------------------------------------------------
(* Data *)

Component == {"topology", "forwarding", "policy"}
FenceVector == [Component -> Nat]
FirstFence == [c \in Component |-> 1]

\* The reply that an operator waits for after each of its requests.
Answer ==
    [SetTopology |-> "ConfigurationAccepted", SetPolicy |-> "ConfigurationAccepted",
     FenceAdvance |-> "ConfigurationAccepted",
     FindingWithdraw |-> "ConfigurationAccepted",
     SubmitObservation |-> "ObservationAccepted",
     DetectRequest |-> "AssessmentReply", PlanRequest |-> "PlanReply",
     ContainAuthorize |-> "PlanReply", FindingPublish |-> "FindingReply",
     FindingQuery |-> "FindingReply"]

ASSUME ScriptAssumption ==
    \A p \in DOMAIN Scripts : Scripts[p] \subseteq Seq(DOMAIN Answer)

Intent == [fence : FenceVector, acked : BOOLEAN, verified : BOOLEAN]

\* A frame to the coordinator: the fence it binds and the intent it is about,
\* where its type has one.
Sent(p, type, bound, about) ==
    [type |-> type, session |-> Claims[p], sequence |-> peer[p].sequence + 1,
     fence |-> bound, intent |-> about]

\* A frame to a peer.  `re` is the sequence of the request it answers.
Reply(type, f, ok) == [type |-> type, re |-> f.sequence, ok |-> ok]

ContainIntent(i) == [type |-> "ContainIntent", re |-> 0, intent |-> i]

-----------------------------------------------------------------------------

Init ==
    /\ up = TRUE /\ boot = 1
    /\ fence = FirstFence /\ finding = "none" /\ intents = <<>>
    /\ sessions = [s \in {} |-> NoOne]
    /\ greeting = NoOne /\ backlog = <<>>
    /\ link = [p \in Peer |-> "none"]
    /\ inbox = [p \in Peer |-> <<>>] /\ outbox = [p \in Peer |-> <<>>]
    /\ peer = [p \in Peer |->
                  [phase |-> "new", worker |-> FALSE, late |-> FALSE,
                   fence |-> FirstFence, sequence |-> 0, asked |-> NoOne,
                   left |-> <<>>, handled |-> {}]]

-----------------------------------------------------------------------------
(* The coordinator: connections *)

Closed(p) == link' = [link EXCEPT ![p] = "closed"]

\* outbox[p] after a frame was sent.  What is sent to a peer that has ended is
\* lost; a stray peer ignores it.
With(p, f) ==
    IF peer[p].phase \in {"gone", "stray"} THEN outbox[p] ELSE Append(outbox[p], f)

Accept ==
    /\ up /\ greeting = NoOne /\ backlog # <<>>
    /\ greeting' = Head(backlog) /\ backlog' = Tail(backlog)
    /\ UNCHANGED <<up, boot, runtime, sessions, link, inbox, outbox, peer>>

\* A session is a worker's if the Hello says so.
Registered(p) ==
    [conn |-> p, worker |-> peer[p].worker, inbound |-> 1, assessed |-> NoOne]

\* Mutant: a session identity that is bound may be claimed again.
ClaimableAlways(s) == TRUE

\* handle_hello: the identity is not bound to another connection.
Claimable(s) == s \notin DOMAIN sessions

\* The first frame of a connection makes it a session, or is its end.
Greet ==
    /\ up /\ greeting # NoOne /\ inbox[greeting] # <<>>
    /\ LET f == Head(inbox[greeting])
           ack(ok) == [type |-> "HelloAck", re |-> f.sequence, ok |-> ok,
                       fence |-> fence]
       IN  \/ /\ f.type = "Hello" /\ Claimable(f.session)
              /\ sessions' = [s \in DOMAIN sessions \cup {f.session} |->
                                IF s = f.session THEN Registered(greeting)
                                ELSE sessions[s]]
              /\ outbox' = [outbox EXCEPT ![greeting] = With(greeting, ack(TRUE))]
              /\ UNCHANGED link
           \/ /\ f.type = "Hello" /\ ~Claimable(f.session)
              /\ outbox' = [outbox EXCEPT ![greeting] = With(greeting, ack(FALSE))]
              /\ Closed(greeting)
              /\ UNCHANGED sessions
           \/ /\ f.type # "Hello"
              /\ Closed(greeting)
              /\ UNCHANGED <<sessions, outbox>>
    /\ inbox' = [inbox EXCEPT ![greeting] =
                    IF link'[greeting] = "closed" THEN <<>> ELSE Tail(@)]
    /\ greeting' = NoOne
    /\ UNCHANGED <<up, boot, runtime, backlog, peer>>

\* No frame within the second that the coordinator waits for it, serving no
\* session meanwhile; or the peer has closed.
GreetExpires ==
    /\ up /\ greeting # NoOne /\ inbox[greeting] = <<>>
    /\ Closed(greeting)
    /\ greeting' = NoOne
    /\ UNCHANGED <<up, boot, runtime, sessions, backlog, inbox, outbox, peer>>

\* Mutant: the entry of a session outlives its connection.
ForgetLate(s) == UNCHANGED sessions

Forget(s) == sessions' = Restrict(sessions, DOMAIN sessions \ {s})

\* receive_frame reports that the peer has closed.
PeerClosed(s) ==
    LET p == sessions[s].conn IN
    /\ up /\ greeting = NoOne
    /\ inbox[p] = <<>> /\ peer[p].phase = "gone"
    /\ Forget(s) /\ Closed(p)
    /\ UNCHANGED <<up, boot, runtime, greeting, backlog, inbox, outbox, peer>>

\* The process ends: at a commit (--exit-before-commit, --exit-after-commit), or
\* killed.  What a peer has not received by then it does not receive.
Exit ==
    /\ up' = FALSE
    /\ sessions' = [s \in {} |-> NoOne]
    /\ greeting' = NoOne /\ backlog' = <<>>
    /\ link' = [p \in Peer |-> IF link[p] = "open" THEN "closed" ELSE link[p]]
    /\ outbox' = [p \in Peer |-> <<>>]

\* Bound: the process is started again only while a peer may come after it.
Starts == Cardinality({p \in Peer : peer[p].phase # "new"}) + boot

\* It is killed.  Between two frames is enough: what the last one was answered
\* may be lost as well, as if it had been killed in the middle of it.
Killed ==
    /\ up /\ Starts < MaxPeers /\ Exit
    /\ inbox' = [p \in Peer |-> IF link'[p] = "closed" THEN <<>> ELSE inbox[p]]
    /\ UNCHANGED <<boot, runtime, peer>>

\* Mutant: the forwarding generation starts over.
ReopenedAnew == [fence EXCEPT !["forwarding"] = 1]

\* The fence that the store has: definitions and generations are restored.
Reopened == fence

\* It is started again with the same store, which has no finding in force and no
\* intent for its new boot; the generations of its default topology and policy
\* follow those of the store (--ring).  It may end in between.
Restart ==
    /\ ~ up /\ Starts < MaxPeers /\ boot' = boot + 1
    /\ \/ up' = TRUE /\ fence' = Reopened
       \/ /\ up' = TRUE
          /\ fence' = [Reopened EXCEPT !["topology"] = @ + 1, !["policy"] = @ + 1]
       \/ up' = FALSE /\ fence' = [Reopened EXCEPT !["topology"] = @ + 1]
    /\ finding' = "none"
    /\ UNCHANGED <<intents, sessions, greeting, backlog, link, inbox, outbox, peer>>

-----------------------------------------------------------------------------
(* The coordinator: one frame of one session *)

Serving(s, f) ==
    /\ sessions' = [sessions EXCEPT ![s].inbound = f.sequence]
    /\ UNCHANGED <<up, greeting, backlog, link>>

Answered(s, f, type, ok) ==
    LET p == sessions[s].conn IN
    outbox' = [outbox EXCEPT ![p] = With(p, Reply(type, f, ok))]

\* Frames that end the session: another's identity or a repeated sequence, each
\* answered with an error first, and Bye.
EndSession(s, f) ==
    /\ \/ /\ f.session # s \/ f.sequence <= sessions[s].inbound
          /\ Answered(s, f, "Error", FALSE)
       \/ /\ f.session = s /\ f.sequence > sessions[s].inbound
          /\ f.type = "Bye"
          /\ UNCHANGED outbox
    /\ Forget(s) /\ Closed(sessions[s].conn)
    /\ UNCHANGED <<up, runtime, greeting, backlog>>

\* Mutant: a refusal is not answered.
RefuseSilently(s, f) ==
    /\ Serving(s, f)
    /\ UNCHANGED <<runtime, outbox>>

\* reply_error
Refuse(s, f) ==
    /\ Answered(s, f, "Error", FALSE)
    /\ Serving(s, f)
    /\ UNCHANGED runtime

\* A move of the fence takes the finding with it.
Moved(v) ==
    /\ fence' = v
    /\ finding' = IF v = fence THEN finding ELSE "none"
    /\ UNCHANGED intents

\* SetTopology and SetPolicy.  The process may end before the commit, or after
\* it and before the reply.
Install(s, f) ==
    /\ f.type \in {"SetTopology", "SetPolicy"}
    /\ LET c == IF f.type = "SetTopology" THEN "topology" ELSE "policy"
           committed == Moved([fence EXCEPT ![c] = f.fence[c]])
       IN  \/ /\ f.fence[c] > fence[c]
              /\ committed
              /\ \/ Exit
                 \/ Serving(s, f) /\ Answered(s, f, Answer[f.type], TRUE)
           \/ f.fence[c] <= fence[c] /\ Refuse(s, f)
           \/ Exit /\ UNCHANGED runtime

\* The first of the components that the request advances, and no other.
Advanced(v) ==
    IF v["topology"] > fence["topology"]
    THEN [fence EXCEPT !["topology"] = v["topology"]]
    ELSE IF v["forwarding"] > fence["forwarding"]
    THEN [fence EXCEPT !["forwarding"] = v["forwarding"]]
    ELSE fence

\* Answered in the same way whether or not a component moved.
FenceAdvance(s, f) ==
    /\ f.type = "FenceAdvance"
    /\ Moved(Advanced(f.fence))
    /\ \/ Serving(s, f) /\ Answered(s, f, Answer[f.type], TRUE)
       \/ fence'["topology"] # fence["topology"] /\ Exit

\* Requests that leave what is modelled here as it is.
Report(s, f) ==
    /\ f.type \in {"SubmitObservation", "FindingQuery"}
    /\ Serving(s, f) /\ Answered(s, f, Answer[f.type], TRUE)
    /\ UNCHANGED runtime

FindingWithdraw(s, f) ==
    /\ f.type = "FindingWithdraw"
    /\ finding' = "none"
    /\ Serving(s, f) /\ Answered(s, f, Answer[f.type], TRUE)
    /\ UNCHANGED <<fence, intents>>

DetectRequest(s, f) ==
    /\ f.type = "DetectRequest"
    /\ IF f.fence = fence
       THEN /\ sessions' = [sessions EXCEPT ![s].inbound = f.sequence,
                                            ![s].assessed = fence]
            /\ Answered(s, f, Answer[f.type], TRUE)
            /\ UNCHANGED <<up, greeting, backlog, link, runtime>>
       ELSE Refuse(s, f)

\* Whether the evidence still proves what the session was told is a choice.
FindingPublish(s, f) ==
    /\ f.type = "FindingPublish"
    /\ \/ /\ sessions[s].assessed = fence
          /\ finding' = IF finding = "none" THEN "published" ELSE finding
          /\ \/ Serving(s, f) /\ Answered(s, f, Answer[f.type], TRUE)
             \/ Exit
          /\ UNCHANGED <<fence, intents>>
       \/ Refuse(s, f)
       \/ sessions[s].assessed # NoOne /\ Exit /\ UNCHANGED runtime

\* An older assessment may still be planned for, under the same policy; its plan
\* is no live finding's.
PlanRequest(s, f) ==
    /\ f.type = "PlanRequest"
    /\ LET a == sessions[s].assessed IN
       IF a # NoOne /\ a["policy"] = fence["policy"]
       THEN /\ finding' =
                  IF finding # "none" /\ a = fence THEN "planned" ELSE finding
            /\ Serving(s, f) /\ Answered(s, f, Answer[f.type], TRUE)
            /\ UNCHANGED <<fence, intents>>
       ELSE Refuse(s, f)

\* Mutant: the intent goes to every other session.
ReceiversAll(s) == {sessions[t].conn : t \in DOMAIN sessions \ {s}}

\* The intent goes to every worker session but the one that asked for it.
Receivers(s) ==
    {sessions[t].conn : t \in {r \in DOMAIN sessions \ {s} : sessions[r].worker}}

\* Refused also for another finding, or a plan or a grant that does not
\* authorize.
ContainAuthorize(s, f) ==
    /\ f.type = "ContainAuthorize"
    /\ \/ /\ f.fence = fence /\ finding = "planned"
          /\ intents' = Append(intents,
                [fence |-> fence, acked |-> FALSE, verified |-> FALSE])
          /\ outbox' = [p \in Peer |->
                IF p = sessions[s].conn
                THEN With(p, Reply("PlanReply", f, TRUE))
                ELSE IF p \in Receivers(s)
                THEN With(p, ContainIntent(Len(intents')))
                ELSE outbox[p]]
          /\ Serving(s, f)
          /\ UNCHANGED <<fence, finding>>
       \/ Refuse(s, f)

\* Mutant: an effect is recorded under the fence in force, whatever it names.
ObservedUnderCurrent(f) == fence

\* The fence that the reporter observed the effect under.
ObservedUnder(f) == f.fence

\* ContainAck and EffectReport, recorded if the runtime agrees and answered in
\* the same way if not.
ContainReport(s, f) ==
    /\ f.type \in {"ContainAck", "EffectReport"}
    /\ LET i == f.intent
           current == intents[i].fence = fence
       IN  intents' = [intents EXCEPT
               ![i].acked = @ \/ (f.type = "ContainAck" /\ current),
               ![i].verified = @ \/ /\ f.type = "EffectReport" /\ current
                                    /\ ObservedUnder(f) = fence]
    /\ Serving(s, f) /\ Answered(s, f, "ObservationAccepted", TRUE)
    /\ UNCHANGED <<fence, finding>>

\* Frames that only the coordinator sends, and a second Hello.
Unsupported(s, f) ==
    /\ f.type \in {"Hello", "HelloAck", "ContainIntent"}
    /\ Refuse(s, f)

\* handle_frame
Handle(s) ==
    LET p == sessions[s].conn
        f == Head(inbox[p])
    IN  /\ up /\ greeting = NoOne /\ inbox[p] # <<>>
        /\ UNCHANGED <<boot, peer>>
        /\ \/ EndSession(s, f)
           \/ /\ f.session = s /\ f.sequence > sessions[s].inbound
              /\ \/ Install(s, f) \/ FenceAdvance(s, f)
                 \/ Report(s, f) \/ FindingWithdraw(s, f)
                 \/ DetectRequest(s, f) \/ FindingPublish(s, f)
                 \/ PlanRequest(s, f) \/ ContainAuthorize(s, f)
                 \/ ContainReport(s, f) \/ Unsupported(s, f)
        /\ inbox' = [q \in Peer |->
              IF link'[q] = "closed" THEN <<>>
              ELSE IF q = p THEN Tail(inbox[p]) ELSE inbox[q]]

Serve(s) == s \in DOMAIN sessions /\ (Handle(s) \/ PeerClosed(s))

-----------------------------------------------------------------------------
(* Peers *)

\* What peers do changes nothing in the coordinator.
Elsewhere == UNCHANGED <<up, boot, runtime, sessions, greeting>>

Becomes(p, state) ==
    /\ peer' = [peer EXCEPT ![p] = state]
    /\ Elsewhere

Sends(p, frames) ==
    inbox' = [inbox EXCEPT ![p] =
                 IF link[p] = "closed" THEN <<>> ELSE @ \o frames]

\* What the properties still read of a peer that has ended.
Gone(p) ==
    [peer[p] EXCEPT !.phase = "gone", !.worker = FALSE, !.late = FALSE,
                    !.sequence = 0, !.asked = NoOne, !.left = <<>>]

\* What a stray peer sends at once: nothing, a frame that is no Hello, or after
\* a Hello a frame that may repeat its sequence or name another's session.
StrayFrames(p) ==
    LET hello == Sent(p, "Hello", FirstFence, 0)
        query == [hello EXCEPT !.type = "FindingQuery"]
        next == [query EXCEPT !.sequence = 2]
        second == {hello, query, next, [hello EXCEPT !.sequence = 2],
                   [next EXCEPT !.session = @ + 1]}
    IN  {<<>>, <<query>>} \cup {<<hello, f>> : f \in second}

\* Whether p is a worker, as its Hello tells.
Kinds(p) == IF p \in AsWorker THEN BOOLEAN ELSE {p \in Worker}

Connect(p) ==
    /\ up /\ peer[p].phase = "new" /\ Starts <= MaxPeers
    /\ link' = [link EXCEPT ![p] = "open"]
    /\ backlog' = Append(backlog, p)
    /\ IF p \in Stray
       THEN /\ \E frames \in StrayFrames(p) : Sends(p, frames)
            /\ Becomes(p, [peer[p] EXCEPT !.phase = "stray"])
       ELSE /\ Sends(p, <<Sent(p, "Hello", FirstFence, 0)>>)
            /\ \E script \in Scripts[p], kind \in Kinds(p) :
                  Becomes(p, [peer[p] EXCEPT
                     !.phase = "hello", !.worker = kind, !.sequence = 1,
                     !.left = script])
    /\ UNCHANGED outbox

\* A request binds the fence its sender believes in force, or what it wants the
\* fence to be.  lgctl moves the topology with SetTopology and the forwarding
\* generation with FenceAdvance; the other moves the coordinator serves are asked
\* for by operators of other clients, which keep the fence as lgctl does.
Bound(p, type) ==
    LET v == peer[p].fence IN
    CASE type = "SetTopology" -> {[v EXCEPT !["topology"] = @ + 1]}
      [] type = "SetPolicy" -> {[v EXCEPT !["policy"] = @ + 1]}
      [] type = "FenceAdvance" -> {[v EXCEPT ![c] = @ + 1] :
                                      c \in {"topology", "forwarding"}}
      [] OTHER -> {v}

\* The next step of a script: lgctl's, or the observations of a worker.
Ask(p) ==
    /\ peer[p].phase = "idle" /\ link[p] = "open" /\ peer[p].left # <<>>
    /\ LET type == Head(peer[p].left) IN
       \E v \in Bound(p, type) :
          /\ Sends(p, <<Sent(p, type, v, 0)>>)
          /\ Becomes(p, [peer[p] EXCEPT
                !.phase = IF p \in Worker THEN "observing" ELSE "waiting",
                !.sequence = @ + 1, !.left = Tail(@),
                !.asked = [type |-> type, fence |-> v]])
    /\ UNCHANGED <<backlog, link, outbox>>

\* The handshake, after which the script begins.
TakeHelloAck(p, f) ==
    /\ peer[p].phase = "hello"
    /\ Becomes(p, IF f.ok
                  THEN [peer[p] EXCEPT !.phase = "idle", !.fence = f.fence]
                  ELSE Gone(p))
    /\ UNCHANGED inbox

\* The rest of the script when an observe step ends early: the observations of
\* that step are left out, those of a later step are not.
AfterObserve(left) ==
    {SubSeq(left, n + 1, Len(left)) :
        n \in {n \in 0 .. Len(left) :
                 \A m \in 1 .. n : left[m] = "SubmitObservation"}}

\* lgctl has no answer to its request: the script is over, or only the step if
\* that is observe.  The answer may still come.
NoAnswer(p) ==
    IF peer[p].asked.type = "SubmitObservation"
    THEN \E rest \in AfterObserve(peer[p].left) :
            Becomes(p, [peer[p] EXCEPT
                !.phase = "idle", !.late = TRUE, !.left = rest])
    ELSE Becomes(p, Gone(p))

\* lgctl takes the next frame as the answer if its type is right, and then the
\* fence that it asked for as the fence in force.
TakeAnswer(p, f) ==
    /\ peer[p].phase = "waiting"
    /\ LET asked == peer[p].asked IN
       IF f.type = Answer[asked.type]
       THEN Becomes(p, [peer[p] EXCEPT !.phase = "idle", !.fence = asked.fence])
       ELSE NoAnswer(p)
    /\ UNCHANGED inbox

\* lg_worker takes whatever comes next as the answer to an observation or to an
\* effect report; an intent that comes then is neither acknowledged nor reported.
TakeAnything(p, f) ==
    /\ peer[p].phase \in {"observing", "effect"}
    /\ Becomes(p, [peer[p] EXCEPT
          !.phase = IF @ = "observing" THEN "idle" ELSE "serving"])
    /\ UNCHANGED inbox

\* lg_worker acknowledges an intent and reports its effect, observed under the
\* fence of the handshake; it ignores other frames.
TakeIntent(p, f) ==
    /\ peer[p].phase = "serving"
    /\ IF f.type = "ContainIntent"
       THEN LET v == peer[p].fence
                ack == Sent(p, "ContainAck", v, f.intent)
                effect == [Sent(p, "EffectReport", v, f.intent)
                              EXCEPT !.sequence = @ + 1]
            IN  /\ Sends(p, <<ack, effect>>)
                /\ Becomes(p, [peer[p] EXCEPT
                      !.phase = "effect", !.sequence = @ + 2,
                      !.handled = @ \cup {f.intent}])
       ELSE /\ Becomes(p, peer[p])
            /\ UNCHANGED inbox

\* A peer that ends by what it takes reads no more.
Take(p) ==
    /\ outbox[p] # <<>> /\ peer[p].phase # "gone"
    /\ LET f == Head(outbox[p]) IN
       TakeHelloAck(p, f) \/ TakeAnswer(p, f) \/ TakeAnything(p, f)
          \/ TakeIntent(p, f)
    /\ outbox' = [outbox EXCEPT ![p] =
                     IF peer'[p].phase = "gone" THEN <<>> ELSE Tail(@)]
    /\ UNCHANGED <<backlog, link>>

\* After its observations a worker waits for intents.
BeginServing(p) ==
    /\ p \in Worker /\ peer[p].phase = "idle" /\ peer[p].left = <<>>
    /\ Becomes(p, [peer[p] EXCEPT !.phase = "serving"])
    /\ UNCHANGED <<backlog, link, inbox, outbox>>

\* The deadline of lgctl for the answer to an observation.
GiveUp(p) ==
    /\ peer[p].phase = "waiting" /\ outbox[p] = <<>>
    /\ peer[p].asked.type = "SubmitObservation"
    /\ NoAnswer(p)
    /\ UNCHANGED <<backlog, link, inbox, outbox>>

\* The peer ends, silently or with Bye: it has nothing left to do, sees its
\* connection closed, or hears nothing until its deadline.
Leave(p) ==
    /\ peer[p].phase \notin {"new", "gone"}
    /\ outbox[p] = <<>> \/ peer[p].phase \in {"idle", "stray"}
    /\ \/ /\ peer[p].phase \in {"idle", "serving"} /\ link[p] = "open"
          /\ Sends(p, <<Sent(p, "Bye", peer[p].fence, 0)>>)
       \/ UNCHANGED inbox
    /\ Becomes(p, Gone(p))
    /\ outbox' = [outbox EXCEPT ![p] = <<>>]
    /\ UNCHANGED <<backlog, link>>

SeesClose(p) == link[p] = "closed" /\ Leave(p)

-----------------------------------------------------------------------------

Next ==
    \/ Accept \/ Greet \/ GreetExpires \/ Killed \/ Restart
    \/ \E s \in DOMAIN sessions : Serve(s)
    \/ \E p \in Peer :
          Connect(p) \/ Ask(p) \/ Take(p)
             \/ BeginServing(p) \/ GiveUp(p) \/ Leave(p)

\* The main loop of the coordinator takes a frame of every session in turn and
\* then looks for a connection; an operator that waits for a frame takes it, or
\* learns that its connection was closed.
Fairness ==
    /\ WF_vars(Accept) /\ WF_vars(Greet) /\ WF_vars(GreetExpires)
    /\ \A s \in SessionId : WF_vars(Serve(s))
    /\ \A p \in Operator : WF_vars(Take(p)) /\ WF_vars(SeesClose(p))

Spec == Init /\ [][Next]_vars /\ Fairness

-----------------------------------------------------------------------------
(* Properties *)

\* Type invariant.  A session in the table has a connection of its own, and that
\* connection is open.
TypeOK ==
    /\ up \in BOOLEAN /\ fence \in FenceVector
    /\ finding \in {"none", "published", "planned"}
    /\ intents \in Seq(Intent)
    /\ \A s \in DOMAIN sessions :
          /\ link[sessions[s].conn] = "open"
          /\ \A t \in DOMAIN sessions \ {s} : sessions[t].conn # sessions[s].conn
    /\ greeting \in Peer \cup {NoOne}
    /\ link \in [Peer -> {"none", "open", "closed"}]

\* A session is bound to the connection that shook hands for it for as long as
\* it exists: no other peer can take it over, whatever it claims
\* (handle_hello; PROTOCOL.md, "Session rules").
SessionStaysBound ==
    [][\A s \in DOMAIN sessions \cap DOMAIN sessions' :
          sessions'[s].conn = sessions[s].conn]_vars

\* What an operator that waits takes for the answer to a request is the answer to
\* that request.  Only to an observation may it take the late answer to another
\* one.  No other frame comes first, so that the answer is not missed either,
\* unless the operator is registered as a worker, to which intents are pushed, or
\* has once ended an observe step without the answer (expect and the observe step
\* in lgctl.cpp, the dispatch of intents in ContainAuthorize).
OperatorReadsItsAnswer ==
    \A p \in Operator :
        peer[p].phase = "waiting" /\ outbox[p] # <<>> =>
            LET f == Head(outbox[p])
                asked == peer[p].asked
            IN  /\ f.type = Answer[asked.type] =>
                      asked.type = "SubmitObservation" \/ f.re = peer[p].sequence
                /\ ~ peer[p].worker /\ ~ peer[p].late =>
                      Len(outbox[p]) = 1 /\ f.re = peer[p].sequence

\* What a peer takes for the fence in force is never ahead of it: a request that
\* was answered as accepted is in force or was superseded, also when another
\* session moved the fence first and when the process ends between commit and
\* reply (FenceAdvance, SetTopology; lgctl.cpp and lg_worker.cpp keep the fence).
ViewIsNotAhead ==
    \A p \in Peer, c \in Component : peer[p].fence[c] <= fence[c]

\* Containment is verified only by the report of a worker that acknowledged the
\* intent and shook hands under the very fence it was issued under.
VerifiedUnderItsFence ==
    \A i \in DOMAIN intents :
        intents[i].verified =>
            \E w \in Worker : /\ i \in peer[w].handled
                              /\ peer[w].fence = intents[i].fence

\* Every request is answered, or the one who waits learns that its connection
\* is closed; no deadline of the peer is needed for it (the main loop,
\* handle_frame).
RequestsAreAnswered ==
    \A p \in Operator : peer[p].phase = "waiting" ~> peer[p].phase # "waiting"
==============================================================================
