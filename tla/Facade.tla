------------------------------- MODULE Facade -------------------------------
(***************************************************************************)
(* The threads that call one Runtime (runtime.cpp).  A call takes the      *)
(* mutex once, works in several steps, and releases it; publish_finding    *)
(* and authorize_containment then call the observer they copied under the  *)
(* lock, and the observer may call the runtime again.  Module Runtime      *)
(* takes a call for one step; this module is about why it may.             *)
(*                                                                         *)
(* A fence is its number, and the finding published under it has that      *)
(* number too.  Each thread has a stack of calls, the last one on top.     *)
(***************************************************************************)
EXTENDS Integers, FiniteSets, Sequences

CONSTANTS
    Thread, Nobody,
    Observer, NoObserver,
    Calls,          \* what threads call
    CallbackCalls,  \* what observers call
    MaxFence,       \* bound: moves of the fence
    MaxRetained,    \* Limits::max_retained_findings
    MaxCalls,       \* bound: calls of one thread
    MaxDepth        \* bound: calls inside calls

Fences == 1..MaxFence
Names == {"detect", "publish", "authorize", "advance", "find", "observe", "close",
          "describe", "digest", "callback"}
States == {"none", "confirmed", "requested", "fenced"}
Live == {"confirmed", "requested"}

ASSUME FacadeAssumption ==
    /\ Nobody \notin Thread /\ NoObserver \notin Observer
    /\ Calls \subseteq Names \ {"callback"} /\ CallbackCalls \subseteq Calls
    /\ MaxFence \in Nat \ {0} /\ MaxRetained \in Nat \ {0}
    /\ MaxCalls \in Nat /\ MaxDepth \in Nat

VARIABLES
    holder,         \* the thread that holds Impl::mutex
    fence,          \* Impl::fence
    finding,        \* Impl::findings
    observer,       \* Impl::observer
    open,           \* Impl::open, and the store's file
    assessment,     \* the fence of the assessment a thread keeps, 0 for none
    stack,          \* the calls a thread is in
    calls           \* how many it has made

shared == <<fence, finding, observer, open>>
vars == <<holder, fence, finding, observer, open, assessment, stack, calls>>

Frame ==
    {frame \in [call : Names, at : {"enter", "body", "commit", "reread", "notify", "done"},
                of : Fences \cup {0}, told : Observer \cup {NoObserver},
                notice : States] :
        frame.call \in {"publish", "authorize", "find"} => frame.of \in Fences}

NewFrame(c, f) ==
    [call |-> c, at |-> "enter", of |-> f, told |-> NoObserver, notice |-> "none"]

Top(t) == stack[t][Len(stack[t])]
Popped(s) == SubSeq(s, 1, Len(s) - 1)
At(t, c, place) == stack[t] # << >> /\ Top(t).call = c /\ Top(t).at = place

\* The top frame goes on; a call is put on top; the top call returns.
Becomes(t, frame) == stack' = [stack EXCEPT ![t] = Append(Popped(@), frame)]
Enters(t, c, f) == stack' = [stack EXCEPT ![t] = Append(@, NewFrame(c, f))]
Returns(t) == stack' = [stack EXCEPT ![t] = Popped(@)]

(***************************************************************************)
(* Calling and locking.                                                    *)
(***************************************************************************)
\* A call from outside, or from an observer that is being called.
Call(t, c) ==
    /\ calls[t] < MaxCalls /\ Len(stack[t]) < MaxDepth
    /\ \/ stack[t] = << >> /\ c \in Calls
       \/ At(t, "callback", "done") /\ c \in CallbackCalls
    /\ \E f \in CASE c = "publish" -> {assessment[t]} \ {0}
                  [] c \in {"authorize", "find"} -> Fences
                  [] OTHER -> {0} :
          Enters(t, c, f)
    /\ calls' = [calls EXCEPT ![t] = @ + 1]
    /\ UNCHANGED <<holder, assessment, shared>>

Lock(t) ==
    /\ stack[t] # << >> /\ Top(t).at = "enter"
    /\ holder = Nobody /\ holder' = t
    /\ Becomes(t, [Top(t) EXCEPT !.at = "body"])
    /\ UNCHANGED <<assessment, calls, shared>>

Release == holder' = Nobody

(***************************************************************************)
(* What the calls do under the lock.                                       *)
(***************************************************************************)
Detect(t) ==
    /\ At(t, "detect", "body")
    /\ assessment' = [assessment EXCEPT ![t] = fence]
    /\ Release /\ Returns(t)
    /\ UNCHANGED <<calls, shared>>

\* Mutant: the lock is released in between.
AdvanceReleased(t) ==
    /\ At(t, "advance", "body") /\ fence < MaxFence
    /\ fence' = fence + 1
    /\ Release
    /\ IF open THEN Becomes(t, [Top(t) EXCEPT !.at = "commit"]) ELSE Returns(t)
    /\ UNCHANGED <<finding, observer, open, assessment, calls>>

\* A component of the fence moves and is written; then what is live is fenced.
Advance(t) ==
    /\ At(t, "advance", "body") /\ fence < MaxFence
    /\ fence' = fence + 1
    /\ IF open THEN Becomes(t, [Top(t) EXCEPT !.at = "commit"]) /\ UNCHANGED holder
               ELSE Release /\ Returns(t)
    /\ UNCHANGED <<finding, observer, open, assessment, calls>>

AdvanceIsRefused(t) ==
    /\ At(t, "advance", "body") /\ fence = MaxFence
    /\ Release /\ Returns(t)
    /\ UNCHANGED <<assessment, calls, shared>>

\* Mutant: a finding with a request in progress is not taken for live.
FenceStaleConfirmed(t) ==
    /\ At(t, "advance", "commit")
    /\ finding' = [f \in Fences |->
                      IF finding[f] = "confirmed" /\ f # fence THEN "fenced" ELSE finding[f]]
    /\ Release /\ Returns(t)
    /\ UNCHANGED <<fence, observer, open, assessment, calls>>

FenceStale(t) ==
    /\ At(t, "advance", "commit")
    /\ finding' = [f \in Fences |->
                      IF finding[f] \in Live /\ f # fence THEN "fenced" ELSE finding[f]]
    /\ Release /\ Returns(t)
    /\ UNCHANGED <<fence, observer, open, assessment, calls>>

Retained == {f \in Fences : finding[f] # "none"}

Publishable(f) ==
    /\ f = fence /\ open /\ finding[f] = "none"
    /\ Cardinality(Retained) < MaxRetained \/ \E v \in Retained : finding[v] = "fenced"

CheckAssessment(t) ==
    /\ At(t, "publish", "body")
    /\ IF Publishable(Top(t).of)
       THEN Becomes(t, [Top(t) EXCEPT !.at = "commit"]) /\ UNCHANGED holder
       ELSE Release /\ Returns(t)
    /\ UNCHANGED <<assessment, calls, shared>>

\* A full registry makes room by dropping a finding that is not live.
RegisterFinding(t) ==
    /\ At(t, "publish", "commit")
    /\ \E room \in IF Cardinality(Retained) < MaxRetained THEN {{}}
                   ELSE {{v} : v \in {w \in Retained : finding[w] = "fenced"}} :
          finding' = [f \in Fences |-> IF f = Top(t).of THEN "confirmed"
                                       ELSE IF f \in room THEN "none" ELSE finding[f]]
    /\ Becomes(t, [Top(t) EXCEPT !.at = IF observer = NoObserver THEN "done" ELSE "notify",
                                 !.told = observer, !.notice = "confirmed"])
    /\ Release
    /\ UNCHANGED <<fence, observer, open, assessment, calls>>

CheckFinding(t) ==
    /\ At(t, "authorize", "body")
    /\ IF finding[Top(t).of] \in Live /\ Top(t).of = fence
       THEN Becomes(t, [Top(t) EXCEPT !.at = "commit"]) /\ UNCHANGED holder
       ELSE Release /\ Returns(t)
    /\ UNCHANGED <<assessment, calls, shared>>

\* The observer is copied once the lineage is written, which fails when the
\* store is closed; the finding has changed by then.
TellsLater == open /\ observer # NoObserver

\* Mutant: the copy the observer gets is taken before the finding changes.
AuthorizeTellingOfBefore(t) ==
    /\ At(t, "authorize", "commit")
    /\ finding' = [finding EXCEPT ![Top(t).of] = "requested"]
    /\ Becomes(t, [Top(t) EXCEPT !.at = IF TellsLater THEN "notify" ELSE "done",
                                 !.told = observer, !.notice = finding[Top(t).of]])
    /\ Release
    /\ UNCHANGED <<fence, observer, open, assessment, calls>>

\* Mutant: the lock is kept for the second look at the finding.
AuthorizeHolding(t) ==
    /\ At(t, "authorize", "commit")
    /\ finding' = [finding EXCEPT ![Top(t).of] = "requested"]
    /\ Becomes(t, [Top(t) EXCEPT !.at = IF TellsLater THEN "reread" ELSE "done",
                                 !.told = observer])
    /\ IF TellsLater THEN UNCHANGED holder ELSE Release
    /\ UNCHANGED <<fence, observer, open, assessment, calls>>

Authorize(t) ==
    /\ At(t, "authorize", "commit")
    /\ finding' = [finding EXCEPT ![Top(t).of] = "requested"]
    /\ Becomes(t, [Top(t) EXCEPT !.at = IF TellsLater THEN "reread" ELSE "done",
                                 !.told = observer])
    /\ Release
    /\ UNCHANGED <<fence, observer, open, assessment, calls>>

SetObserver(t) ==
    /\ At(t, "observe", "body")
    /\ observer' \in Observer \cup {NoObserver}
    /\ Release /\ Returns(t)
    /\ UNCHANGED <<fence, finding, open, assessment, calls>>

Close(t) ==
    /\ At(t, "close", "body")
    /\ open' = FALSE
    /\ Release /\ Returns(t)
    /\ UNCHANGED <<fence, finding, observer, assessment, calls>>

\* find_finding, for a caller or for authorize_containment.
Find(t) ==
    /\ At(t, "find", "body")
    /\ LET below == Popped(stack[t])
           caller == below[Len(below)]
           found == finding[Top(t).of]
       IN  stack' = [stack EXCEPT ![t] =
              IF below = << >> \/ caller.at # "reread" THEN below
              ELSE Append(Popped(below),
                          [caller EXCEPT !.at = IF found = "none" THEN "done" ELSE "notify",
                                         !.notice = found])]
    /\ Release
    /\ UNCHANGED <<assessment, calls, shared>>

\* describe() asks for the state digest before it releases the lock.  What it
\* would do with the answer is left out: the digest waits for that lock.
Describe(t) ==
    /\ At(t, "describe", "body")
    /\ Enters(t, "digest", 0)
    /\ UNCHANGED <<holder, assessment, calls, shared>>

StateDigest(t) ==
    /\ At(t, "digest", "body")
    /\ Release /\ Returns(t)
    /\ UNCHANGED <<assessment, calls, shared>>

(***************************************************************************)
(* What they do after it.                                                  *)
(***************************************************************************)
Reread(t) ==
    /\ At(t, "authorize", "reread")
    /\ Enters(t, "find", Top(t).of)
    /\ UNCHANGED <<holder, assessment, calls, shared>>

Notify(t) ==
    /\ stack[t] # << >> /\ Top(t).at = "notify"
    /\ stack' = [stack EXCEPT ![t] =
           Append(Append(Popped(@), [Top(t) EXCEPT !.at = "done"]),
                  [NewFrame("callback", Top(t).of) EXCEPT !.at = "done"])]
    /\ UNCHANGED <<holder, assessment, calls, shared>>

Return(t) ==
    /\ stack[t] # << >> /\ Top(t).at = "done"
    /\ Returns(t)
    /\ UNCHANGED <<holder, assessment, calls, shared>>

Init ==
    /\ holder = Nobody /\ fence = 1 /\ finding = [f \in Fences |-> "none"]
    /\ observer = NoObserver /\ open = TRUE
    /\ assessment = [t \in Thread |-> 0]
    /\ stack = [t \in Thread |-> << >>] /\ calls = [t \in Thread |-> 0]

Step(t) ==
    \/ Lock(t) \/ Detect(t)
    \/ Advance(t) \/ AdvanceIsRefused(t) \/ FenceStale(t)
    \/ CheckAssessment(t) \/ RegisterFinding(t)
    \/ CheckFinding(t) \/ Authorize(t)
    \/ SetObserver(t) \/ Close(t)
    \/ Find(t) \/ Describe(t) \/ StateDigest(t)
    \/ Reread(t) \/ Notify(t) \/ Return(t)

Next == \E t \in Thread : Step(t) \/ \E c \in Calls : Call(t, c)

\* A thread that is in a call goes on, and an observer returns.
Spec == Init /\ [][Next]_vars /\ \A t \in Thread : WF_vars(Step(t))

(***************************************************************************)
(* Properties.                                                             *)
(***************************************************************************)
\* Whoever can take the mutex while the runtime is open finds no live
\* finding under a fence that was left: a move is never seen half done
\* (runtime.cpp:252-266, 503, 647; the race of test_concurrency.cpp:101).
ReadersSeeWholeMoves ==
    holder = Nobody /\ open => \A f \in Fences : finding[f] \in Live => f = fence

\* A move takes effect when what was live is fenced, and a closed runtime has
\* no authority left.
Moving == \E t \in Thread : At(t, "advance", "commit")

InForce ==
    [topology |-> 1, policy |-> 1, fabric |-> 1, epoch |-> 1, boot |-> 1,
     forwarding |-> IF Moving THEN fence - 1 ELSE fence]

Carrying == IF open THEN {f \in Fences : finding[f] \in Live} ELSE {}

Authority == INSTANCE FencedAuthority WITH
    FindingId <- Fences, current <- InForce, live <- Carrying,
    contained <- {}, running <- open

\* However the calls of several threads interleave, they keep the contract
\* that module Runtime keeps with a call in one step: findings gain and lose
\* authority one by one, and a move takes it from all at once
\* (runtime.cpp:19-29, test_concurrency.cpp:101).
ImplementsAuthority == Authority!Contract

\* No call is told of before it is done: an observer is shown a state that
\* its finding has reached, an authorization never shows the finding as it
\* was before, and only an observer that was set is called
\* (runtime.cpp:573-578, 738-745).
Rank == [s \in States |-> CASE s = "confirmed" -> 1 [] s = "requested" -> 2
                            [] s = "fenced" -> 3 [] OTHER -> 4]

NoticesFollowCommits ==
    \A t \in Thread : \A i \in 2..Len(stack[t]) :
        LET by == stack[t][i - 1]
        IN  stack[t][i].call = "callback" =>
              /\ by.told # NoObserver
              /\ by.notice \in (IF by.call = "publish" THEN {"confirmed"}
                                ELSE {"requested", "fenced"})
              /\ Rank[by.notice] <= Rank[finding[by.of]]

\* Every call returns, whatever observers call from within it, as long as
\* nobody has called describe, which waits for a lock it holds itself and
\* lets everyone else wait (runtime.cpp:576, 740, 961-971,
\* docs/OWNERSHIP_AUDIT.md:24-41).
Describing(t) ==
    /\ holder = t /\ At(t, "digest", "enter") /\ Len(stack[t]) > 1
    /\ stack[t][Len(stack[t]) - 1].call = "describe"

CallsReturn ==
    \A t \in Thread :
        (stack[t] # << >>) ~> (stack[t] = << >> \/ \E u \in Thread : Describing(u))

=============================================================================
