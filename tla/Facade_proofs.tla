---------------------------- MODULE Facade_proofs ----------------------------
(***************************************************************************)
(* What the Facade module guarantees for any threads, observers and        *)
(* bounds: a move of the fence is never seen half done, the calls of all   *)
(* threads together keep the contract of module FencedAuthority, and what  *)
(* observers are told is true.                                             *)
(***************************************************************************)
EXTENDS Facade, SequenceTheorems, TLAPS

-----------------------------------------------------------------------------
(* The inductive invariant. *)

Working(frame) == frame.at \in {"body", "commit"}

\* No frame of a stack is under the lock.
Idle(s) == \A i \in 1..Len(s) : ~ Working(s[i])

\* A frame under the lock is on top, or waits for the lock to be given again.
WellStacked(s) ==
    \A i \in 1..(Len(s) - 1) : Working(s[i]) => s[Len(s)].at = "enter"

Typed ==
    /\ holder \in Thread \cup {Nobody}
    /\ fence \in Fences /\ finding \in [Fences -> States]
    /\ observer \in Observer \cup {NoObserver} /\ open \in BOOLEAN
    /\ assessment \in [Thread -> Fences \cup {0}]
    /\ stack \in [Thread -> Seq(Frame)]
    /\ calls \in [Thread -> Nat]

\* Only the holder of the mutex has a frame under the lock.
OneInside ==
    \A t \in Thread : WellStacked(stack[t]) /\ (~ Idle(stack[t]) => holder = t)

\* What a call has checked holds until it is done.
Checked ==
    \A t \in Thread :
        /\ At(t, "publish", "commit") =>
              open /\ Top(t).of = fence /\ finding[fence] = "none"
        /\ At(t, "authorize", "commit") =>
              Top(t).of = fence /\ finding[fence] \in Live
        /\ At(t, "advance", "commit") => open /\ finding[fence] = "none"

\* Only a move in progress leaves a live finding behind the fence.
Whole ==
    open => (\A f \in Fences : finding[f] \in Live => f = fence) \/ Moving

\* Nothing was published under a fence that is still to come.
Unborn == \A f \in Fences : f > fence => finding[f] = "none"

IInv == Typed /\ OneInside /\ Checked /\ Whole /\ Unborn

-----------------------------------------------------------------------------
(* Stacks. *)

\* Taking the top off a stack.
LEMMA PoppedFacts ==
    ASSUME NEW S, NEW s \in Seq(S), s # << >>
    PROVE  /\ Popped(s) \in Seq(S) /\ Len(Popped(s)) = Len(s) - 1
           /\ \A i \in 1..(Len(s) - 1) : Popped(s)[i] = s[i]
           /\ Len(s) \in Nat \ {0} /\ s[Len(s)] \in S
<1>1. Len(s) \in Nat \ {0}
  OBVIOUS
<1>2. \A i \in 1..(Len(s) - 1) : s[i] \in S
  OBVIOUS
<1>3. s[Len(s)] \in S
  BY <1>1
<1>4. PICK n \in Nat : n = Len(s) - 1
  BY <1>1
<1>5. \A i \in 1..n : s[i] \in S
  BY <1>2, <1>4
<1>6. /\ SubSeq(s, 1, n) \in Seq(S)
      /\ Len(SubSeq(s, 1, n)) = IF 1 <= n THEN n - 1 + 1 ELSE 0
      /\ \A i \in 1..(n - 1 + 1) : SubSeq(s, 1, n)[i] = s[1 + i - 1]
  BY <1>5, SubSeqProperties
<1>7. Popped(s) = SubSeq(s, 1, n)
  BY <1>4 DEF Popped
<1>8. Popped(s) \in Seq(S)
  BY <1>6, <1>7
<1>9. Len(Popped(s)) = n
  <2>1. (IF 1 <= n THEN n - 1 + 1 ELSE 0) = n
    OBVIOUS
  <2> QED BY <1>6, <1>7, <2>1
<1>10. \A i \in 1..n : Popped(s)[i] = s[i]
  <2> SUFFICES ASSUME NEW i \in 1..n PROVE Popped(s)[i] = s[i]
    OBVIOUS
  <2>1. i \in 1..(n - 1 + 1) /\ 1 + i - 1 = i
    OBVIOUS
  <2> QED BY <1>6, <1>7, <2>1
<1> QED
  BY <1>1, <1>3, <1>4, <1>8, <1>9, <1>10

\* Putting a frame on top.
LEMMA PushedFacts ==
    ASSUME NEW S, NEW s \in Seq(S), NEW x \in S
    PROVE  /\ Append(s, x) \in Seq(S) /\ Len(Append(s, x)) = Len(s) + 1
           /\ Append(s, x) # << >>
           /\ \A i \in 1..Len(s) : Append(s, x)[i] = s[i]
           /\ Append(s, x)[Len(s) + 1] = x
           /\ Len(s) \in Nat
OBVIOUS

\* When the top frame is past the door, or nothing is under the lock anyway,
\* what remains after a return is not under the lock.
LEMMA PopsIdle ==
    ASSUME NEW s \in Seq(Frame), s # << >>, WellStacked(s),
           s[Len(s)].at # "enter" \/ Idle(s)
    PROVE  Popped(s) \in Seq(Frame) /\ WellStacked(Popped(s)) /\ Idle(Popped(s))
<1>1. \A i \in 1..(Len(s) - 1) : ~ Working(s[i])
  BY PoppedFacts DEF WellStacked, Idle
<1>2. Popped(s) \in Seq(Frame) /\ Len(Popped(s)) = Len(s) - 1 /\ Len(s) \in Nat
  BY PoppedFacts
<1>3. \A i \in 1..Len(Popped(s)) : ~ Working(Popped(s)[i])
  BY <1>1, <1>2, PoppedFacts
<1>4. \A i \in 1..(Len(Popped(s)) - 1) : ~ Working(Popped(s)[i])
  BY <1>2, <1>3
<1> QED
  BY <1>2, <1>3, <1>4 DEF Idle, WellStacked

\* A frame put on a stack with nothing under the lock.
LEMMA PushOnIdle ==
    ASSUME NEW s \in Seq(Frame), Idle(s), NEW x \in Frame
    PROVE  /\ Append(s, x) \in Seq(Frame) /\ WellStacked(Append(s, x))
           /\ ~ Working(x) => Idle(Append(s, x))
           /\ Append(s, x)[Len(Append(s, x))] = x /\ Append(s, x) # << >>
<1> DEFINE r == Append(s, x)
<1>1. /\ r \in Seq(Frame) /\ Len(r) = Len(s) + 1 /\ Len(s) \in Nat
      /\ r[Len(r)] = x /\ r # << >>
      /\ \A i \in 1..Len(s) : r[i] = s[i]
  BY PushedFacts
<1>2. \A i \in 1..Len(s) : ~ Working(r[i])
  BY <1>1 DEF Idle
<1>3. \A i \in 1..Len(r) : i \in 1..Len(s) \/ i = Len(r)
  BY <1>1
<1>4. WellStacked(r)
  BY <1>1, <1>2 DEF WellStacked
<1>5. ~ Working(x) => Idle(r)
  BY <1>1, <1>2, <1>3 DEF Idle
<1> QED
  BY <1>1, <1>4, <1>5

\* A call that is put on top waits at the door: nothing else comes under the
\* lock by it.
LEMMA PushAtDoor ==
    ASSUME NEW s \in Seq(Frame), NEW x \in Frame, x.at = "enter"
    PROVE  /\ Append(s, x) \in Seq(Frame) /\ WellStacked(Append(s, x))
           /\ Idle(s) => Idle(Append(s, x))
           /\ Append(s, x)[Len(Append(s, x))] = x /\ Append(s, x) # << >>
<1>1. WellStacked(Append(s, x))
  BY PushedFacts DEF WellStacked
<1>2. ~ Working(x)
  BY DEF Working
<1> QED
  BY <1>1, <1>2, PushedFacts, PushOnIdle

-----------------------------------------------------------------------------
(* What a step does to the stack of its thread and to the lock. *)

LockStep(t) ==
    \/ holder' = holder
    \/ holder = Nobody /\ holder' = t
    \/ holder = t /\ holder' = Nobody

Turned(t) ==
    /\ \A u \in Thread \ {t} : stack'[u] = stack[u]
    /\ stack' \in [Thread -> Seq(Frame)]
    /\ WellStacked(stack'[t])
    /\ ~ Idle(stack'[t]) => holder' = t
    /\ LockStep(t)

\* Whatever turns one stack properly keeps one thread inside.
LEMMA TurnKeepsOneInside ==
    ASSUME Typed, OneInside, NEW t \in Thread, Turned(t)
    PROVE  OneInside'
<1> SUFFICES ASSUME NEW u \in Thread
             PROVE  WellStacked(stack'[u]) /\ (~ Idle(stack'[u]) => holder' = u)
  BY DEF OneInside, WellStacked, Idle, Working
<1>1. CASE u = t
  BY <1>1 DEF Turned
<1>2. CASE u # t
  <2>1. stack'[u] = stack[u]
    BY <1>2 DEF Turned
  <2>2. WellStacked(stack[u]) /\ (~ Idle(stack[u]) => holder = u)
    BY DEF OneInside
  <2>3. holder = u => holder' = holder
    BY <1>2, FacadeAssumption DEF Turned, LockStep
  <2> QED
    BY <2>1, <2>2, <2>3
<1> QED
  BY <1>1, <1>2

\* The frame a thread is at.
LEMMA TopFacts ==
    ASSUME Typed, NEW t \in Thread, stack[t] # << >>
    PROVE  /\ Top(t) \in Frame /\ stack[t] \in Seq(Frame)
           /\ Top(t) = stack[t][Len(stack[t])]
<1>1. stack[t] \in Seq(Frame)
  BY DEF Typed
<1> QED
  BY <1>1, PoppedFacts DEF Top

\* A thread that works holds the mutex.
LEMMA WorkerHolds ==
    ASSUME Typed, OneInside, NEW t \in Thread, stack[t] # << >>, Working(Top(t))
    PROVE  holder = t /\ Top(t).at # "enter"
<1>1. Len(stack[t]) \in 1..Len(stack[t])
  BY TopFacts, PoppedFacts
<1>2. ~ Idle(stack[t])
  BY <1>1, TopFacts DEF Idle
<1> QED
  BY <1>2 DEF OneInside, Working

\* A step that turns the top frame into another.
LEMMA BecomesTurns ==
    ASSUME Typed, OneInside, NEW t \in Thread, stack[t] # << >>,
           Top(t).at # "enter" \/ holder = Nobody,
           NEW x \in Frame, Becomes(t, x), LockStep(t), Working(x) => holder' = t
    PROVE  Turned(t) /\ stack'[t] # << >> /\ Top(t)' = x
<1> DEFINE s == stack[t]
           r == Append(Popped(s), x)
<1>1. s \in Seq(Frame) /\ WellStacked(s) /\ (~ Idle(s) => holder = t)
  BY DEF Typed, OneInside
<1>2. s[Len(s)].at # "enter" \/ Idle(s)
  BY <1>1, FacadeAssumption DEF Top
<1>3. Popped(s) \in Seq(Frame) /\ WellStacked(Popped(s)) /\ Idle(Popped(s))
  BY <1>1, <1>2, PopsIdle
<1>4. /\ r \in Seq(Frame) /\ WellStacked(r) /\ (~ Working(x) => Idle(r))
      /\ r[Len(r)] = x /\ r # << >>
  BY <1>3, PushOnIdle
<1>5. stack' = [stack EXCEPT ![t] = r]
  BY DEF Becomes
<1> HIDE DEF r
<1>6. /\ stack'[t] = r /\ stack' \in [Thread -> Seq(Frame)]
      /\ \A u \in Thread \ {t} : stack'[u] = stack[u]
  BY <1>4, <1>5 DEF Typed
<1> QED
  BY <1>4, <1>6 DEF Turned, Top

\* A step that returns from the top call.
LEMMA ReturnsTurns ==
    ASSUME Typed, OneInside, NEW t \in Thread, stack[t] # << >>,
           Top(t).at # "enter", Returns(t), LockStep(t)
    PROVE  Turned(t) /\ Idle(stack'[t])
<1> DEFINE s == stack[t]
           r == Popped(s)
<1>1. s \in Seq(Frame) /\ WellStacked(s) /\ s[Len(s)].at # "enter"
  BY DEF Typed, OneInside, Top
<1>2. r \in Seq(Frame) /\ WellStacked(r) /\ Idle(r)
  BY <1>1, PopsIdle
<1>3. stack' = [stack EXCEPT ![t] = r]
  BY DEF Returns
<1> HIDE DEF r
<1>4. /\ stack'[t] = r /\ stack' \in [Thread -> Seq(Frame)]
      /\ \A u \in Thread \ {t} : stack'[u] = stack[u]
  BY <1>2, <1>3 DEF Typed
<1> QED
  BY <1>2, <1>4 DEF Turned

\* A step that puts a call on top.
LEMMA EntersTurns ==
    ASSUME Typed, OneInside, NEW t \in Thread,
           NEW c \in Names, NEW f \in Fences \cup {0},
           c \in {"publish", "authorize", "find"} => f \in Fences,
           Enters(t, c, f), UNCHANGED holder
    PROVE  Turned(t) /\ stack'[t] # << >> /\ Top(t)' = NewFrame(c, f)
<1> DEFINE s == stack[t]
           x == NewFrame(c, f)
           r == Append(s, x)
<1>1. s \in Seq(Frame) /\ (~ Idle(s) => holder = t)
  BY DEF Typed, OneInside
<1>2. x \in Frame /\ x.at = "enter"
  BY DEF NewFrame, Frame, States
<1>3. /\ r \in Seq(Frame) /\ WellStacked(r) /\ (Idle(s) => Idle(r))
      /\ r[Len(r)] = x /\ r # << >>
  BY <1>1, <1>2, PushAtDoor
<1>4. stack' = [stack EXCEPT ![t] = r]
  BY DEF Enters
<1> HIDE DEF r, x
<1>5. /\ stack'[t] = r /\ stack' \in [Thread -> Seq(Frame)]
      /\ \A u \in Thread \ {t} : stack'[u] = stack[u]
  BY <1>3, <1>4 DEF Typed
<1> QED
  BY <1>1, <1>3, <1>5 DEF Turned, Top, LockStep, x

-----------------------------------------------------------------------------
(* Work under the lock. *)

\* A stack whose call is not about to commit.
NoCommit(s) == s = << >> \/ s[Len(s)].at # "commit"

\* Nothing under the lock: nothing to commit.
LEMMA IdleNoCommit ==
    ASSUME NEW s \in Seq(Frame), Idle(s)
    PROVE  NoCommit(s)
<1> SUFFICES ASSUME s # << >> PROVE s[Len(s)].at # "commit"
  BY DEF NoCommit
<1>1. Len(s) \in 1..Len(s)
  BY PoppedFacts
<1> QED
  BY <1>1 DEF Idle, Working

\* A thread at work is alone: no other is about to commit.
LEMMA WorksAlone ==
    ASSUME Typed, OneInside, NEW t \in Thread, NEW c, NEW p \in {"body", "commit"},
           At(t, c, p)
    PROVE  /\ stack[t] # << >> /\ Top(t).call = c /\ Top(t).at = p
           /\ Top(t) \in Frame /\ holder = t
           /\ \A u \in Thread \ {t} : NoCommit(stack[u])
           /\ (c # "advance" \/ p # "commit") => ~ Moving
<1>1. stack[t] # << >> /\ Top(t).call = c /\ Top(t).at = p /\ Top(t) \in Frame
  BY TopFacts DEF At
<1>2. holder = t
  BY <1>1, WorkerHolds DEF Working
<1>3. ASSUME NEW u \in Thread \ {t}
      PROVE  NoCommit(stack[u])
  BY <1>2, IdleNoCommit DEF OneInside, Typed
<1>4. (c # "advance" \/ p # "commit") => ~ Moving
  BY <1>1, <1>3 DEF Moving, At, NoCommit, Top
<1> QED
  BY <1>1, <1>2, <1>3, <1>4

\* A call that turns its frame while it keeps or gives up the lock.
LEMMA WorkTurns ==
    ASSUME Typed, OneInside, NEW t \in Thread, NEW c, NEW p \in {"body", "commit"},
           At(t, c, p), NEW x \in Frame, Becomes(t, x),
           \/ UNCHANGED holder
           \/ Release /\ ~ Working(x)
    PROVE  /\ Turned(t) /\ stack'[t] # << >> /\ Top(t)' = x
           /\ holder' \in Thread \cup {Nobody}
           /\ stack' \in [Thread -> Seq(Frame)]
           /\ \A u \in Thread \ {t} : NoCommit(stack'[u])
<1>1. /\ stack[t] # << >> /\ Top(t).at # "enter" /\ holder = t
      /\ \A u \in Thread \ {t} : NoCommit(stack[u])
  BY WorksAlone, "enter" \notin {"body", "commit"}
<1>2. LockStep(t) /\ (Working(x) => holder' = t)
  BY <1>1 DEF LockStep, Release
<1>3. Turned(t) /\ stack'[t] # << >> /\ Top(t)' = x
  BY <1>1, <1>2, BecomesTurns
<1> QED
  BY <1>1, <1>3 DEF Turned, Release, Typed

\* A call that returns and gives up the lock.
LEMMA WorkReturns ==
    ASSUME Typed, OneInside, NEW t \in Thread, NEW c, NEW p \in {"body", "commit"},
           At(t, c, p), Release, Returns(t)
    PROVE  /\ Turned(t) /\ holder' \in Thread \cup {Nobody}
           /\ stack' \in [Thread -> Seq(Frame)]
           /\ \A u \in Thread : NoCommit(stack'[u])
<1>1. /\ stack[t] # << >> /\ Top(t).at # "enter" /\ holder = t
      /\ \A u \in Thread \ {t} : NoCommit(stack[u])
  BY WorksAlone, "enter" \notin {"body", "commit"}
<1>2. Turned(t) /\ Idle(stack'[t])
  BY <1>1, ReturnsTurns DEF LockStep, Release
<1>3. stack'[t] \in Seq(Frame)
  BY <1>2 DEF Turned
<1> QED
  BY <1>1, <1>2, <1>3, IdleNoCommit DEF Turned, Release

-----------------------------------------------------------------------------
(* Steps that change nothing the calls share but the observer, and neither  *)
(* begin nor end the last part of a call.                                   *)

Quiet(t) ==
    /\ Typed' /\ Turned(t)
    /\ UNCHANGED <<fence, finding, open>>
    /\ NoCommit(stack[t]) /\ NoCommit(stack'[t])

\* A call begins without the lock.
LEMMA CallIsQuiet ==
    ASSUME Typed, OneInside, NEW t \in Thread, NEW c \in Calls, Call(t, c)
    PROVE  Quiet(t)
<1>1. PICK f \in CASE c = "publish" -> {assessment[t]} \ {0}
                   [] c \in {"authorize", "find"} -> Fences
                   [] OTHER -> {0} : Enters(t, c, f)
  BY DEF Call
<1>2. /\ f \in Fences \cup {0} /\ c \in Names
      /\ c \in {"publish", "authorize", "find"} => f \in Fences
  BY <1>1, FacadeAssumption DEF Typed
<1>3. UNCHANGED <<holder, assessment, fence, finding, observer, open>>
  BY DEF Call, shared
<1>4. Turned(t) /\ stack'[t] # << >> /\ Top(t)' = NewFrame(c, f)
  BY <1>1, <1>2, <1>3, EntersTurns
<1>5. stack[t] = << >> \/ Top(t).at = "done"
  BY DEF Call, At
<1>6. calls' \in [Thread -> Nat]
  BY DEF Call, Typed
<1>7. Typed'
  BY <1>3, <1>4, <1>6 DEF Typed, Turned
<1>8. NoCommit(stack[t]) /\ NoCommit(stack'[t])
  BY <1>4, <1>5 DEF NoCommit, Top, NewFrame
<1> QED
  BY <1>3, <1>4, <1>7, <1>8 DEF Quiet

\* Taking the free lock lets one thread in.
LEMMA LockIsQuiet ==
    ASSUME Typed, OneInside, NEW t \in Thread, Lock(t)
    PROVE  Quiet(t)
<1> DEFINE x == [Top(t) EXCEPT !.at = "body"]
<1>1. stack[t] # << >> /\ Top(t).at = "enter" /\ holder = Nobody /\ holder' = t
  BY DEF Lock
<1>2. x \in Frame /\ x.at = "body"
  BY <1>1, TopFacts DEF Frame
<1>3. UNCHANGED <<assessment, calls, fence, finding, observer, open>>
  BY DEF Lock, shared
<1>4. Becomes(t, x)
  BY DEF Lock
<1> HIDE DEF x
<1>5. Turned(t) /\ stack'[t] # << >> /\ Top(t)' = x
  BY <1>1, <1>2, <1>4, BecomesTurns DEF LockStep
<1>6. Typed'
  BY <1>1, <1>3, <1>5 DEF Typed, Turned
<1>7. NoCommit(stack[t]) /\ NoCommit(stack'[t])
  BY <1>1, <1>2, <1>5 DEF NoCommit, Top
<1> QED
  BY <1>3, <1>5, <1>6, <1>7 DEF Quiet

\* Calls that read, or change the observer only.
LEMMA PlainBodiesAreQuiet ==
    ASSUME Typed, OneInside, NEW t \in Thread,
           \/ Detect(t) \/ AdvanceIsRefused(t) \/ SetObserver(t) \/ StateDigest(t)
    PROVE  Quiet(t)
<1>1. /\ \E c \in {"detect", "advance", "observe", "digest"} : At(t, c, "body")
      /\ Release /\ Returns(t) /\ UNCHANGED <<fence, finding, open, calls>>
      /\ assessment' \in [Thread -> Fences \cup {0}]
      /\ observer' \in Observer \cup {NoObserver}
  BY DEF Detect, AdvanceIsRefused, SetObserver, StateDigest, shared, Typed
<1>2. /\ Turned(t) /\ holder' \in Thread \cup {Nobody}
      /\ stack' \in [Thread -> Seq(Frame)]
      /\ NoCommit(stack[t]) /\ NoCommit(stack'[t])
  BY <1>1, WorksAlone, WorkReturns DEF NoCommit, Top
<1>3. Typed'
  BY <1>1, <1>2 DEF Typed
<1> QED
  BY <1>1, <1>2, <1>3 DEF Quiet

\* describe() leaves its frame under the lock and waits at the door.
LEMMA DescribeIsQuiet ==
    ASSUME Typed, OneInside, NEW t \in Thread, Describe(t)
    PROVE  Quiet(t)
<1>1. /\ stack[t] # << >> /\ Top(t).at = "body" /\ Enters(t, "digest", 0)
      /\ UNCHANGED <<holder, assessment, calls, fence, finding, observer, open>>
  BY DEF Describe, At, shared
<1>2. "digest" \in Names
  BY DEF Names
<1>3. Turned(t) /\ stack'[t] # << >> /\ Top(t)' = NewFrame("digest", 0)
  BY <1>1, <1>2, EntersTurns
<1>4. Typed'
  BY <1>1, <1>3 DEF Typed, Turned
<1>5. NoCommit(stack[t]) /\ NoCommit(stack'[t])
  BY <1>1, <1>3 DEF NoCommit, Top, NewFrame
<1> QED
  BY <1>1, <1>3, <1>4, <1>5 DEF Quiet

\* authorize_containment looks at the finding again, without the lock.
LEMMA RereadIsQuiet ==
    ASSUME Typed, OneInside, NEW t \in Thread, Reread(t)
    PROVE  Quiet(t)
<1>1. /\ stack[t] # << >> /\ Top(t).at = "reread" /\ Enters(t, "find", Top(t).of)
      /\ UNCHANGED <<holder, assessment, calls, fence, finding, observer, open>>
  BY DEF Reread, At, shared
<1>2. "find" \in Names /\ Top(t).of \in Fences
  BY <1>1, TopFacts, Reread(t) DEF Names, Frame, Reread, At
<1>3. Turned(t) /\ stack'[t] # << >> /\ Top(t)' = NewFrame("find", Top(t).of)
  BY <1>1, <1>2, EntersTurns
<1>4. Typed'
  BY <1>1, <1>3 DEF Typed, Turned
<1>5. NoCommit(stack[t]) /\ NoCommit(stack'[t])
  BY <1>1, <1>3 DEF NoCommit, Top, NewFrame
<1> QED
  BY <1>1, <1>3, <1>4, <1>5 DEF Quiet

\* A call returns when it has let go of the lock.
LEMMA ReturnIsQuiet ==
    ASSUME Typed, OneInside, NEW t \in Thread, Return(t)
    PROVE  Quiet(t)
<1>1. /\ stack[t] # << >> /\ Top(t).at = "done" /\ Returns(t)
      /\ UNCHANGED <<holder, assessment, calls, fence, finding, observer, open>>
  BY DEF Return, shared
<1>2. Turned(t) /\ Idle(stack'[t])
  BY <1>1, ReturnsTurns DEF LockStep
<1>3. Typed'
  BY <1>1, <1>2 DEF Typed, Turned
<1>4. stack'[t] \in Seq(Frame)
  BY <1>2 DEF Turned
<1>5. NoCommit(stack[t]) /\ NoCommit(stack'[t])
  BY <1>1, <1>2, <1>4, IdleNoCommit DEF NoCommit, Top
<1> QED
  BY <1>1, <1>2, <1>3, <1>5 DEF Quiet

\* The observer is called by a thread that has let go of the lock.
LEMMA NotifyIsQuiet ==
    ASSUME Typed, OneInside, NEW t \in Thread, Notify(t)
    PROVE  Quiet(t)
<1> DEFINE x == [Top(t) EXCEPT !.at = "done"]
           y == [NewFrame("callback", Top(t).of) EXCEPT !.at = "done"]
           below == Popped(stack[t])
           told == Append(below, x)
           r == Append(told, y)
<1>1. /\ stack[t] # << >> /\ Top(t).at = "notify"
      /\ stack' = [stack EXCEPT ![t] = r]
      /\ UNCHANGED <<holder, assessment, calls, fence, finding, observer, open>>
  BY DEF Notify, shared
<1>2. x \in Frame /\ y \in Frame /\ x.at = "done" /\ y.at = "done"
  BY <1>1, TopFacts DEF Frame, NewFrame, Names, States
<1>3. stack[t] \in Seq(Frame) /\ WellStacked(stack[t])
  BY DEF Typed, OneInside
<1>4. below \in Seq(Frame) /\ Idle(below)
  BY <1>1, <1>3, PopsIdle DEF Top
<1> HIDE DEF x, y, below
<1>5. told \in Seq(Frame) /\ Idle(told)
  BY <1>2, <1>4, PushOnIdle DEF Working
<1> HIDE DEF told
<1>6. r \in Seq(Frame) /\ WellStacked(r) /\ Idle(r)
  BY <1>2, <1>5, PushOnIdle DEF Working
<1> HIDE DEF r
<1>7. /\ stack'[t] = r /\ stack' \in [Thread -> Seq(Frame)]
      /\ \A u \in Thread \ {t} : stack'[u] = stack[u]
  BY <1>1, <1>6 DEF Typed
<1>8. Turned(t)
  BY <1>1, <1>6, <1>7 DEF Turned, LockStep
<1>9. Typed'
  BY <1>1, <1>7 DEF Typed
<1>10. NoCommit(stack[t]) /\ NoCommit(stack'[t])
  BY <1>1, <1>6, <1>7, IdleNoCommit DEF NoCommit, Top
<1> QED
  BY <1>1, <1>8, <1>9, <1>10 DEF Quiet

\* find_finding, for a caller or for authorize_containment below it.
LEMMA FindIsQuiet ==
    ASSUME Typed, OneInside, NEW t \in Thread, Find(t)
    PROVE  Quiet(t)
<1> DEFINE below == Popped(stack[t])
           caller == below[Len(below)]
           found == finding[Top(t).of]
           x == [caller EXCEPT !.at = IF found = "none" THEN "done" ELSE "notify",
                               !.notice = found]
           r == IF below = << >> \/ caller.at # "reread" THEN below
                ELSE Append(Popped(below), x)
<1>1. /\ stack[t] # << >> /\ Top(t).at = "body" /\ Top(t).call = "find"
      /\ stack' = [stack EXCEPT ![t] = r] /\ holder' = Nobody
      /\ UNCHANGED <<assessment, calls, fence, finding, observer, open>>
  BY DEF Find, At, shared, Release
<1>2. stack[t] \in Seq(Frame) /\ WellStacked(stack[t])
  BY DEF Typed, OneInside
<1>3. holder = t
  BY <1>1, WorkerHolds DEF Working
<1>4. below \in Seq(Frame) /\ WellStacked(below) /\ Idle(below)
  BY <1>1, <1>2, PopsIdle DEF Top
<1>5. r \in Seq(Frame) /\ WellStacked(r) /\ Idle(r)
  <2>1. CASE below = << >> \/ caller.at # "reread"
    BY <1>4, <2>1
  <2>2. CASE below # << >> /\ caller.at = "reread"
    <3>1. caller \in Frame
      BY <1>4, <2>2, PoppedFacts
    <3>2. found \in States
      BY <1>1, TopFacts DEF Typed, Frame
    <3>3. x \in Frame /\ x.at \in {"done", "notify"}
      BY <3>1, <3>2 DEF Frame, States
    <3>4. Popped(below) \in Seq(Frame) /\ Idle(Popped(below))
      BY <1>4, <2>2, PopsIdle
    <3> HIDE DEF x, below
    <3>5. LET q == Append(Popped(below), x)
          IN  q \in Seq(Frame) /\ WellStacked(q) /\ Idle(q)
      BY <3>3, <3>4, PushOnIdle DEF Working
    <3> QED
      BY <2>2, <3>5
  <2> QED
    BY <2>1, <2>2
<1> HIDE DEF r
<1>6. /\ stack'[t] = r /\ stack' \in [Thread -> Seq(Frame)]
      /\ \A u \in Thread \ {t} : stack'[u] = stack[u]
  BY <1>1, <1>5 DEF Typed
<1>7. Turned(t)
  BY <1>1, <1>3, <1>5, <1>6 DEF Turned, LockStep
<1>8. Typed'
  BY <1>1, <1>6 DEF Typed
<1>9. NoCommit(stack[t]) /\ NoCommit(stack'[t])
  BY <1>1, <1>5, <1>6, IdleNoCommit DEF NoCommit, Top
<1> QED
  BY <1>1, <1>7, <1>8, <1>9 DEF Quiet

-----------------------------------------------------------------------------
(* The invariant is inductive. *)

\* Quiet steps leave what was checked, and moves in progress, as they are.
LEMMA QuietKeepsInvariant ==
    ASSUME IInv, NEW t \in Thread, Quiet(t)
    PROVE  IInv'
<1>1. \A u \in Thread \ {t} : stack'[u] = stack[u]
  BY DEF Quiet, Turned
<1>2. OneInside'
  BY TurnKeepsOneInside DEF Quiet, IInv
<1>3. Checked'
  <2> SUFFICES ASSUME NEW u \in Thread, (stack'[u] # << >> /\ Top(u)'.at = "commit")
               PROVE  stack'[u] = stack[u]
    BY DEF Checked, At, Top, Quiet, IInv
  <2> QED
    BY <1>1 DEF Quiet, NoCommit, Top
<1>4. Whole'
  <2>1. Moving => Moving'
    <3> SUFFICES ASSUME NEW u \in Thread, At(u, "advance", "commit")
                 PROVE  At(u, "advance", "commit")'
      BY DEF Moving
    <3> QED
      BY <1>1 DEF Quiet, NoCommit, Top, At
  <2> QED
    BY <2>1 DEF Whole, Quiet, IInv
<1>5. Unborn'
  BY DEF Unborn, Quiet, IInv
<1> QED
  BY <1>2, <1>3, <1>4, <1>5 DEF IInv, Quiet

\* Nobody but the thread that stepped has anything checked.
LEMMA CheckedByOne ==
    ASSUME NEW t \in Thread, \A u \in Thread \ {t} : NoCommit(stack'[u]),
           \/ NoCommit(stack'[t])
           \/ /\ Top(t)'.call = "publish"
              /\ open' /\ Top(t)'.of = fence' /\ finding'[fence'] = "none"
           \/ /\ Top(t)'.call = "authorize"
              /\ Top(t)'.of = fence' /\ finding'[fence'] \in Live
           \/ Top(t)'.call = "advance" /\ open' /\ finding'[fence'] = "none"
    PROVE  Checked'
BY DEF Checked, At, NoCommit, Top

\* A move begins: it is in progress, and its fence has no finding yet.
LEMMA AdvanceKeepsInvariant ==
    ASSUME IInv, NEW t \in Thread, Advance(t)
    PROVE  IInv'
<1> DEFINE x == [Top(t) EXCEPT !.at = "commit"]
<1>1. /\ Typed /\ OneInside /\ Unborn /\ At(t, "advance", "body")
      /\ fence < MaxFence /\ fence' = fence + 1
      /\ UNCHANGED <<finding, observer, open, assessment, calls>>
  BY DEF IInv, Advance
<1>2. /\ fence \in Fences /\ fence' \in Fences /\ finding[fence'] = "none"
      /\ fence \in Nat /\ \A f \in Fences : f \in Nat
  BY <1>1, FacadeAssumption DEF Typed, Fences, Unborn
<1>3. Unborn'
  BY <1>1, <1>2 DEF Unborn
<1>4. CASE open
  <2>1. Becomes(t, x) /\ UNCHANGED holder
    BY <1>4 DEF Advance
  <2>2. x \in Frame /\ x.call = "advance" /\ x.at = "commit"
    BY <1>1, WorksAlone DEF Frame
  <2> HIDE DEF x
  <2>3. /\ Turned(t) /\ stack'[t] # << >> /\ Top(t)' = x
        /\ holder' \in Thread \cup {Nobody} /\ stack' \in [Thread -> Seq(Frame)]
        /\ \A u \in Thread \ {t} : NoCommit(stack'[u])
    BY <1>1, <2>1, <2>2, WorkTurns
  <2>4. Typed' /\ OneInside'
    BY <1>1, <1>2, <2>3, TurnKeepsOneInside DEF Typed
  <2>5. Checked'
    BY <1>1, <1>2, <1>4, <2>2, <2>3, CheckedByOne
  <2>6. Moving'
    BY <2>2, <2>3 DEF Moving, At
  <2> QED
    BY <1>3, <2>4, <2>5, <2>6 DEF IInv, Whole
<1>5. CASE ~ open
  <2>1. Release /\ Returns(t)
    BY <1>5 DEF Advance
  <2>2. /\ Turned(t) /\ holder' \in Thread \cup {Nobody}
        /\ stack' \in [Thread -> Seq(Frame)] /\ \A u \in Thread : NoCommit(stack'[u])
    BY <1>1, <2>1, WorkReturns
  <2>3. Typed' /\ OneInside'
    BY <1>1, <1>2, <2>2, TurnKeepsOneInside DEF Typed
  <2>4. Checked'
    BY <2>2, CheckedByOne
  <2> QED
    BY <1>1, <1>3, <1>5, <2>3, <2>4 DEF IInv, Whole
<1> QED
  BY <1>4, <1>5

\* A move ends: what is live is of the fence in force.
LEMMA FenceStaleKeepsInvariant ==
    ASSUME IInv, NEW t \in Thread, FenceStale(t)
    PROVE  IInv'
<1>1. /\ Typed /\ OneInside /\ Unborn /\ At(t, "advance", "commit")
      /\ finding' = [f \in Fences |->
                        IF finding[f] \in Live /\ f # fence THEN "fenced" ELSE finding[f]]
      /\ Release /\ Returns(t)
      /\ UNCHANGED <<fence, observer, open, assessment, calls>>
  BY DEF IInv, FenceStale
<1>2. /\ Turned(t) /\ holder' \in Thread \cup {Nobody}
      /\ stack' \in [Thread -> Seq(Frame)] /\ \A u \in Thread : NoCommit(stack'[u])
  BY <1>1, WorkReturns
<1>3. finding' \in [Fences -> States]
  BY <1>1 DEF Typed, States
<1>4. Typed' /\ OneInside'
  BY <1>1, <1>2, <1>3, TurnKeepsOneInside DEF Typed
<1>5. Checked'
  BY <1>2, CheckedByOne
<1>6. Whole'
  BY <1>1 DEF Whole, Live
<1>7. Unborn'
  BY <1>1 DEF Unborn, Live
<1> QED
  BY <1>4, <1>5, <1>6, <1>7 DEF IInv

\* The two checks change nothing but the frame of their call.
LEMMA CheckKeepsInvariant ==
    ASSUME IInv, NEW t \in Thread, CheckAssessment(t) \/ CheckFinding(t)
    PROVE  IInv'
<1> DEFINE x == [Top(t) EXCEPT !.at = "commit"]
           pass == \/ /\ Top(t).call = "publish" /\ open
                      /\ Top(t).of = fence /\ finding[fence] = "none"
                   \/ /\ Top(t).call = "authorize"
                      /\ Top(t).of = fence /\ finding[fence] \in Live
<1>1. /\ Typed /\ OneInside /\ Whole /\ Unborn
      /\ UNCHANGED <<fence, finding, observer, open, assessment, calls>>
      /\ \E c \in {"publish", "authorize"} : At(t, c, "body")
      /\ \/ pass /\ Becomes(t, x) /\ UNCHANGED holder
         \/ Release /\ Returns(t)
  BY DEF IInv, CheckAssessment, CheckFinding, Publishable, shared, At
<1>2. /\ Top(t) \in Frame /\ ~ Moving
      /\ \A u \in Thread \ {t} : NoCommit(stack[u])
  BY <1>1, WorksAlone
<1>3. Unborn'
  BY <1>1 DEF Unborn
<1>4. Whole'
  BY <1>1, <1>2 DEF Whole
<1>5. CASE pass /\ Becomes(t, x) /\ UNCHANGED holder
  <2>1. x \in Frame /\ x.call = Top(t).call /\ x.of = Top(t).of /\ x.at = "commit"
    BY <1>2 DEF Frame
  <2> HIDE DEF x
  <2>2. /\ Turned(t) /\ stack'[t] # << >> /\ Top(t)' = x
        /\ holder' \in Thread \cup {Nobody} /\ stack' \in [Thread -> Seq(Frame)]
        /\ \A u \in Thread \ {t} : NoCommit(stack'[u])
    BY <1>1, <1>5, <2>1, WorkTurns
  <2>3. Typed' /\ OneInside'
    BY <1>1, <2>2, TurnKeepsOneInside DEF Typed
  <2>4. Checked'
    BY <1>1, <1>5, <2>1, <2>2, CheckedByOne
  <2> QED
    BY <1>3, <1>4, <2>3, <2>4 DEF IInv
<1>6. CASE Release /\ Returns(t)
  <2>1. /\ Turned(t) /\ holder' \in Thread \cup {Nobody}
        /\ stack' \in [Thread -> Seq(Frame)] /\ \A u \in Thread : NoCommit(stack'[u])
    BY <1>1, <1>6, WorkReturns
  <2>2. Typed' /\ OneInside'
    BY <1>1, <2>1, TurnKeepsOneInside DEF Typed
  <2>3. Checked'
    BY <2>1, CheckedByOne
  <2> QED
    BY <1>3, <1>4, <2>2, <2>3 DEF IInv
<1> QED
  BY <1>1, <1>5, <1>6

\* The finding that is registered is the one checked, and room is made only
\* where a finding was fenced.
LEMMA RegisterFacts ==
    ASSUME IInv, NEW t \in Thread, RegisterFinding(t)
    PROVE  /\ open /\ finding[fence] = "none" /\ finding'[fence] = "confirmed"
           /\ finding' \in [Fences -> States]
           /\ \A f \in Fences \ {fence} :
                 \/ finding'[f] = finding[f]
                 \/ finding[f] = "fenced" /\ finding'[f] = "none"
<1>1. At(t, "publish", "commit") /\ fence \in Fences
  BY DEF IInv, RegisterFinding, Typed
<1>2. open /\ Top(t).of = fence /\ finding[fence] = "none"
  BY <1>1 DEF IInv, Checked
<1>3. PICK room \in IF Cardinality(Retained) < MaxRetained THEN {{}}
                    ELSE {{v} : v \in {w \in Retained : finding[w] = "fenced"}} :
         finding' = [f \in Fences |-> IF f = fence THEN "confirmed"
                                      ELSE IF f \in room THEN "none" ELSE finding[f]]
  <2>1. PICK room \in IF Cardinality(Retained) < MaxRetained THEN {{}}
                      ELSE {{v} : v \in {w \in Retained : finding[w] = "fenced"}} :
           finding' = [f \in Fences |-> IF f = Top(t).of THEN "confirmed"
                                        ELSE IF f \in room THEN "none" ELSE finding[f]]
    BY Zenon DEF RegisterFinding
  <2> QED BY <1>2, <2>1
<1>4. \A f \in room : finding[f] = "fenced"
  BY <1>3
<1>5. finding' \in [Fences -> States]
  BY <1>3 DEF IInv, Typed, States
<1> QED
  BY <1>1, <1>2, <1>3, <1>4, <1>5

\* A finding is registered under the fence in force.
LEMMA RegisterKeepsInvariant ==
    ASSUME IInv, NEW t \in Thread, RegisterFinding(t)
    PROVE  IInv'
<1> DEFINE x == [Top(t) EXCEPT !.at = IF observer = NoObserver THEN "done" ELSE "notify",
                               !.told = observer, !.notice = "confirmed"]
<1>1. /\ Typed /\ OneInside /\ Whole /\ Unborn /\ At(t, "publish", "commit")
      /\ Becomes(t, x) /\ Release
      /\ UNCHANGED <<fence, observer, open, assessment, calls>>
  BY DEF IInv, RegisterFinding
<1>2. Top(t) \in Frame /\ ~ Moving
  BY <1>1, WorksAlone
<1>3. x \in Frame /\ x.at \in {"done", "notify"}
  BY <1>1, <1>2 DEF Frame, Typed, States
<1> HIDE DEF x
<1>4. ~ Working(x)
  BY <1>3 DEF Working
<1>5. /\ Turned(t) /\ stack'[t] # << >> /\ Top(t)' = x
      /\ holder' \in Thread \cup {Nobody} /\ stack' \in [Thread -> Seq(Frame)]
      /\ \A u \in Thread \ {t} : NoCommit(stack'[u])
  BY <1>1, <1>3, <1>4, WorkTurns
<1>6. Typed' /\ OneInside'
  BY <1>1, <1>5, RegisterFacts, TurnKeepsOneInside DEF Typed
<1>7. NoCommit(stack'[t])
  BY <1>3, <1>5 DEF NoCommit, Top
<1>8. Checked'
  BY <1>5, <1>7, CheckedByOne
<1>9. Whole'
  BY <1>1, <1>2, RegisterFacts DEF Whole, Live
<1>10. Unborn'
  <2> SUFFICES ASSUME NEW f \in Fences, f > fence PROVE finding'[f] = "none"
    BY <1>1 DEF Unborn
  <2>1. f # fence /\ finding[f] = "none"
    BY <1>1 DEF Unborn, Typed, Fences
  <2> QED
    BY <2>1, RegisterFacts
<1> QED
  BY <1>6, <1>8, <1>9, <1>10 DEF IInv

\* The finding that is requested is the one checked, and still live.
LEMMA AuthorizeFacts ==
    ASSUME IInv, NEW t \in Thread, Authorize(t)
    PROVE  /\ finding[fence] \in Live
           /\ finding' = [finding EXCEPT ![fence] = "requested"]
BY DEF IInv, Checked, Authorize

\* A request leaves the finding live under the fence in force.
LEMMA AuthorizeKeepsInvariant ==
    ASSUME IInv, NEW t \in Thread, Authorize(t)
    PROVE  IInv'
<1> DEFINE x == [Top(t) EXCEPT !.at = IF TellsLater THEN "reread" ELSE "done",
                               !.told = observer]
<1>1. /\ Typed /\ OneInside /\ Whole /\ Unborn /\ At(t, "authorize", "commit")
      /\ Becomes(t, x) /\ Release
      /\ UNCHANGED <<fence, observer, open, assessment, calls>>
  BY DEF IInv, Authorize
<1>2. Top(t) \in Frame /\ ~ Moving
  BY <1>1, WorksAlone
<1>3. x \in Frame /\ x.at \in {"done", "reread"}
  BY <1>1, <1>2 DEF Frame, Typed
<1> HIDE DEF x
<1>4. ~ Working(x)
  BY <1>3 DEF Working
<1>5. /\ Turned(t) /\ stack'[t] # << >> /\ Top(t)' = x
      /\ holder' \in Thread \cup {Nobody} /\ stack' \in [Thread -> Seq(Frame)]
      /\ \A u \in Thread \ {t} : NoCommit(stack'[u])
  BY <1>1, <1>3, <1>4, WorkTurns
<1>6. finding' \in [Fences -> States]
  BY <1>1, AuthorizeFacts DEF Typed, States
<1>7. Typed' /\ OneInside'
  BY <1>1, <1>5, <1>6, TurnKeepsOneInside DEF Typed
<1>8. NoCommit(stack'[t])
  BY <1>3, <1>5 DEF NoCommit, Top
<1>9. Checked'
  BY <1>5, <1>8, CheckedByOne
<1>10. Whole'
  BY <1>1, <1>2, AuthorizeFacts DEF Whole, Typed
<1>11. Unborn'
  <2> SUFFICES ASSUME NEW f \in Fences, f > fence PROVE finding'[f] = "none"
    BY <1>1 DEF Unborn
  <2>1. f # fence /\ finding[f] = "none"
    BY <1>1 DEF Unborn, Typed, Fences
  <2> QED
    BY <2>1, AuthorizeFacts, <1>1 DEF Typed
<1> QED
  BY <1>7, <1>9, <1>10, <1>11 DEF IInv

\* A closed runtime has nothing to keep but its types and the lock.
LEMMA CloseKeepsInvariant ==
    ASSUME IInv, NEW t \in Thread, Close(t)
    PROVE  IInv'
<1>1. /\ Typed /\ OneInside /\ Unborn /\ At(t, "close", "body")
      /\ open' = FALSE /\ Release /\ Returns(t)
      /\ UNCHANGED <<fence, finding, observer, assessment, calls>>
  BY DEF IInv, Close
<1>2. /\ Turned(t) /\ holder' \in Thread \cup {Nobody}
      /\ stack' \in [Thread -> Seq(Frame)] /\ \A u \in Thread : NoCommit(stack'[u])
  BY <1>1, WorkReturns
<1>3. Typed' /\ OneInside'
  BY <1>1, <1>2, TurnKeepsOneInside DEF Typed
<1>4. Checked'
  BY <1>2, CheckedByOne
<1>5. Whole' /\ Unborn'
  BY <1>1 DEF Whole, Unborn
<1> QED
  BY <1>3, <1>4, <1>5 DEF IInv

\* The initial state has the invariant.
LEMMA InitHasInvariant == Init => IInv
<1> SUFFICES ASSUME Init PROVE IInv
  OBVIOUS
<1>1. /\ holder = Nobody /\ fence = 1 /\ finding = [f \in Fences |-> "none"]
      /\ observer = NoObserver /\ open = TRUE
      /\ assessment = [t \in Thread |-> 0] /\ stack = [t \in Thread |-> << >>]
      /\ calls = [t \in Thread |-> 0]
  BY DEF Init
<1>2. << >> \in Seq(Frame) /\ Len(<< >>) = 0
  OBVIOUS
<1>3. Typed
  BY <1>1, <1>2, FacadeAssumption DEF Typed, Fences, States
<1>4. OneInside
  BY <1>1, <1>2 DEF OneInside, WellStacked, Idle
<1>5. Checked /\ Whole /\ Unborn
  BY <1>1 DEF Checked, Whole, Unborn, At, Live
<1> QED
  BY <1>3, <1>4, <1>5 DEF IInv

\* Every step keeps it.
LEMMA NextKeepsInvariant == IInv /\ [Next]_vars => IInv'
<1> SUFFICES ASSUME IInv, [Next]_vars PROVE IInv'
  OBVIOUS
<1> USE DEF IInv
<1>1. ASSUME NEW t \in Thread, NEW c \in Calls, Call(t, c) PROVE IInv'
  BY <1>1, CallIsQuiet, QuietKeepsInvariant
<1>2. ASSUME NEW t \in Thread, Lock(t) PROVE IInv'
  BY <1>2, LockIsQuiet, QuietKeepsInvariant
<1>3. ASSUME NEW t \in Thread,
             Detect(t) \/ AdvanceIsRefused(t) \/ SetObserver(t) \/ StateDigest(t)
      PROVE  IInv'
  BY <1>3, PlainBodiesAreQuiet, QuietKeepsInvariant
<1>4. ASSUME NEW t \in Thread, Advance(t) PROVE IInv'
  BY <1>4, AdvanceKeepsInvariant
<1>5. ASSUME NEW t \in Thread, FenceStale(t) PROVE IInv'
  BY <1>5, FenceStaleKeepsInvariant
<1>6. ASSUME NEW t \in Thread, CheckAssessment(t) \/ CheckFinding(t) PROVE IInv'
  BY <1>6, CheckKeepsInvariant
<1>7. ASSUME NEW t \in Thread, RegisterFinding(t) PROVE IInv'
  BY <1>7, RegisterKeepsInvariant
<1>8. ASSUME NEW t \in Thread, Authorize(t) PROVE IInv'
  BY <1>8, AuthorizeKeepsInvariant
<1>9. ASSUME NEW t \in Thread, Close(t) PROVE IInv'
  BY <1>9, CloseKeepsInvariant
<1>10. ASSUME NEW t \in Thread, Find(t) PROVE IInv'
  BY <1>10, FindIsQuiet, QuietKeepsInvariant
<1>11. ASSUME NEW t \in Thread, Describe(t) PROVE IInv'
  BY <1>11, DescribeIsQuiet, QuietKeepsInvariant
<1>12. ASSUME NEW t \in Thread, Reread(t) PROVE IInv'
  BY <1>12, RereadIsQuiet, QuietKeepsInvariant
<1>13. ASSUME NEW t \in Thread, Notify(t) PROVE IInv'
  BY <1>13, NotifyIsQuiet, QuietKeepsInvariant
<1>14. ASSUME NEW t \in Thread, Return(t) PROVE IInv'
  BY <1>14, ReturnIsQuiet, QuietKeepsInvariant
<1>15. CASE UNCHANGED vars
  BY <1>15 DEF vars, Typed, OneInside, Checked, Whole, Unborn, At, Top, Moving,
               WellStacked, Idle, Working
<1> QED
  BY <1>1, <1>2, <1>3, <1>4, <1>5, <1>6, <1>7, <1>8, <1>9, <1>10, <1>11, <1>12, <1>13,
     <1>14, <1>15 DEF Next, Step

\* It holds in every reachable state.
LEMMA Invariance == Spec => []IInv
<1>1. Init => IInv
  BY InitHasInvariant
<1>2. IInv /\ [Next]_vars => IInv'
  BY NextKeepsInvariant
<1> QED
  BY <1>1, <1>2, PTL DEF Spec

-----------------------------------------------------------------------------
(* The theorems. *)

\* Whoever can take the mutex of an open runtime finds no live finding under a
\* fence that was left: the lock of runtime.cpp covers a whole move, whatever
\* threads, observers and calls there are.
THEOREM MovesAreWhole == Spec => []ReadersSeeWholeMoves
<1>1. IInv => ReadersSeeWholeMoves
  <2> SUFFICES ASSUME IInv, holder = Nobody, open
               PROVE  \A f \in Fences : finding[f] \in Live => f = fence
    BY DEF ReadersSeeWholeMoves
  <2>1. ASSUME NEW t \in Thread, At(t, "advance", "commit") PROVE FALSE
    BY <2>1, WorksAlone, FacadeAssumption DEF IInv
  <2> QED
    BY <2>1 DEF IInv, Whole, Moving
<1> QED
  BY <1>1, Invariance, PTL

-----------------------------------------------------------------------------
(* The calls keep the contract. *)

InForceIn(n) ==
    [topology |-> 1, policy |-> 1, fabric |-> 1, epoch |-> 1, boot |-> 1,
     forwarding |-> n]

\* The fence that counts is a fence vector, and moves forward.
LEMMA InForceFacts ==
    ASSUME NEW m \in Nat, NEW n \in Nat, m <= n
    PROVE  /\ InForceIn(m) \in Authority!Fence
           /\ Authority!Dominates(InForceIn(n), InForceIn(m))
<1>1. InForceIn(m) \in Authority!Fence
  BY DEF InForceIn, Authority!Fence, Authority!Component
<1>2. Authority!Component = {"boot", "epoch", "fabric", "topology", "policy", "forwarding"}
  BY DEF Authority!Component
<1>3. \A c \in Authority!Component : InForceIn(m)[c] <= InForceIn(n)[c]
  BY <1>2 DEF InForceIn
<1> QED
  BY <1>1, <1>3 DEF Authority!Dominates

\* A move of the fence that takes all authority is one the contract knows.
LEMMA MoveRevokes ==
    ASSUME NEW m \in Nat, NEW n \in Nat, m <= n,
           InForce = InForceIn(m), InForce' = InForceIn(n),
           Carrying' = {}, UNCHANGED open
    PROVE  Authority!Revoke
BY InForceFacts DEF Authority!Revoke

\* The number of a fence.
LEMMA FenceIsNat ==
    ASSUME Typed
    PROVE  fence \in Nat /\ fence >= 1 /\ \A f \in Fences : f \in Nat
BY FacadeAssumption DEF Typed, Fences

\* The contract does not see a quiet step.
LEMMA QuietIsUnseen ==
    ASSUME NEW t \in Thread, Quiet(t)
    PROVE  UNCHANGED Authority!contractVars
<1>1. \A u \in Thread \ {t} : stack'[u] = stack[u]
  BY DEF Quiet, Turned
<1>2. ASSUME NEW u \in Thread
      PROVE  At(u, "advance", "commit") <=> At(u, "advance", "commit")'
  BY <1>1 DEF Quiet, NoCommit, Top, At
<1>3. Moving <=> Moving'
  BY <1>2 DEF Moving
<1>4. UNCHANGED <<InForce, Carrying, open>>
  BY <1>3 DEF InForce, Carrying, Quiet
<1> QED
  BY <1>4 DEF Authority!contractVars

\* While the runtime is open, what counts is not moved until what was live is
\* fenced; when it is closed there is nothing to take.
LEMMA AdvanceKeepsContract ==
    ASSUME IInv, NEW t \in Thread, Advance(t)
    PROVE  Authority!Revoke \/ UNCHANGED Authority!contractVars
<1>1. /\ Typed /\ OneInside /\ At(t, "advance", "body") /\ fence' = fence + 1
      /\ UNCHANGED <<finding, open>>
  BY DEF IInv, Advance
<1>2. ~ Moving /\ Top(t) \in Frame
  BY <1>1, WorksAlone
<1>3. InForce = InForceIn(fence) /\ fence \in Nat
  BY <1>1, <1>2, FenceIsNat DEF InForce, InForceIn
<1>4. CASE open
  <2> DEFINE x == [Top(t) EXCEPT !.at = "commit"]
  <2>1. Becomes(t, x) /\ UNCHANGED holder
    BY <1>4 DEF Advance
  <2>2. x \in Frame /\ x.call = "advance" /\ x.at = "commit"
    BY <1>1, <1>2, WorksAlone DEF Frame
  <2> HIDE DEF x
  <2>3. stack'[t] # << >> /\ Top(t)' = x
    BY <1>1, <2>1, <2>2, WorkTurns
  <2>4. Moving'
    BY <2>2, <2>3 DEF Moving, At
  <2>5. InForce' = InForceIn(fence)
    BY <1>1, <1>3, <2>4 DEF InForce, InForceIn
  <2>6. UNCHANGED Carrying
    BY <1>1 DEF Carrying
  <2> QED
    BY <1>1, <1>3, <2>5, <2>6 DEF Authority!contractVars
<1>5. CASE ~ open
  <2>1. Release /\ Returns(t)
    BY <1>5 DEF Advance
  <2>2. \A u \in Thread : NoCommit(stack'[u])
    BY <1>1, <2>1, WorkReturns
  <2>3. ~ Moving'
    BY <2>2 DEF Moving, At, NoCommit, Top
  <2>4. InForce' = InForceIn(fence + 1)
    BY <1>1, <2>3 DEF InForce, InForceIn
  <2>5. Carrying' = {}
    BY <1>1, <1>5 DEF Carrying
  <2>6. fence + 1 \in Nat /\ fence <= fence + 1
    BY <1>3
  <2> QED
    BY <1>1, <1>3, <2>4, <2>5, <2>6, MoveRevokes
<1> QED
  BY <1>4, <1>5

\* Here the move takes effect: the fence in force has no finding yet, so that
\* none is left that is live.
LEMMA FenceStaleRevokes ==
    ASSUME IInv, NEW t \in Thread, FenceStale(t)
    PROVE  Authority!Revoke
<1>1. /\ Typed /\ OneInside /\ At(t, "advance", "commit")
      /\ finding' = [f \in Fences |->
                        IF finding[f] \in Live /\ f # fence THEN "fenced" ELSE finding[f]]
      /\ Release /\ Returns(t) /\ UNCHANGED <<fence, open>>
  BY DEF IInv, FenceStale
<1>2. finding[fence] = "none"
  BY <1>1 DEF IInv, Checked
<1>3. Moving
  BY <1>1 DEF Moving
<1>4. \A u \in Thread : NoCommit(stack'[u])
  BY <1>1, WorkReturns
<1>5. ~ Moving'
  BY <1>4 DEF Moving, At, NoCommit, Top
<1>6. InForce = InForceIn(fence - 1) /\ InForce' = InForceIn(fence)
  BY <1>1, <1>3, <1>5 DEF InForce, InForceIn
<1>7. \A f \in Fences : finding'[f] \notin Live
  BY <1>1, <1>2 DEF Live
<1>8. Carrying' = {}
  BY <1>7 DEF Carrying
<1>9. fence \in Nat /\ fence - 1 \in Nat /\ fence - 1 <= fence
  BY <1>1, FenceIsNat
<1> QED
  BY <1>1, <1>6, <1>8, <1>9, MoveRevokes

\* No move is in progress around the work of another call.
LEMMA NoMoveAround ==
    ASSUME IInv, NEW t \in Thread, NEW c, NEW p \in {"body", "commit"},
           At(t, c, p), c # "advance", UNCHANGED fence,
           \/ Release /\ Returns(t)
           \/ \E x \in Frame : /\ Becomes(t, x) /\ x.call = c
                              /\ (UNCHANGED holder \/ (Release /\ ~ Working(x)))
    PROVE  UNCHANGED InForce
<1>1. Typed /\ OneInside /\ ~ Moving
  BY WorksAlone DEF IInv
<1>2. CASE Release /\ Returns(t)
  <2>1. \A u \in Thread : NoCommit(stack'[u])
    BY <1>1, <1>2, WorkReturns
  <2> QED
    BY <1>1, <2>1 DEF InForce, Moving, At, NoCommit, Top
<1>3. ASSUME NEW x \in Frame, Becomes(t, x), x.call = c,
             UNCHANGED holder \/ (Release /\ ~ Working(x))
      PROVE  UNCHANGED InForce
  <2>1. /\ Top(t)' = x /\ \A u \in Thread \ {t} : NoCommit(stack'[u])
    BY <1>1, <1>3, WorkTurns
  <2>2. ~ Moving'
    BY <1>3, <2>1 DEF Moving, At, NoCommit, Top
  <2> QED
    BY <1>1, <2>2 DEF InForce
<1> QED
  BY <1>2, <1>3

\* Nor the two checks.
LEMMA CheckIsUnseen ==
    ASSUME IInv, NEW t \in Thread, CheckAssessment(t) \/ CheckFinding(t)
    PROVE  UNCHANGED Authority!contractVars
<1> DEFINE x == [Top(t) EXCEPT !.at = "commit"]
<1>1. /\ Typed /\ OneInside /\ UNCHANGED <<fence, finding, open>>
      /\ \/ Release /\ Returns(t)
         \/ Becomes(t, x) /\ UNCHANGED holder
  BY DEF IInv, CheckAssessment, CheckFinding, shared
<1>2. PICK c \in {"publish", "authorize"} : At(t, c, "body")
  BY DEF CheckAssessment, CheckFinding
<1>3. x \in Frame /\ x.call = c
  BY <1>1, <1>2, WorksAlone DEF Frame
<1> HIDE DEF x
<1>4. UNCHANGED InForce
  BY <1>1, <1>2, <1>3, NoMoveAround
<1> QED
  BY <1>1, <1>4 DEF Authority!contractVars, Carrying

\* A registered finding gains authority, alone.
LEMMA RegisterPublishes ==
    ASSUME IInv, NEW t \in Thread, RegisterFinding(t)
    PROVE  Authority!Publish(fence)
<1> DEFINE x == [Top(t) EXCEPT !.at = IF observer = NoObserver THEN "done" ELSE "notify",
                               !.told = observer, !.notice = "confirmed"]
<1>1. /\ Typed /\ OneInside /\ At(t, "publish", "commit") /\ Becomes(t, x) /\ Release
      /\ UNCHANGED <<fence, open>>
  BY DEF IInv, RegisterFinding
<1>2. x \in Frame /\ x.call = "publish" /\ x.at \in {"done", "notify"}
  <2>1. Top(t) \in Frame /\ Top(t).call = "publish"
    BY <1>1, WorksAlone DEF At
  <2>2. observer \in Observer \cup {NoObserver} /\ "confirmed" \in States
    BY <1>1 DEF Typed, States
  <2>3. PICK at \in {"done", "notify"} :
           x = [Top(t) EXCEPT !.at = at, !.told = observer, !.notice = "confirmed"]
    OBVIOUS
  <2> HIDE DEF x
  <2>4. x \in Frame /\ x.call = Top(t).call /\ x.at = at
    BY <2>1, <2>2, <2>3 DEF Frame
  <2> QED BY <2>1, <2>3, <2>4
<1> HIDE DEF x
<1>3. UNCHANGED InForce
  BY <1>1, <1>2, NoMoveAround DEF Working
<1>4. open /\ fence \in Fences /\ fence \notin Carrying
  BY <1>1, RegisterFacts DEF Carrying, Live, Typed
<1>5. Carrying' = Carrying \cup {fence}
  <2>1. \A f \in Fences : finding'[f] \in Live <=> finding[f] \in Live \/ f = fence
    BY <1>1, RegisterFacts DEF Live
  <2> QED
    BY <1>1, <1>4, <2>1 DEF Carrying
<1> QED
  BY <1>1, <1>3, <1>4, <1>5 DEF Authority!Publish

\* A request neither gives nor takes authority.
LEMMA AuthorizeIsUnseen ==
    ASSUME IInv, NEW t \in Thread, Authorize(t)
    PROVE  UNCHANGED Authority!contractVars
<1> DEFINE x == [Top(t) EXCEPT !.at = IF TellsLater THEN "reread" ELSE "done",
                               !.told = observer]
<1>1. /\ Typed /\ OneInside /\ At(t, "authorize", "commit") /\ Becomes(t, x) /\ Release
      /\ UNCHANGED <<fence, open>>
  BY DEF IInv, Authorize
<1>2. x \in Frame /\ x.call = "authorize" /\ x.at \in {"done", "reread"}
  <2>1. Top(t) \in Frame /\ Top(t).call = "authorize"
    BY <1>1, WorksAlone DEF At
  <2>2. observer \in Observer \cup {NoObserver}
    BY <1>1 DEF Typed
  <2>3. PICK at \in {"done", "reread"} :
           x = [Top(t) EXCEPT !.at = at, !.told = observer]
    OBVIOUS
  <2> HIDE DEF x
  <2>4. "none" \in States
    BY DEF States
  <2>5. x \in Frame /\ x.call = Top(t).call /\ x.at = at
    BY <2>1, <2>2, <2>3, <2>4 DEF Frame
  <2> QED BY <2>1, <2>3, <2>5
<1> HIDE DEF x
<1>3. UNCHANGED InForce
  BY <1>1, <1>2, NoMoveAround DEF Working
<1>4. \A f \in Fences : finding'[f] \in Live <=> finding[f] \in Live
  BY <1>1, AuthorizeFacts DEF Live, Typed
<1> QED
  BY <1>1, <1>3, <1>4 DEF Authority!contractVars, Carrying

\* A closed runtime has no authority.
LEMMA CloseStops ==
    ASSUME IInv, NEW t \in Thread, Close(t)
    PROVE  Authority!Stop
<1>1. At(t, "close", "body") /\ open' = FALSE /\ Release /\ Returns(t) /\ UNCHANGED fence
  BY DEF Close
<1>2. UNCHANGED InForce
  BY <1>1, NoMoveAround
<1> QED
  BY <1>1, <1>2 DEF Authority!Stop, Carrying

\* Every step is one of the contract's, or none.
LEMMA StepsKeepContract ==
    IInv /\ [Next]_vars => [Authority!ContractNext]_(Authority!contractVars)
<1> SUFFICES ASSUME IInv, [Next]_vars
             PROVE  Authority!ContractNext \/ UNCHANGED Authority!contractVars
  OBVIOUS
<1> USE DEF IInv
<1>1. ASSUME NEW t \in Thread, Quiet(t) PROVE UNCHANGED Authority!contractVars
  BY <1>1, QuietIsUnseen
<1>2. ASSUME NEW t \in Thread, NEW c \in Calls, Call(t, c)
      PROVE  UNCHANGED Authority!contractVars
  BY <1>1, <1>2, CallIsQuiet
<1>3. ASSUME NEW t \in Thread,
             \/ Lock(t) \/ Find(t) \/ Describe(t) \/ Reread(t) \/ Notify(t) \/ Return(t)
             \/ Detect(t) \/ AdvanceIsRefused(t) \/ SetObserver(t) \/ StateDigest(t)
      PROVE  UNCHANGED Authority!contractVars
  BY <1>1, <1>3, LockIsQuiet, FindIsQuiet, DescribeIsQuiet, RereadIsQuiet,
     NotifyIsQuiet, ReturnIsQuiet, PlainBodiesAreQuiet
<1>4. ASSUME NEW t \in Thread, Advance(t) \/ FenceStale(t)
      PROVE  Authority!Revoke \/ UNCHANGED Authority!contractVars
  BY <1>4, AdvanceKeepsContract, FenceStaleRevokes
<1>5. ASSUME NEW t \in Thread, CheckAssessment(t) \/ CheckFinding(t) \/ Authorize(t)
      PROVE  UNCHANGED Authority!contractVars
  BY <1>5, CheckIsUnseen, AuthorizeIsUnseen
<1>6. ASSUME NEW t \in Thread, RegisterFinding(t) \/ Close(t)
      PROVE  (\E f \in Fences : Authority!Publish(f)) \/ Authority!Stop
  BY <1>6, RegisterPublishes, CloseStops DEF Typed
<1>7. CASE UNCHANGED vars
  BY <1>7 DEF vars, Authority!contractVars, InForce, Carrying, Moving, At, Top
<1> QED
  BY <1>2, <1>3, <1>4, <1>5, <1>6, <1>7 DEF Next, Step, Authority!ContractNext

\* The calls of any number of threads, with the observers' calls among them,
\* keep the contract of module FencedAuthority, which module Runtime keeps
\* with each call in one step.
THEOREM CallsKeepAuthority == Spec => ImplementsAuthority
<1>1. Init => Authority!ContractInit
  <2> SUFFICES ASSUME Init PROVE Authority!ContractInit
    OBVIOUS
  <2>1. fence = 1 /\ open = TRUE /\ finding = [f \in Fences |-> "none"] /\ ~ Moving
    BY DEF Init, Moving, At
  <2>2. InForce = InForceIn(1) /\ Carrying = {}
    BY <2>1 DEF InForce, InForceIn, Carrying, Live
  <2> QED
    BY <2>1, <2>2, InForceFacts DEF Authority!ContractInit
<1>2. Spec => []IInv
  BY Invariance
<1>3. IInv /\ [Next]_vars => [Authority!ContractNext]_(Authority!contractVars)
  BY StepsKeepContract
<1> QED
  BY <1>1, <1>2, <1>3, PTL DEF Spec, ImplementsAuthority, Authority!Contract

-----------------------------------------------------------------------------
(***************************************************************************)
(* What observers are told, for any threads, observers and bounds: the     *)
(* copy a callback shows was taken when its call was done, although the    *)
(* lock is given up in between and other calls go on.                      *)
(***************************************************************************)

-----------------------------------------------------------------------------
(* The invariant, for findings g and a fence n. *)

\* The finding of fence f was published; if it is gone, the fence has moved on.
Seen(g, n, f) == g[f] = "none" => f < n

NoticeOf(call) == IF call = "publish" THEN {"confirmed"} ELSE {"requested", "fenced"}

\* What a call tells its observer was reached by the finding.
Tells(g, n, x) ==
    /\ x.call \in {"publish", "authorize"} /\ x.of \in Fences
    /\ x.told # NoObserver /\ x.notice \in NoticeOf(x.call)
    /\ Rank[x.notice] <= Rank[g[x.of]] /\ Seen(g, n, x.of)

\* The finding that authorize_containment looks at again was requested.
Rereads(g, n, x) ==
    /\ x.call = "authorize" /\ x.of \in Fences
    /\ x.told # NoObserver
    /\ Rank["requested"] <= Rank[g[x.of]] /\ Seen(g, n, x.of)

Honest(g, n, x) ==
    /\ x.at = "notify" => Tells(g, n, x)
    /\ x.at = "reread" => Rereads(g, n, x)

\* Frame y is on x: the observer of x, or its second look.
OnTop(g, n, x, y) ==
    /\ y.call = "callback" => Tells(g, n, x)
    /\ y.call = "find" /\ x.at = "reread" => y.of = x.of

Truthful(g, n, s) ==
    /\ \A i \in 1..Len(s) : Honest(g, n, s[i])
    /\ \A i \in 2..Len(s) : OnTop(g, n, s[i - 1], s[i])

\* What is fenced was left.
Left(g, n) == \A f \in Fences : g[f] = "fenced" => f < n

NInv ==
    /\ IInv /\ Left(finding, fence)
    /\ \A t \in Thread : Truthful(finding, fence, stack[t])

-----------------------------------------------------------------------------
(* Findings grow. *)

\* The order in which a finding goes through its states.
LEMMA RankFacts ==
    /\ Rank["confirmed"] = 1 /\ Rank["requested"] = 2
    /\ Rank["fenced"] = 3 /\ Rank["none"] = 4
    /\ \A state \in States : Rank[state] \in 1..4
BY DEF Rank, States

\* Findings h under fence m are findings g under fence n, later.
Later(g, n, h, m) ==
    \A f \in Fences : Seen(g, n, f) =>
        Seen(h, m, f) /\ Rank[g[f]] <= Rank[h[f]]

\* What was true of a call stays true as findings grow.
LEMMA LaterKeeps ==
    ASSUME NEW g \in [Fences -> States], NEW h \in [Fences -> States],
           NEW n, NEW m, Later(g, n, h, m),
           NEW s \in Seq(Frame), Truthful(g, n, s)
    PROVE  Truthful(h, m, s)
<1>1. ASSUME NEW x \in Frame, Tells(g, n, x) PROVE Tells(h, m, x)
  <2>1. x.notice \in States /\ x.of \in Fences
    BY <1>1 DEF Tells, Frame
  <2>2. g[x.of] \in States /\ h[x.of] \in States
    BY <2>1
  <2>3. Rank[x.notice] \in Int /\ Rank[g[x.of]] \in Int /\ Rank[h[x.of]] \in Int
    BY <2>1, <2>2, RankFacts
  <2>4. Rank[g[x.of]] <= Rank[h[x.of]] /\ Seen(h, m, x.of)
    BY <1>1, <2>1 DEF Later, Tells
  <2>5. Rank[x.notice] <= Rank[g[x.of]]
    BY <1>1 DEF Tells
  <2>6. Rank[x.notice] <= Rank[h[x.of]]
    BY <2>3, <2>4, <2>5
  <2> QED
    BY <1>1, <2>4, <2>6 DEF Tells
<1>2. ASSUME NEW x \in Frame, Rereads(g, n, x) PROVE Rereads(h, m, x)
  <2>1. x.of \in Fences
    BY <1>2 DEF Rereads
  <2>2. g[x.of] \in States /\ h[x.of] \in States
    BY <2>1
  <2>3. Rank["requested"] = 2 /\ Rank[g[x.of]] \in Int /\ Rank[h[x.of]] \in Int
    BY <2>2, RankFacts
  <2>4. Rank[g[x.of]] <= Rank[h[x.of]] /\ Seen(h, m, x.of)
    BY <1>2, <2>1 DEF Later, Rereads
  <2>5. Rank["requested"] <= Rank[g[x.of]]
    BY <1>2 DEF Rereads
  <2>6. Rank["requested"] <= Rank[h[x.of]]
    BY <2>3, <2>4, <2>5
  <2> QED
    BY <1>2, <2>4, <2>6 DEF Rereads
<1>3. \A i \in 1..Len(s) : s[i] \in Frame
  OBVIOUS
<1>4. \A i \in 2..Len(s) : i \in 1..Len(s) /\ i - 1 \in 1..Len(s)
  OBVIOUS
<1>5. \A i \in 1..Len(s) : Honest(h, m, s[i])
  BY <1>1, <1>2, <1>3 DEF Honest, Truthful
<1>6. \A i \in 2..Len(s) : OnTop(h, m, s[i - 1], s[i])
  BY <1>1, <1>3, <1>4 DEF OnTop, Truthful
<1> QED
  BY <1>5, <1>6 DEF Truthful

-----------------------------------------------------------------------------
(* Stacks. *)

\* A stack without its top.
LEMMA TruthfulBelow ==
    ASSUME NEW g, NEW n, NEW s \in Seq(Frame), s # << >>, Truthful(g, n, s)
    PROVE  Truthful(g, n, Popped(s)) /\ Popped(s) \in Seq(Frame)
<1>1. /\ Popped(s) \in Seq(Frame) /\ Len(Popped(s)) = Len(s) - 1
      /\ \A i \in 1..(Len(s) - 1) : Popped(s)[i] = s[i]
      /\ Len(s) \in Nat \ {0}
  BY PoppedFacts
<1>2. \A i \in 1..(Len(s) - 1) : i \in 1..Len(s)
  BY <1>1
<1>3. \A i \in 2..(Len(s) - 1) :
         i \in 2..Len(s) /\ i \in 1..(Len(s) - 1) /\ i - 1 \in 1..(Len(s) - 1)
  BY <1>1
<1> QED
  BY <1>1, <1>2, <1>3 DEF Truthful

\* A stack with a new top.
LEMMA TruthfulOnTop ==
    ASSUME NEW g, NEW n, NEW s \in Seq(Frame), Truthful(g, n, s),
           NEW x \in Frame, Honest(g, n, x),
           s # << >> => OnTop(g, n, s[Len(s)], x)
    PROVE  Truthful(g, n, Append(s, x))
<1> DEFINE r == Append(s, x)
<1>1. /\ Len(r) = Len(s) + 1 /\ Len(s) \in Nat /\ r[Len(s) + 1] = x
      /\ \A i \in 1..Len(s) : r[i] = s[i]
  BY PushedFacts
<1> HIDE DEF r
<1>2. \A i \in 1..Len(r) : i \in 1..Len(s) \/ i = Len(s) + 1
  BY <1>1
<1>3. \A i \in 2..Len(r) :
         \/ i \in 2..Len(s) /\ i \in 1..Len(s) /\ i - 1 \in 1..Len(s)
         \/ i = Len(s) + 1 /\ i - 1 = Len(s) /\ Len(s) \in 1..Len(s)
  BY <1>1
<1>4. Len(s) \in 1..Len(s) => s # << >>
  OBVIOUS
<1>5. \A i \in 1..Len(r) : Honest(g, n, r[i])
  BY <1>1, <1>2 DEF Truthful
<1>6. \A i \in 2..Len(r) : OnTop(g, n, r[i - 1], r[i])
  BY <1>1, <1>3, <1>4 DEF Truthful
<1> QED
  BY <1>5, <1>6 DEF Truthful, r

\* A stack whose top call goes on.
LEMMA TruthfulTurned ==
    ASSUME NEW g, NEW n, NEW s \in Seq(Frame), s # << >>, Truthful(g, n, s),
           NEW x \in Frame, Honest(g, n, x),
           x.call = s[Len(s)].call, x.of = s[Len(s)].of
    PROVE  Truthful(g, n, Append(Popped(s), x))
<1> DEFINE r == Popped(s)
<1>1. /\ r \in Seq(Frame) /\ Len(r) = Len(s) - 1 /\ Len(s) \in Nat \ {0}
      /\ \A i \in 1..(Len(s) - 1) : r[i] = s[i]
  BY PoppedFacts
<1>2. Truthful(g, n, r)
  BY TruthfulBelow
<1> HIDE DEF r
<1>3. ASSUME r # << >> PROVE OnTop(g, n, r[Len(r)], x)
  <2>1. Len(r) # 0
    BY <1>1, <1>3, EmptySeq
  <2>2. Len(s) \in 2..Len(s) /\ Len(r) \in 1..(Len(s) - 1) /\ Len(s) - 1 = Len(r)
    BY <1>1, <2>1
  <2>3. r[Len(r)] = s[Len(s) - 1]
    BY <1>1, <2>2
  <2> QED
    BY <2>2, <2>3 DEF Truthful, OnTop
<1> QED
  BY <1>1, <1>2, <1>3, TruthfulOnTop DEF r

-----------------------------------------------------------------------------
(* Steps. *)

\* A step that lets findings grow, and turns one stack truthfully.
Grows(t) ==
    /\ Later(finding, fence, finding', fence') /\ Left(finding', fence')
    /\ \A u \in Thread \ {t} : stack'[u] = stack[u]
    /\ Truthful(finding', fence', stack'[t])

\* Such a step keeps what the others were told.
LEMMA GrowsKeeps ==
    ASSUME NInv, IInv', NEW t \in Thread, Grows(t)
    PROVE  NInv'
<1>1. /\ finding \in [Fences -> States] /\ finding' \in [Fences -> States]
      /\ \A u \in Thread : stack[u] \in Seq(Frame)
  BY DEF NInv, IInv, Typed
<1>2. ASSUME NEW u \in Thread PROVE Truthful(finding', fence', stack'[u])
  <2>1. CASE u = t
    BY <2>1 DEF Grows
  <2>2. CASE u # t
    BY <1>1, <2>2, LaterKeeps DEF Grows, NInv
  <2> QED BY <2>1, <2>2
<1>3. (\A u \in Thread : Truthful(finding, fence, stack[u]))'
  BY <1>2 DEF Truthful, Honest, Tells, Rereads, OnTop, Seen
<1>4. Left(finding, fence)'
  BY DEF Grows, Left
<1> QED
  BY <1>3, <1>4 DEF NInv

\* Nothing grows, nothing changes.
LEMMA UnchangedIsLater ==
    ASSUME NInv, UNCHANGED <<finding, fence>>
    PROVE  /\ Later(finding, fence, finding', fence') /\ Left(finding', fence')
<1>1. \A f \in Fences : finding[f] \in States
  BY DEF NInv, IInv, Typed
<1>2. \A f \in Fences : Rank[finding[f]] <= Rank[finding[f]]
  BY <1>1, RankFacts
<1> QED
  BY <1>2 DEF Later, NInv

\* The stack of one thread, when findings have grown.
LEMMA OwnStack ==
    ASSUME NInv, IInv', NEW t \in Thread, Later(finding, fence, finding', fence')
    PROVE  stack[t] \in Seq(Frame) /\ Truthful(finding', fence', stack[t])
BY LaterKeeps DEF NInv, IInv, Typed

\* A step that returns from a call.
LEMMA ReturnGrows ==
    ASSUME NInv, IInv', NEW t \in Thread, stack[t] # << >>, Returns(t),
           Later(finding, fence, finding', fence'), Left(finding', fence')
    PROVE  NInv'
<1>1. /\ stack'[t] = Popped(stack[t])
      /\ \A u \in Thread \ {t} : stack'[u] = stack[u]
  BY DEF Returns, NInv, IInv, Typed
<1> QED
  BY <1>1, OwnStack, TruthfulBelow, GrowsKeeps DEF Grows

\* A step with which the top call goes on.
LEMMA TurnGrows ==
    ASSUME NInv, IInv', NEW t \in Thread, stack[t] # << >>,
           NEW x \in Frame, Becomes(t, x), x.call = Top(t).call, x.of = Top(t).of,
           Later(finding, fence, finding', fence'), Left(finding', fence'),
           Honest(finding', fence', x)
    PROVE  NInv'
<1>1. /\ stack'[t] = Append(Popped(stack[t]), x)
      /\ \A u \in Thread \ {t} : stack'[u] = stack[u]
  BY DEF Becomes, NInv, IInv, Typed
<1>2. stack[t] \in Seq(Frame) /\ Truthful(finding', fence', stack[t])
  BY OwnStack
<1>3. Truthful(finding', fence', Append(Popped(stack[t]), x))
  BY <1>2, TruthfulTurned DEF Top
<1>4. Grows(t)
  BY <1>1, <1>3 DEF Grows
<1> QED
  BY <1>4, GrowsKeeps

\* A step that puts a call on top.
LEMMA EnterGrows ==
    ASSUME NInv, IInv', NEW t \in Thread, NEW c \in Names \ {"callback"},
           NEW f \in Fences \cup {0}, c \in {"publish", "authorize", "find"} => f \in Fences,
           Enters(t, c, f), UNCHANGED <<finding, fence>>,
           stack[t] # << >> /\ c = "find" /\ Top(t).at = "reread" => f = Top(t).of
    PROVE  NInv'
<1> DEFINE x == NewFrame(c, f)
<1>1. /\ stack'[t] = Append(stack[t], x)
      /\ \A u \in Thread \ {t} : stack'[u] = stack[u]
  BY DEF Enters, NInv, IInv, Typed
<1>2. x \in Frame /\ x.at = "enter" /\ x.call = c /\ x.of = f
  BY DEF NewFrame, Frame, States
<1> HIDE DEF x
<1>3. Later(finding, fence, finding', fence') /\ Left(finding', fence')
  BY UnchangedIsLater
<1>4. Honest(finding', fence', x)
  BY <1>2 DEF Honest
<1>5. stack[t] # << >> => OnTop(finding', fence', stack[t][Len(stack[t])], x)
  BY <1>2 DEF OnTop, Top
<1>6. stack[t] \in Seq(Frame) /\ Truthful(finding', fence', stack[t])
  BY <1>3, OwnStack
<1>7. Truthful(finding', fence', Append(stack[t], x))
  BY <1>2, <1>4, <1>5, <1>6, TruthfulOnTop
<1>8. Grows(t)
  BY <1>1, <1>3, <1>7 DEF Grows
<1> QED
  BY <1>8, GrowsKeeps

-----------------------------------------------------------------------------
(* The actions. *)

\* Taking the lock, and the checks under it, tell nobody.
LEMMA PlainTurnsKeep ==
    ASSUME NInv, IInv', NEW t \in Thread, Lock(t) \/ CheckAssessment(t) \/ CheckFinding(t)
    PROVE  NInv'
<1>1. /\ stack[t] # << >> /\ UNCHANGED <<finding, fence>>
      /\ \/ Returns(t)
         \/ \E place \in {"body", "commit"} : Becomes(t, [Top(t) EXCEPT !.at = place])
  BY DEF Lock, CheckAssessment, CheckFinding, At, shared
<1>2. Later(finding, fence, finding', fence') /\ Left(finding', fence')
  BY <1>1, UnchangedIsLater
<1>3. CASE Returns(t)
  BY <1>1, <1>2, <1>3, ReturnGrows
<1>4. ASSUME NEW place \in {"body", "commit"},
             Becomes(t, [Top(t) EXCEPT !.at = place])
      PROVE  NInv'
  <2> DEFINE x == [Top(t) EXCEPT !.at = place]
  <2>1. Top(t) \in Frame
    BY <1>1, TopFacts DEF NInv, IInv
  <2>2. x \in Frame /\ x.call = Top(t).call /\ x.of = Top(t).of /\ x.at = place
    BY <2>1 DEF Frame
  <2>3. Becomes(t, x)
    BY <1>4
  <2> HIDE DEF x
  <2>4. Honest(finding', fence', x)
    BY <2>2 DEF Honest
  <2> QED
    BY <1>1, <1>2, <2>2, <2>3, <2>4, TurnGrows
<1> QED
  BY <1>1, <1>3, <1>4

\* So do calls that return at once.
LEMMA PlainReturnsKeep ==
    ASSUME NInv, IInv', NEW t \in Thread,
           \/ Detect(t) \/ AdvanceIsRefused(t) \/ SetObserver(t) \/ Close(t)
           \/ StateDigest(t) \/ Return(t)
    PROVE  NInv'
<1>1. stack[t] # << >> /\ Returns(t) /\ UNCHANGED <<finding, fence>>
  BY DEF Detect, AdvanceIsRefused, SetObserver, Close, StateDigest, Return, At, shared
<1> QED
  BY <1>1, UnchangedIsLater, ReturnGrows

\* Calls that are begun.
LEMMA EntersKeep ==
    ASSUME NInv, IInv', NEW t \in Thread,
           (\E c \in Calls : Call(t, c)) \/ Describe(t) \/ Reread(t)
    PROVE  NInv'
<1>1. ASSUME NEW c \in Calls, Call(t, c) PROVE NInv'
  <2>1. PICK f \in CASE c = "publish" -> {assessment[t]} \ {0}
                     [] c \in {"authorize", "find"} -> Fences
                     [] OTHER -> {0} : Enters(t, c, f)
    BY <1>1 DEF Call
  <2>2. /\ f \in Fences \cup {0} /\ c \in Names \ {"callback"}
        /\ c \in {"publish", "authorize", "find"} => f \in Fences
    BY <2>1, FacadeAssumption DEF NInv, IInv, Typed
  <2>3. UNCHANGED <<finding, fence>> /\ (stack[t] # << >> => Top(t).at = "done")
    BY <1>1 DEF Call, At, shared
  <2> QED
    BY <2>1, <2>2, <2>3, EnterGrows
<1>2. CASE Describe(t)
  <2>1. Enters(t, "digest", 0) /\ UNCHANGED <<finding, fence>> /\ "digest" \in Names \ {"callback"}
    BY <1>2 DEF Describe, shared, Names
  <2> QED
    BY <2>1, EnterGrows
<1>3. CASE Reread(t)
  <2>1. /\ stack[t] # << >> /\ Enters(t, "find", Top(t).of) /\ Top(t).call = "authorize"
        /\ UNCHANGED <<finding, fence>> /\ "find" \in Names \ {"callback"}
    BY <1>3 DEF Reread, At, shared, Names
  <2>2. Top(t).of \in Fences
    BY <2>1, TopFacts DEF NInv, IInv, Frame
  <2> QED
    BY <2>1, <2>2, EnterGrows
<1> QED
  BY <1>1, <1>2, <1>3

\* A new fence makes no finding younger.
LEMMA AdvanceKeepsNotices ==
    ASSUME NInv, IInv', NEW t \in Thread, Advance(t)
    PROVE  NInv'
<1> DEFINE x == [Top(t) EXCEPT !.at = "commit"]
<1>1. /\ stack[t] # << >> /\ finding' = finding /\ fence' = fence + 1
      /\ Becomes(t, x) \/ Returns(t)
  BY DEF Advance, At
<1>2. fence \in Nat /\ \A f \in Fences : f \in Nat /\ finding[f] \in States
  BY FenceIsNat DEF NInv, IInv, Typed
<1>3. \A f \in Fences : Rank[finding[f]] <= Rank[finding[f]]
  BY <1>2, RankFacts
<1>4. Later(finding, fence, finding', fence') /\ Left(finding', fence')
  BY <1>1, <1>2, <1>3 DEF Later, Left, Seen, NInv
<1>5. Top(t) \in Frame
  BY <1>1, TopFacts DEF NInv, IInv
<1>6. x \in Frame /\ x.call = Top(t).call /\ x.of = Top(t).of /\ x.at = "commit"
  BY <1>5 DEF Frame
<1> HIDE DEF x
<1>7. Honest(finding', fence', x)
  BY <1>6 DEF Honest
<1> QED
  BY <1>1, <1>4, <1>6, <1>7, TurnGrows, ReturnGrows

\* What is fenced was live, and goes on from there.
LEMMA FenceStaleKeepsNotices ==
    ASSUME NInv, IInv', NEW t \in Thread, FenceStale(t)
    PROVE  NInv'
<1>1. /\ stack[t] # << >> /\ fence' = fence /\ Returns(t)
      /\ finding' = [f \in Fences |->
                        IF finding[f] \in Live /\ f # fence THEN "fenced" ELSE finding[f]]
  BY DEF FenceStale, At
<1>2. /\ fence \in Nat /\ \A f \in Fences : f \in Nat /\ finding[f] \in States
      /\ \A f \in Fences : finding[f] \in Live => f <= fence
  <2>1. fence \in Nat /\ \A f \in Fences : f \in Nat /\ finding[f] \in States
    BY FenceIsNat DEF NInv, IInv, Typed
  <2>2. \A f \in Fences : f > fence => finding[f] = "none"
    BY DEF NInv, IInv, Unborn
  <2>3. "none" \notin Live
    BY DEF Live
  <2> QED BY <2>1, <2>2, <2>3
<1>3. \A f \in Fences :
         \/ finding'[f] = finding[f]
         \/ finding[f] \in Live /\ finding'[f] = "fenced" /\ f < fence
  BY <1>1, <1>2
<1>4. \A f \in Fences : Rank[finding[f]] <= Rank[finding'[f]]
  BY <1>2, <1>3, RankFacts DEF Live
<1>5. \A f \in Fences : finding'[f] = "none" => finding[f] = "none"
  BY <1>3
<1>6. Later(finding, fence, finding', fence') /\ Left(finding', fence')
  BY <1>1, <1>3, <1>4, <1>5 DEF Later, Left, Seen, NInv
<1> QED
  BY <1>1, <1>6, ReturnGrows

\* The finding that is published was not seen before; the one dropped was left.
LEMMA RegisterKeepsNotices ==
    ASSUME NInv, IInv', NEW t \in Thread, RegisterFinding(t)
    PROVE  NInv'
<1> DEFINE x == [Top(t) EXCEPT !.at = IF observer = NoObserver THEN "done" ELSE "notify",
                               !.told = observer, !.notice = "confirmed"]
<1>1. At(t, "publish", "commit") /\ stack[t] # << >> /\ fence' = fence /\ Becomes(t, x)
  BY DEF RegisterFinding, At
<1>2. /\ Top(t) \in Frame /\ Top(t).call = "publish" /\ Top(t).of = fence
      /\ fence \in Fences /\ observer \in Observer \cup {NoObserver}
  BY <1>1, TopFacts DEF NInv, IInv, Checked, Typed, At
<1>3. /\ finding[fence] = "none" /\ finding'[fence] = "confirmed"
      /\ \A f \in Fences \ {fence} :
            \/ finding'[f] = finding[f]
            \/ finding[f] = "fenced" /\ finding'[f] = "none"
  BY RegisterFacts DEF NInv
<1>4. fence \in Nat /\ \A f \in Fences : f \in Nat /\ finding[f] \in States
  BY FenceIsNat DEF NInv, IInv, Typed
<1>5. \A f \in Fences : finding[f] = "fenced" => f < fence
  BY DEF NInv, Left
<1>6. ~ Seen(finding, fence, fence)
  BY <1>3, <1>4 DEF Seen
<1>7. \A f \in Fences \ {fence} : Rank[finding[f]] <= Rank[finding'[f]]
  BY <1>3, <1>4, RankFacts
<1>8. \A f \in Fences \ {fence} :
         (finding[f] = "none" => f < fence) => (finding'[f] = "none" => f < fence)
  BY <1>3, <1>5
<1>9. Later(finding, fence, finding', fence')
  BY <1>1, <1>6, <1>7, <1>8 DEF Later, Seen
<1>10. Left(finding', fence')
  BY <1>1, <1>3, <1>5 DEF Left
<1>11. PICK place \in {"done", "notify"} :
          /\ place = IF observer = NoObserver THEN "done" ELSE "notify"
          /\ x = [Top(t) EXCEPT !.at = place, !.told = observer, !.notice = "confirmed"]
  OBVIOUS
<1> HIDE DEF x
<1>12. /\ x \in Frame /\ x.call = "publish" /\ x.of = fence /\ x.at = place
       /\ x.told = observer /\ x.notice = "confirmed"
  BY <1>2, <1>11 DEF Frame, States
<1>13. Honest(finding', fence', x)
  <2>1. Rank[x.notice] <= Rank[finding'[fence]]
    BY <1>3, <1>12, RankFacts
  <2> QED
    BY <1>1, <1>2, <1>3, <1>11, <1>12, <2>1 DEF Honest, Tells, NoticeOf, Seen
<1> QED
  BY <1>1, <1>2, <1>9, <1>10, <1>12, <1>13, TurnGrows

\* The finding that is requested was live.
LEMMA AuthorizeKeepsNotices ==
    ASSUME NInv, IInv', NEW t \in Thread, Authorize(t)
    PROVE  NInv'
<1> DEFINE x == [Top(t) EXCEPT !.at = IF TellsLater THEN "reread" ELSE "done",
                               !.told = observer]
<1>1. At(t, "authorize", "commit") /\ stack[t] # << >> /\ fence' = fence /\ Becomes(t, x)
  BY DEF Authorize, At
<1>2. /\ Top(t) \in Frame /\ Top(t).call = "authorize" /\ Top(t).of = fence
      /\ fence \in Fences /\ observer \in Observer \cup {NoObserver}
  BY <1>1, TopFacts DEF NInv, IInv, Checked, Typed, At
<1>3. /\ finding[fence] \in Live /\ finding'[fence] = "requested"
      /\ \A f \in Fences \ {fence} : finding'[f] = finding[f]
  BY <1>2, AuthorizeFacts DEF NInv, IInv, Typed
<1>4. \A f \in Fences : finding[f] \in States
  BY DEF NInv, IInv, Typed
<1>5. \A f \in Fences : Rank[finding[f]] <= Rank[finding'[f]]
  BY <1>3, <1>4, RankFacts DEF Live
<1>6. Later(finding, fence, finding', fence') /\ Left(finding', fence')
  <2>1. \A f \in Fences : finding'[f] = "none" => finding[f] = "none"
    BY <1>3
  <2>2. \A f \in Fences : finding'[f] = "fenced" => finding[f] = "fenced"
    BY <1>3
  <2> QED BY <1>1, <1>5, <2>1, <2>2 DEF Later, Left, Seen, NInv
<1>7. PICK place \in {"done", "reread"} :
         /\ place = "reread" => observer # NoObserver
         /\ x = [Top(t) EXCEPT !.at = place, !.told = observer]
  BY DEF TellsLater
<1> HIDE DEF x
<1>8. /\ x \in Frame /\ x.call = "authorize" /\ x.of = fence /\ x.at = place
      /\ x.told = observer
  BY <1>2, <1>7 DEF Frame
<1>9. Honest(finding', fence', x)
  <2>1. Rank["requested"] <= Rank[finding'[fence]]
    BY <1>3, RankFacts
  <2> QED
    BY <1>1, <1>2, <1>3, <1>7, <1>8, <2>1 DEF Honest, Rereads, Seen
<1> QED
  BY <1>1, <1>2, <1>6, <1>8, <1>9, TurnGrows

\* The second look finds the finding requested or fenced, or gone.
LEMMA FindKeepsNotices ==
    ASSUME NInv, IInv', NEW t \in Thread, Find(t)
    PROVE  NInv'
<1> DEFINE below == Popped(stack[t])
           caller == below[Len(below)]
           found == finding[Top(t).of]
           x == [caller EXCEPT !.at = IF found = "none" THEN "done" ELSE "notify",
                               !.notice = found]
           r == IF below = << >> \/ caller.at # "reread" THEN below
                ELSE Append(Popped(below), x)
<1>1. /\ stack[t] # << >> /\ Top(t).call = "find" /\ stack' = [stack EXCEPT ![t] = r]
      /\ UNCHANGED <<fence, finding>>
  BY DEF Find, At, shared
<1>2. Later(finding, fence, finding', fence') /\ Left(finding', fence')
  BY <1>1, UnchangedIsLater
<1>3. stack[t] \in Seq(Frame) /\ Truthful(finding', fence', stack[t])
  BY <1>2, OwnStack
<1>4. below \in Seq(Frame) /\ Truthful(finding', fence', below)
  BY <1>1, <1>3, TruthfulBelow
<1>5. ASSUME below # << >>, caller.at = "reread"
      PROVE  Truthful(finding', fence', Append(Popped(below), x))
  <2>1. /\ Len(below) = Len(stack[t]) - 1 /\ Len(below) \in Nat \ {0}
        /\ \A i \in 1..Len(below) : below[i] = stack[t][i]
        /\ caller \in Frame /\ Len(stack[t]) \in Nat \ {0}
    <3>1. /\ Len(below) = Len(stack[t]) - 1 /\ Len(stack[t]) \in Nat \ {0}
          /\ \A i \in 1..(Len(stack[t]) - 1) : below[i] = stack[t][i]
      BY <1>1, <1>3, PoppedFacts
    <3> HIDE DEF below
    <3>2. Len(below) \in Nat \ {0} /\ caller \in Frame
      BY <1>4, <1>5, PoppedFacts
    <3> QED BY <3>1, <3>2
  <2>2. Len(stack[t]) \in 2..Len(stack[t]) /\ Len(below) \in 1..Len(below)
    <3>1. \A m \in Nat, k \in Nat \ {0} : k = m - 1 => m \in 2..m /\ k \in 1..k
      OBVIOUS
    <3> HIDE DEF below
    <3> QED BY <2>1, <3>1
  <2>3. OnTop(finding', fence', stack[t][Len(stack[t]) - 1], stack[t][Len(stack[t])])
    BY <1>3, <2>2 DEF Truthful
  <2>4. caller = stack[t][Len(stack[t]) - 1]
    BY <2>1, <2>2
  <2>5. Top(t).of = caller.of
    BY <1>1, <1>5, <2>3, <2>4 DEF OnTop, Top
  <2>6. Rereads(finding', fence', caller)
    BY <1>4, <1>5, <2>2 DEF Truthful, Honest
  <2>7. /\ caller.call = "authorize" /\ caller.of \in Fences /\ caller.told # NoObserver
        /\ Rank["requested"] <= Rank[finding'[caller.of]] /\ Seen(finding', fence', caller.of)
    BY <2>6 DEF Rereads
  <2>8. found = finding'[caller.of] /\ found \in States
    BY <1>1, <2>5, <2>7 DEF NInv, IInv, Typed
  <2>9. PICK place \in {"done", "notify"} :
           /\ place = "notify" => found # "none"
           /\ x = [caller EXCEPT !.at = place, !.notice = found]
    OBVIOUS
  <2> HIDE DEF x, found, caller, below
  <2>10. /\ x \in Frame /\ x.call = caller.call /\ x.of = caller.of /\ x.at = place
         /\ x.told = caller.told /\ x.notice = found
    BY <2>1, <2>8, <2>9 DEF Frame
  <2>11. found # "none" => found \in {"requested", "fenced"}
    BY <2>7, <2>8, RankFacts DEF States
  <2>12. Rank[found] <= Rank[found]
    BY <2>8, RankFacts
  <2>13. Honest(finding', fence', x)
    BY <2>7, <2>8, <2>9, <2>10, <2>11, <2>12 DEF Honest, Tells, NoticeOf
  <2> QED
    BY <1>4, <1>5, <2>10, <2>13, TruthfulTurned DEF caller
<1>6. Truthful(finding', fence', r)
  BY <1>4, <1>5
<1> HIDE DEF r
<1>7. stack'[t] = r /\ \A u \in Thread \ {t} : stack'[u] = stack[u]
  BY <1>1 DEF NInv, IInv, Typed
<1> QED
  BY <1>2, <1>6, <1>7, GrowsKeeps DEF Grows

\* The observer is called on top of the call that tells it.
LEMMA NotifyKeepsNotices ==
    ASSUME NInv, IInv', NEW t \in Thread, Notify(t)
    PROVE  NInv'
<1> DEFINE x == [Top(t) EXCEPT !.at = "done"]
           y == [NewFrame("callback", Top(t).of) EXCEPT !.at = "done"]
           told == Append(Popped(stack[t]), x)
           r == Append(told, y)
<1>1. /\ stack[t] # << >> /\ Top(t).at = "notify"
      /\ stack' = [stack EXCEPT ![t] = r] /\ UNCHANGED <<fence, finding>>
  BY DEF Notify, shared
<1>2. Later(finding, fence, finding', fence') /\ Left(finding', fence')
  BY <1>1, UnchangedIsLater
<1>3. stack[t] \in Seq(Frame) /\ Truthful(finding', fence', stack[t])
  BY <1>2, OwnStack
<1>4. Top(t) \in Frame /\ Top(t) = stack[t][Len(stack[t])]
  BY <1>1, TopFacts DEF NInv, IInv
<1>5. Len(stack[t]) \in 1..Len(stack[t])
  BY <1>1, <1>3, PoppedFacts
<1>6. Tells(finding', fence', Top(t))
  BY <1>1, <1>3, <1>4, <1>5 DEF Truthful, Honest
<1>7. /\ x \in Frame /\ x.call = Top(t).call /\ x.of = Top(t).of /\ x.at = "done"
      /\ x.told = Top(t).told /\ x.notice = Top(t).notice
  BY <1>4 DEF Frame
<1>8. y \in Frame /\ y.at = "done" /\ y.call = "callback"
  BY <1>4 DEF Frame, NewFrame, Names, States
<1> HIDE DEF x, y
<1>9. Tells(finding', fence', x)
  BY <1>6, <1>7 DEF Tells
<1>10. Honest(finding', fence', x) /\ Honest(finding', fence', y)
  BY <1>7, <1>8 DEF Honest
<1>11. Truthful(finding', fence', told)
  BY <1>1, <1>3, <1>4, <1>7, <1>10, TruthfulTurned
<1>12. /\ told \in Seq(Frame) /\ told[Len(told)] = x
  BY <1>1, <1>3, <1>7, PoppedFacts, PushedFacts
<1>13. OnTop(finding', fence', x, y)
  BY <1>8, <1>9 DEF OnTop
<1> HIDE DEF told
<1>14. Truthful(finding', fence', r)
  BY <1>8, <1>10, <1>11, <1>12, <1>13, TruthfulOnTop
<1> HIDE DEF r
<1>15. stack'[t] = r /\ \A u \in Thread \ {t} : stack'[u] = stack[u]
  BY <1>1 DEF NInv, IInv, Typed
<1> QED
  BY <1>2, <1>14, <1>15, GrowsKeeps DEF Grows

-----------------------------------------------------------------------------
(* The theorem. *)

\* The first state: nobody is told anything.
LEMMA InitHasNotices == Init => NInv
<1> SUFFICES ASSUME Init PROVE NInv
  OBVIOUS
<1>1. IInv
  BY InitHasInvariant
<1>2. finding = [f \in Fences |-> "none"] /\ stack = [t \in Thread |-> << >>]
  BY DEF Init
<1>3. Len(<< >>) = 0
  OBVIOUS
<1>4. Left(finding, fence)
  BY <1>2 DEF Left
<1>5. \A t \in Thread : Truthful(finding, fence, stack[t])
  BY <1>2, <1>3 DEF Truthful
<1> QED
  BY <1>1, <1>4, <1>5 DEF NInv

\* Every step keeps what was told true.
LEMMA NextKeepsNotices == NInv /\ [Next]_vars => NInv'
<1> SUFFICES ASSUME NInv, [Next]_vars PROVE NInv'
  OBVIOUS
<1>1. IInv'
  BY NextKeepsInvariant DEF NInv
<1>2. ASSUME NEW t \in Thread, Step(t) \/ \E c \in Calls : Call(t, c) PROVE NInv'
  BY <1>1, <1>2, PlainTurnsKeep, PlainReturnsKeep, EntersKeep, AdvanceKeepsNotices,
     FenceStaleKeepsNotices, RegisterKeepsNotices, AuthorizeKeepsNotices,
     FindKeepsNotices, NotifyKeepsNotices DEF Step
<1>3. CASE UNCHANGED vars
  <2>1. UNCHANGED <<finding, fence, stack>>
    BY <1>3 DEF vars
  <2> QED
    BY <1>1, <2>1 DEF NInv, Left, Truthful, Honest, Tells, Rereads, OnTop, Seen
<1> QED
  BY <1>2, <1>3 DEF Next

\* Whatever the observer does and other threads do meanwhile, it is only called
\* for a call that is done, with a copy of a state that its finding has reached
\* (publish_finding, authorize_containment in runtime.cpp).
THEOREM NoticesAreTrue == Spec => []NoticesFollowCommits
<1>1. NInv => NoticesFollowCommits
  <2> SUFFICES ASSUME NInv, NEW t \in Thread, NEW i \in 2..Len(stack[t]),
                      stack[t][i].call = "callback"
               PROVE  LET by == stack[t][i - 1]
                      IN  /\ by.told # NoObserver
                          /\ by.notice \in (IF by.call = "publish" THEN {"confirmed"}
                                            ELSE {"requested", "fenced"})
                          /\ Rank[by.notice] <= Rank[finding[by.of]]
    BY DEF NoticesFollowCommits
  <2>1. Tells(finding, fence, stack[t][i - 1])
    BY DEF NInv, Truthful, OnTop
  <2> QED
    BY <2>1 DEF Tells, NoticeOf
<1>2. Spec => []NInv
  BY InitHasNotices, NextKeepsNotices, PTL DEF Spec
<1> QED
  BY <1>1, <1>2, PTL

=============================================================================
