-------------------------- MODULE Transport_proofs --------------------------
(***************************************************************************)
(* Proofs of the safety properties of Transport, for any frames, headers   *)
(* and kernel buffers.  The units that are not yet decoded are one stream, *)
(* from the decoder through the kernel to the sender.  Units rise in it,   *)
(* and what a frame lacks is lost for good only if its send was given up.  *)
(***************************************************************************)
EXTENDS Transport, FiniteSetTheorems, SequenceTheorems, TLAPS

-----------------------------------------------------------------------------
(* The inductive invariant *)

\* The units on their way to the decoder, those it holds first.
Stream == buffer \o wire \o sending

Before(u, v) == u.frame < v.frame \/ (u.frame = v.frame /\ u.at < v.at)

LastUnit(f) == [frame |-> f, at |-> Size[f]]

\* Frame f was given up, has been received, or is still whole in the stream
\* that follows its first c units.
Accounted(f, known, lost, stream, c) ==
    \/ f \in lost
    \/ \E k \in DOMAIN known : known[k] = f
    \/ \E j \in (c + 1)..Len(stream) : stream[j] = LastUnit(f)

\* The frames received: in order, each once, none that was given up, none
\* left out.
Received(known, lost, h) ==
    /\ \A i, j \in DOMAIN known : i < j => known[i] < known[j]
    /\ \A i \in DOMAIN known :
          /\ known[i] \in 1..h /\ known[i] \notin lost
          /\ \A g \in 1..known[i] : g \in lost \/ \E k \in DOMAIN known : known[k] = g

\* The stream from its first c units on: units of frames handed over, in
\* order; a frame starts with its first unit and has no gap; a frame given up
\* has no last unit; all comes after what was received, and no frame before
\* the last of the stream is missing.
Orderly(known, lost, h, stream, c) ==
    \A i \in (c + 1)..Len(stream) :
        LET f == stream[i].frame
            at == stream[i].at
        IN  /\ f \in 1..h /\ at \in 1..Size[f]
            /\ \A j \in (i + 1)..Len(stream) : Before(stream[i], stream[j])
            /\ at > 1 => i > c + 1 /\ stream[i - 1] = [frame |-> f, at |-> at - 1]
            /\ f \in lost => at < Size[f]
            /\ \A k \in DOMAIN known : known[k] < f
            /\ \A g \in 1..(f - 1) : Accounted(g, known, lost, stream, c)

\* Unless a send was given up, the decoder holds the start of one frame.
Begun(units, lost) ==
    lost = {} => /\ \A i \in DOMAIN units : units[i] = [frame |-> units[1].frame, at |-> i]
                 /\ units # << >> => Len(units) < Size[units[1].frame]

\* What is known of the frame in send_all.
SendingInv ==
    sending # << >> =>
        /\ sender
        /\ handed \in Frame
        /\ \A i \in DOMAIN sending : sending[i].frame = handed
        /\ sending[Len(sending)] = LastUnit(handed)
        /\ \A k \in DOMAIN (delivered \o pending) : (delivered \o pending)[k] < handed
        /\ handed \notin abandoned

\* A stream that is still read.
StreamInv ==
    receiver /\ ~ failed =>
        /\ Orderly(delivered \o pending, abandoned, handed, Stream, 0)
        /\ Begun(buffer, abandoned)
        /\ sender => \A g \in 1..handed :
                        Accounted(g, delivered \o pending, abandoned, Stream, 0)

IInv ==
    /\ TypeOK
    /\ Received(delivered \o pending, abandoned, handed)
    /\ FailureHasACause
    /\ SendingInv
    /\ StreamInv

-----------------------------------------------------------------------------
(* Sizes and sequences *)

\* Induction: a set of naturals with 0 and all successors is all of them.
LEMMA NaturalSet ==
    ASSUME NEW T, T \subseteq Nat, 0 \in T, \A n \in T : n + 1 \in T
    PROVE  T = Nat
<1> DEFINE M == Nat \ T
           I == {1..n : n \in M}
<1>1. SUFFICES ASSUME M # {} PROVE FALSE
  OBVIOUS
<1>2. PICK p \in I : \A q \in I : <<q, p>> \notin StrictSubsetOrdering(Nat)
  <2>1. \A n \in Nat : 1..n \subseteq Nat /\ IsFiniteSet(1..n)
    BY FS_Interval
  <2>2. I \subseteq FiniteSubsetsOf(Nat)
    BY <2>1 DEF FiniteSubsetsOf
  <2>3. I # {}
    BY <1>1
  <2> HIDE DEF I
  <2> QED BY <2>2, <2>3, WFMin, FS_StrictSubsetOrderingWellFounded
<1>3. PICK x \in M : p = 1..x
  OBVIOUS
<1>4. x # 0 /\ x \in Nat /\ x - 1 \in Nat
  OBVIOUS
<1>5. x - 1 \in M
  <2>1. x - 1 \in T => (x - 1) + 1 \in T
    OBVIOUS
  <2> QED BY <1>4, <2>1
<1>6. <<1..(x - 1), 1..x>> \in StrictSubsetOrdering(Nat)
  <2>1. 1..(x - 1) \in SUBSET Nat /\ 1..x \in SUBSET Nat /\ 1..(x - 1) \subseteq 1..x
    BY <1>4
  <2>2. x \in 1..x /\ x \notin 1..(x - 1)
    BY <1>4
  <2> QED BY <2>1, <2>2 DEF StrictSubsetOrdering
<1> QED BY <1>2, <1>3, <1>5, <1>6

\* Every frame has more units than a header and no more than the ceiling.
LEMMA Sizes ==
    /\ Frame = 1..Len(Size) /\ Len(Size) \in Nat /\ Frame \subseteq Nat
    /\ HeaderUnits \in Nat \ {0} /\ Ceiling \in Nat /\ HeaderUnits < Ceiling
    /\ \A f \in Frame : Size[f] \in Nat /\ HeaderUnits < Size[f] /\ Size[f] <= Ceiling
<1>1. Size \in Seq(Nat)
  BY SizeAssumption
<1>2. DOMAIN Size = 1..Len(Size) /\ Len(Size) \in Nat /\ \A f \in 1..Len(Size) : Size[f] \in Nat
  BY <1>1
<1> QED BY <1>2, SizeAssumption DEF Frame

\* The elements of three sequences put together.
LEMMA Joined ==
    ASSUME NEW X, NEW a \in Seq(X), NEW b \in Seq(X), NEW c \in Seq(X)
    PROVE  /\ a \o b \o c \in Seq(X)
           /\ Len(a \o b \o c) = Len(a) + Len(b) + Len(c)
           /\ \A i \in 1..Len(a) : (a \o b \o c)[i] = a[i]
           /\ \A i \in 1..Len(b) : (a \o b \o c)[Len(a) + i] = b[i]
           /\ \A i \in 1..Len(c) : (a \o b \o c)[Len(a) + Len(b) + i] = c[i]
<1>1. a \o b \in Seq(X) /\ Len(a \o b) = Len(a) + Len(b)
  OBVIOUS
<1>2. /\ \A i \in 1..Len(a) : (a \o b)[i] = a[i]
      /\ \A i \in 1..Len(b) : (a \o b)[Len(a) + i] = b[i]
  OBVIOUS
<1> DEFINE d == a \o b
<1>3. /\ d \o c \in Seq(X) /\ Len(d \o c) = Len(d) + Len(c)
      /\ \A i \in 1..Len(d) : (d \o c)[i] = d[i]
      /\ \A i \in 1..Len(c) : (d \o c)[Len(d) + i] = c[i]
  <2> HIDE DEF d
  <2>1. d \in Seq(X)
    BY <1>1 DEF d
  <2> QED BY <2>1
<1>4. Len(a) \in Nat /\ Len(b) \in Nat /\ Len(c) \in Nat
  OBVIOUS
<1> QED BY <1>1, <1>2, <1>3, <1>4

\* A sequence cut in two.
LEMMA CutInTwo ==
    ASSUME NEW X, NEW s \in Seq(X), NEW n \in 0..Len(s)
    PROVE  /\ SubSeq(s, 1, n) \in Seq(X) /\ Len(SubSeq(s, 1, n)) = n
           /\ \A i \in 1..n : SubSeq(s, 1, n)[i] = s[i]
           /\ SubSeq(s, n + 1, Len(s)) \in Seq(X)
           /\ Len(SubSeq(s, n + 1, Len(s))) = Len(s) - n
           /\ \A i \in 1..(Len(s) - n) : SubSeq(s, n + 1, Len(s))[i] = s[n + i]
           /\ Len(s) \in Nat
<1> DEFINE a == SubSeq(s, 1, n)
           b == SubSeq(s, n + 1, Len(s))
<1>1. Len(s) \in Nat /\ n \in Nat /\ n <= Len(s)
  OBVIOUS
<1>2. \A i \in 1..n : s[i] \in X
  BY <1>1
<1>3. a \in Seq(X) /\ Len(a) = n /\ \A i \in 1..n : a[i] = s[i]
  BY <1>1, <1>2
<1>4. \A i \in (n + 1)..Len(s) : s[i] \in X
  BY <1>1
<1>5. /\ b \in Seq(X) /\ Len(b) = Len(s) - n
      /\ \A i \in 1..(Len(s) - n) : b[i] = s[n + i]
  BY <1>1, <1>4
<1> QED BY <1>1, <1>3, <1>5

\* A unit more at the end.
LEMMA Appended ==
    ASSUME NEW s \in Seq(Unit), NEW x \in Unit, NEW t, t = Append(s, x)
    PROVE  /\ Len(t) = Len(s) + 1 /\ t[Len(s) + 1] = x
           /\ \A i \in 1..Len(s) : t[i] = s[i]
OBVIOUS

\* Adding at the end of what is joined.
LEMMA AppendToJoined ==
    ASSUME NEW X, NEW a \in Seq(X), NEW b \in Seq(X), NEW x \in X
    PROVE  a \o Append(b, x) = Append(a \o b, x)
<1> DEFINE s == a \o Append(b, x)
           t == Append(a \o b, x)
<1>1. Append(b, x) \in Seq(X) /\ a \o b \in Seq(X)
  OBVIOUS
<1>2. s \in Seq(X) /\ t \in Seq(X) /\ Len(s) = Len(t)
  BY <1>1
<1>3. \A i \in 1..Len(s) : s[i] = t[i]
  BY <1>1
<1> HIDE DEF s, t
<1>4. s = t
  BY <1>2, <1>3, SeqEqual
<1> QED BY <1>4 DEF s, t

-----------------------------------------------------------------------------
(* The decoder takes a unit *)

Decoding == [frames : Seq(Frame), rest : Seq(Unit), bad : BOOLEAN]

\* The decoder when it has read m units of a stream, of which it has done
\* with the first c: it holds the others, and what it decoded is in order.
Reading(state, known, lost, h, stream, m, c) ==
    /\ Len(state.rest) = m - c
    /\ \A i \in 1..(m - c) : state.rest[i] = stream[c + i]
    /\ Received(known \o state.frames, lost, h)
    /\ Orderly(known \o state.frames, lost, h, stream, c)
    /\ Begun(state.rest, lost)
    /\ \A g \in 1..h : Accounted(g, known, lost, stream, 0)
                            => Accounted(g, known \o state.frames, lost, stream, c)

ReadsOn(state, known, lost, h, stream, m) ==
    /\ state \in Decoding /\ Len(state.rest) < Ceiling
    /\ state.bad => lost # {}
    /\ ~ state.bad => \E c \in 0..m : Reading(state, known, lost, h, stream, m, c)

\* The units of a frame from its first, with no gap.
StartOf(f, units) ==
    /\ f \in Frame /\ Len(units) \in 1..Size[f]
    /\ \A i \in 1..Len(units) : units[i] = [frame |-> f, at |-> i]

\* Unless a send was given up, the unit that comes is the next of the frame
\* that the decoder holds, or the first of one.
LEMMA NextUnit ==
    ASSUME NEW stream \in Seq(Unit), NEW m \in Nat, NEW c \in 0..m, m < Len(stream),
           NEW h \in 0..Len(Size), NEW known \in Seq(Frame), NEW rest \in Seq(Unit),
           Len(rest) = m - c, \A i \in 1..(m - c) : rest[i] = stream[c + i],
           Orderly(known, {}, h, stream, c), Begun(rest, {})
    PROVE  StartOf(Append(rest, stream[m + 1])[1].frame, Append(rest, stream[m + 1]))
<1> DEFINE u == stream[m + 1]
           units == Append(rest, u)
<1>1. Len(stream) \in Nat /\ m + 1 \in (c + 1)..Len(stream)
  OBVIOUS
<1>2. /\ u.frame \in 1..h /\ u.at \in 1..Size[u.frame]
      /\ u.at > 1 => m + 1 > c + 1 /\ stream[m] = [frame |-> u.frame, at |-> u.at - 1]
      /\ \A g \in 1..(u.frame - 1) : Accounted(g, known, {}, stream, c)
  BY <1>1 DEF Orderly
<1>3. u = [frame |-> u.frame, at |-> u.at] /\ u.frame \in Frame /\ u.at \in Nat
  <2>1. u \in Unit
    BY <1>1
  <2> QED BY <2>1 DEF Unit
<1>4. Size[u.frame] \in Nat \ {0}
  BY <1>3, Sizes
<1>5. /\ Len(units) = Len(rest) + 1 /\ units[Len(rest) + 1] = u
      /\ \A i \in 1..Len(rest) : units[i] = rest[i]
  <2>1. u \in Unit
    BY <1>1
  <2>2. units = Append(rest, u) /\ rest \in Seq(Unit)
    OBVIOUS
  <2> HIDE DEF u, units
  <2>3. Len(units) = Len(rest) + 1
    BY <2>1, <2>2, Appended
  <2>4. units[Len(rest) + 1] = u
    <3> DEFINE k == Len(rest) + 1
    <3>1. Len(rest) + 1 = k
      OBVIOUS
    <3> HIDE DEF k
    <3>2. units[k] = u
      BY <2>1, <2>2, <3>1, Appended
    <3> QED BY <3>1, <3>2
  <2>5. ASSUME NEW i \in 1..Len(rest) PROVE units[i] = rest[i]
    BY <2>1, <2>2, Appended
  <2> QED BY <2>3, <2>4, <2>5
<1>8. /\ \A i \in 1..Len(rest) : rest[i] = [frame |-> rest[1].frame, at |-> i]
      /\ rest # << >> => Len(rest) < Size[rest[1].frame]
  <2>1. DOMAIN rest = 1..Len(rest)
    OBVIOUS
  <2>2. /\ \A i \in DOMAIN rest : rest[i] = [frame |-> rest[1].frame, at |-> i]
        /\ rest # << >> => Len(rest) < Size[rest[1].frame]
    BY Zenon DEF Begun
  <2> QED BY <2>1, <2>2
<1>6. CASE m = c
  <2>1. u.at = 1
    BY <1>2, <1>4, <1>6
  <2>2. Len(units) = 1 /\ units[1] = u
    <3>1. Len(rest) = 0
      BY <1>6
    <3> HIDE DEF units, u
    <3> QED BY <1>5, <3>1
  <2>3. u = [frame |-> u.frame, at |-> 1] /\ 1 \in 1..Size[u.frame]
    BY <1>3, <1>4, <2>1
  <2> HIDE DEF units, u
  <2>4. StartOf(u.frame, units)
    BY <1>3, <2>2, <2>3 DEF StartOf
  <2> QED BY <2>2, <2>4 DEF units, u
<1>7. CASE m # c
  <2> DEFINE n == m - c
             f == rest[1].frame
             v == stream[m]
  <2>1. n \in Nat \ {0} /\ Len(rest) = n /\ n \in 1..n /\ m \in (c + 1)..Len(stream)
    BY <1>1, <1>7
  <2>2. rest # << >>
    BY <2>1
  <2>3. v = [frame |-> f, at |-> n] /\ n < Size[f]
    <3>1. rest[n] = [frame |-> f, at |-> n]
      BY <2>1, <1>8
    <3>2. rest[n] = stream[c + n] /\ c + n = m
      BY <2>1
    <3> QED BY <2>1, <2>2, <3>1, <3>2, <1>8
  <2>4. /\ f \in 1..h /\ Before(v, u)
        /\ \A k \in DOMAIN known : known[k] < f
        /\ \A j \in (m + 1)..Len(stream) : Before(v, stream[j])
    <3>1. m + 1 \in (m + 1)..Len(stream)
      BY <1>1
    <3>2. v.frame = f
      BY <2>3
    <3> HIDE DEF f, v
    <3> QED BY <2>1, <3>1, <3>2 DEF Orderly, v
  <2>5. f \in Frame /\ Size[f] \in Nat
    <3>1. f \in 1..h
      BY <2>4
    <3> HIDE DEF f
    <3>2. f \in Frame
      BY <3>1, Sizes
    <3> QED BY <3>2, Sizes
  <2>6. CASE u.at > 1
    <3>1. u.frame = f /\ u.at = n + 1
      <4>1. v = [frame |-> u.frame, at |-> u.at - 1]
        BY <1>2, <2>6
      <4>2. v.frame = f /\ v.at = n /\ v.frame = u.frame /\ v.at = u.at - 1
        <5> HIDE DEF f, n, v, u
        <5> QED BY <2>3, <4>1
      <4> HIDE DEF f, n, v, u
      <4> QED BY <1>3, <2>1, <4>2
    <3>2. units[1].frame = f
      BY <1>5, <2>1
    <3>3. \A i \in 1..Len(units) : units[i] = [frame |-> f, at |-> i]
      <4>1. \A i \in 1..n : units[i] = [frame |-> f, at |-> i]
        BY <1>5, <2>1, <1>8
      <4>2. units[n + 1] = [frame |-> f, at |-> n + 1]
        BY <1>3, <1>5, <2>1, <3>1
      <4>3. Len(units) = n + 1
        BY <1>5, <2>1
      <4>4. \A i \in 1..(n + 1) : i \in 1..n \/ i = n + 1
        BY <2>1
      <4> HIDE DEF units, n, f
      <4> QED BY <4>1, <4>2, <4>3, <4>4
    <3>4. Len(units) \in 1..Size[f]
      <4>1. Len(units) = n + 1
        BY <1>5, <2>1
      <4>2. n < Size[f]
        BY <2>3
      <4> HIDE DEF f, n, units
      <4> QED BY <4>1, <4>2, <2>1, <2>5
    <3> HIDE DEF units, f
    <3>5. StartOf(f, units)
      BY <2>5, <3>3, <3>4 DEF StartOf
    <3> QED BY <3>2, <3>5 DEF units
  <2>7. CASE ~ u.at > 1
    <3>1. u.at = 1
      BY <1>2, <1>4, <2>7
    <3>2. f \in 1..(u.frame - 1)
      <4>1. f < u.frame \/ (f = u.frame /\ n < u.at)
        BY <2>3, <2>4 DEF Before
      <4>2. h \in Nat
        BY Sizes
      <4> HIDE DEF n, f
      <4> QED BY <1>2, <2>1, <2>4, <3>1, <4>1, <4>2
    <3>3. Accounted(f, known, {}, stream, c)
      BY <1>2, <3>2
    <3>4. PICK j \in (c + 1)..Len(stream) : stream[j] = LastUnit(f)
      <4>1. \A k \in DOMAIN known : known[k] # f
        <5>1. \A k \in DOMAIN known : known[k] \in Nat
          BY Sizes
        <5>2. f \in Nat
          <6> HIDE DEF f
          <6> QED BY <2>5, Sizes
        <5> HIDE DEF f
        <5> QED BY <2>4, <5>1, <5>2
      <4> QED BY <3>3, <4>1 DEF Accounted
    <3>5. stream[j].frame = f /\ stream[j].at = Size[f]
      BY <3>4 DEF LastUnit
    <3>6. CASE j = m
      BY <2>1, <2>3, <2>5, <3>5, <3>6
    <3>7. CASE j < m
      <4>1. Before(stream[j], v)
        <5>1. m \in (j + 1)..Len(stream)
          BY <2>1, <3>4, <3>7
        <5> QED BY <5>1, <3>4 DEF Orderly
      <4>2. f < f \/ Size[f] < n
        <5>1. v.frame = f /\ v.at = n
          <6> HIDE DEF f, n, v
          <6> QED BY <2>3
        <5> HIDE DEF f, n, v
        <5> QED BY <4>1, <3>5, <5>1 DEF Before
      <4>3. f \in Nat
        BY <2>5, Sizes
      <4> HIDE DEF f, n
      <4> QED BY <4>2, <4>3, <2>1, <2>3, <2>5
    <3>8. CASE j = m + 1
      BY <3>1, <3>2, <3>5, <3>8, <1>2
    <3>9. CASE j > m + 1
      <4>1. Before(u, stream[j])
        <5>1. j \in ((m + 1) + 1)..Len(stream)
          BY <3>4, <3>9
        <5> QED BY <5>1, <1>1 DEF Orderly
      <4>2. u.frame <= f
        <5>1. u.frame < f \/ u.frame = f
          <6> HIDE DEF u, f
          <6> QED BY <4>1, <3>5 DEF Before
        <5>2. u.frame \in Nat /\ f \in Nat
          <6> HIDE DEF u, f
          <6> QED BY <1>3, <2>5, Sizes
        <5> HIDE DEF u, f
        <5> QED BY <5>1, <5>2
      <4>3. u.frame \in Nat /\ f \in Nat
        <5> HIDE DEF u, f
        <5> QED BY <1>3, <2>5, Sizes
      <4> HIDE DEF u, f
      <4> QED BY <4>2, <4>3, <3>2
    <3>10. j \in Nat
      BY <3>4
    <3> QED BY <2>1, <3>6, <3>7, <3>8, <3>9, <3>10
  <2> QED BY <2>6, <2>7
<1> QED BY <1>6, <1>7

\* A header without a gap declares the size of its frame.
LEMMA HeaderDeclares ==
    ASSUME NEW units \in Seq(Unit), NEW f, StartOf(f, units), HeaderUnits <= Len(units),
           NEW mixed
    PROVE  Declared(units, mixed) = Size[f]
<1>1. units[1] = [frame |-> f, at |-> 1]
  BY Sizes DEF StartOf
<1>2. units[1].frame = f
  BY <1>1
<1>3. SubSeq(units, 1, HeaderUnits) = SubSeq(Units(f), 1, HeaderUnits)
  <2> DEFINE H == HeaderUnits
  <2>1. f \in Frame /\ Size[f] \in Nat /\ H \in Nat \ {0} /\ H < Size[f] /\ H <= Len(units)
    BY Sizes DEF StartOf
  <2>2. Units(f) \in Seq([frame : Frame, at : Nat]) /\ Len(Units(f)) = Size[f]
        /\ \A i \in 1..Size[f] : Units(f)[i] = [frame |-> f, at |-> i]
    <3>1. Units(f) = [i \in 1..Size[f] |-> [frame |-> f, at |-> i]]
      BY DEF Units
    <3>2. \A i \in 1..Size[f] : [frame |-> f, at |-> i] \in [frame : Frame, at : Nat]
      BY <2>1
    <3>3. [i \in 1..Size[f] |-> [frame |-> f, at |-> i]] \in Seq([frame : Frame, at : Nat])
      <4> DEFINE w == [i \in 1..Size[f] |-> [frame |-> f, at |-> i]]
                 U == [frame : Frame, at : Nat]
      <4>1. w \in [1..Size[f] -> U]
        BY <3>2
      <4> HIDE DEF w, U
      <4>2. w \in Seq(U)
        BY <2>1, <4>1
      <4> QED BY <4>2 DEF w, U
    <3> QED BY <2>1, <3>1, <3>3
  <2>3. \A i \in 1..H : units[i] = Units(f)[i]
    <3>1. \A i \in 1..Len(units) : units[i] = [frame |-> f, at |-> i]
      BY DEF StartOf
    <3>2. \A i \in 1..H : i \in 1..Len(units) /\ i \in 1..Size[f]
      BY <2>1
    <3> QED BY <2>2, <3>1, <3>2
  <2> HIDE DEF H
  <2>4. /\ SubSeq(units, 1, H) \in Seq(Unit) /\ Len(SubSeq(units, 1, H)) = H
        /\ \A i \in 1..H : SubSeq(units, 1, H)[i] = units[i]
    BY <2>1
  <2> DEFINE w == Units(f)
  <2>5. /\ SubSeq(w, 1, H) \in Seq(Unit) /\ Len(SubSeq(w, 1, H)) = H
        /\ \A i \in 1..H : SubSeq(w, 1, H)[i] = w[i]
    <3> HIDE DEF w
    <3>1. w \in Seq(Unit) /\ Len(w) = Size[f]
      BY <2>2 DEF w, Unit
    <3> QED BY <2>1, <3>1
  <2> HIDE DEF w
  <2>6. \A i \in 1..H : SubSeq(units, 1, H)[i] = SubSeq(w, 1, H)[i]
    BY <2>3, <2>4, <2>5 DEF w
  <2>7. SubSeq(units, 1, H) = SubSeq(w, 1, H)
    <3> DEFINE a == SubSeq(units, 1, H)
               b == SubSeq(w, 1, H)
    <3> HIDE DEF a, b
    <3>1. a \in Seq(Unit) /\ b \in Seq(Unit) /\ Len(a) = Len(b) /\ Len(a) = H
          /\ \A i \in 1..H : a[i] = b[i]
      BY <2>4, <2>5, <2>6 DEF a, b
    <3>2. a = b
      BY <3>1, SeqEqual
    <3> QED BY <3>2 DEF a, b
  <2> QED BY <2>7 DEF w, H
<1> QED BY <1>2, <1>3 DEF Declared

\* A frame without a gap is one, once as many units are there as it has.
LEMMA WholeFrame ==
    ASSUME NEW units \in Seq(Unit), NEW f, StartOf(f, units), Len(units) = Size[f]
    PROVE  units = Units(Last(units).frame)
<1>1. f \in Frame /\ Size[f] \in Nat \ {0}
  BY Sizes DEF StartOf
<1>2. \A i \in 1..Len(units) : units[i] = [frame |-> f, at |-> i]
  BY DEF StartOf
<1>3. Last(units).frame = f
  <2>1. Len(units) \in 1..Len(units)
    BY <1>1
  <2>2. units[Len(units)].frame = f
    <3> DEFINE n == Len(units)
    <3>1. n \in 1..n /\ \A i \in 1..n : units[i] = [frame |-> f, at |-> i]
      BY <1>2, <2>1
    <3> HIDE DEF n
    <3>2. units[n] = [frame |-> f, at |-> n]
      BY <3>1
    <3>3. units[n].frame = f
      BY <3>2
    <3> QED BY <3>3 DEF n
  <2> QED BY <2>2 DEF Last
<1>4. units = [i \in 1..Size[f] |-> [frame |-> f, at |-> i]]
  <2>1. units = [i \in 1..Len(units) |-> units[i]]
    OBVIOUS
  <2> QED BY <1>2, <2>1
<1> QED BY <1>3, <1>4 DEF Units

\* A frame that is whole in the stream is the next of those received, and what
\* comes after it is in order again.
LEMMA FrameDone ==
    ASSUME NEW stream \in Seq(Unit), NEW m \in Nat, NEW c \in 0..m, m < Len(stream),
           NEW h \in 0..Len(Size), NEW known \in Seq(Frame), NEW lost, NEW g \in Frame,
           (m + 1) - c = Size[g],
           \A i \in 1..Size[g] : stream[c + i] = [frame |-> g, at |-> i],
           Received(known, lost, h), Orderly(known, lost, h, stream, c)
    PROVE  /\ Received(Append(known, g), lost, h)
           /\ Orderly(Append(known, g), lost, h, stream, m + 1)
           /\ \A x \in 1..h : Accounted(x, known, lost, stream, c)
                                => Accounted(x, Append(known, g), lost, stream, m + 1)
<1> DEFINE new == Append(known, g)
           n == Len(known)
<1>1. /\ g \in Nat /\ Size[g] \in Nat /\ 1 \in 1..Size[g] /\ Size[g] \in 1..Size[g]
      /\ Len(stream) \in Nat /\ n \in Nat /\ DOMAIN known = 1..n
  BY Sizes
<1>2. /\ DOMAIN new = 1..(n + 1) /\ new[n + 1] = g
      /\ \A i \in 1..n : new[i] = known[i]
  <2>1. new \in Seq(Frame) /\ Len(new) = n + 1
    OBVIOUS
  <2> QED BY <1>1, <2>1
<1>3. c + 1 \in (c + 1)..Len(stream) /\ m + 1 \in (c + 1)..Len(stream)
  BY <1>1
<1>4. /\ stream[c + 1] = [frame |-> g, at |-> 1]
      /\ stream[m + 1] = [frame |-> g, at |-> Size[g]]
  <2>1. m + 1 = c + Size[g]
    BY <1>1
  <2> QED BY <1>1, <2>1
<1>5. stream[c + 1].frame = g /\ stream[m + 1].frame = g /\ stream[m + 1].at = Size[g]
  BY <1>4
<1>6. /\ g \in 1..h /\ g \notin lost
      /\ \A k \in DOMAIN known : known[k] < g
      /\ \A x \in 1..(g - 1) : Accounted(x, known, lost, stream, c)
  <2>1. g \in lost => Size[g] < Size[g]
    BY <1>3, <1>5 DEF Orderly
  <2>2. /\ g \in 1..h
        /\ \A k \in DOMAIN known : known[k] < g
        /\ \A x \in 1..(g - 1) : Accounted(x, known, lost, stream, c)
    BY <1>3, <1>5 DEF Orderly
  <2> QED BY <1>1, <2>1, <2>2
\* The units taken are all of g; those left come after its last.
<1>7. \A j \in (c + 1)..(m + 1) : stream[j].frame = g
  <2>1. \A j \in (c + 1)..(m + 1) : j - c \in 1..Size[g] /\ c + (j - c) = j
    BY <1>1
  <2>2. \A i \in 1..Size[g] : stream[c + i].frame = g
    <3> TAKE i \in 1..Size[g]
    <3>1. stream[c + i] = [frame |-> g, at |-> i]
      OBVIOUS
    <3> QED BY <3>1
  <2> QED BY <2>1, <2>2
<1>8. \A j \in ((m + 1) + 1)..Len(stream) :
        /\ j \in (c + 1)..Len(stream)
        /\ stream[j].frame \in 1..h /\ stream[j].at \in 1..Size[stream[j].frame]
        /\ g < stream[j].frame
  <2> TAKE j \in ((m + 1) + 1)..Len(stream)
  <2>1. j \in (c + 1)..Len(stream)
    BY <1>1
  <2>2. /\ Before(stream[m + 1], stream[j])
        /\ stream[j].frame \in 1..h /\ stream[j].at \in 1..Size[stream[j].frame]
    BY <1>3, <2>1 DEF Orderly
  <2>3. g < stream[j].frame \/ (g = stream[j].frame /\ Size[g] < stream[j].at)
    BY <1>5, <2>2 DEF Before
  <2>4. ~ (g = stream[j].frame /\ Size[g] < stream[j].at)
    BY <1>1, <2>2
  <2> QED BY <2>1, <2>2, <2>3, <2>4
<1>9. \A x : Accounted(x, known, lost, stream, c) => Accounted(x, new, lost, stream, m + 1)
  <2> SUFFICES ASSUME NEW x, Accounted(x, known, lost, stream, c)
               PROVE  Accounted(x, new, lost, stream, m + 1)
    OBVIOUS
  <2>1. CASE x \in lost
    BY <2>1 DEF Accounted
  <2>2. CASE \E k \in DOMAIN known : known[k] = x
    <3>1. PICK k \in 1..n : known[k] = x
      BY <1>1, <2>2
    <3>2. k \in DOMAIN new /\ new[k] = x
      BY <1>1, <1>2, <3>1
    <3> HIDE DEF new
    <3> QED BY <3>2 DEF Accounted
  <2>3. CASE \E j \in (c + 1)..Len(stream) : stream[j] = LastUnit(x)
    <3>1. PICK j \in (c + 1)..Len(stream) : stream[j] = LastUnit(x)
      BY <2>3
    <3>2. CASE j <= m + 1
      <4>1. x = g
        <5>1. j \in (c + 1)..(m + 1)
          BY <1>1, <3>2
        <5>2. stream[j].frame = x
          BY <3>1 DEF LastUnit
        <5> QED BY <1>7, <5>1, <5>2
      <4>2. n + 1 \in DOMAIN new /\ new[n + 1] = x
        BY <1>1, <1>2, <4>1
      <4> HIDE DEF new, n
      <4> QED BY <4>2 DEF Accounted
    <3>3. CASE ~ j <= m + 1
      <4>1. j \in ((m + 1) + 1)..Len(stream)
        BY <1>1, <3>3
      <4> HIDE DEF new
      <4> QED BY <3>1, <4>1 DEF Accounted
    <3> QED BY <3>2, <3>3
  <2> QED BY <2>1, <2>2, <2>3 DEF Accounted
<1>10. Received(new, lost, h)
  <2>1. \A i, j \in DOMAIN new : i < j => new[i] < new[j]
    <3> SUFFICES ASSUME NEW i \in 1..(n + 1), NEW j \in 1..(n + 1), i < j
                 PROVE  new[i] < new[j]
      BY <1>2
    <3>1. i \in 1..n /\ new[i] = known[i]
      BY <1>1, <1>2
    <3>2. CASE j = n + 1
      BY <1>1, <1>2, <1>6, <3>1, <3>2
    <3>3. CASE j # n + 1
      <4>1. j \in 1..n /\ new[j] = known[j]
        BY <1>1, <1>2, <3>3
      <4> HIDE DEF new, n
      <4> QED BY <1>1, <3>1, <4>1 DEF Received
    <3> QED BY <3>2, <3>3
  <2>2. \A i \in DOMAIN new :
          /\ new[i] \in 1..h /\ new[i] \notin lost
          /\ \A x \in 1..new[i] : x \in lost \/ \E k \in DOMAIN new : new[k] = x
    <3> TAKE i \in DOMAIN new
    <3>1. CASE i = n + 1
      <4>1. new[i] = g
        BY <1>2, <3>1
      <4>2. \A x \in 1..g : x \in lost \/ \E k \in DOMAIN new : new[k] = x
        <5> TAKE x \in 1..g
        <5>1. CASE x = g
          <6>1. n + 1 \in DOMAIN new /\ new[n + 1] = x
            BY <1>1, <1>2, <5>1
          <6> HIDE DEF new, n
          <6> QED BY <6>1
        <5>2. CASE x # g
          <6>1. Accounted(x, known, lost, stream, c)
            BY <1>1, <1>6, <5>2
          <6>2. Accounted(x, new, lost, stream, m + 1)
            BY <1>9, <6>1
          <6>3. ~ \E j \in ((m + 1) + 1)..Len(stream) : stream[j] = LastUnit(x)
            <7>1. \A j \in ((m + 1) + 1)..Len(stream) : g < stream[j].frame /\ stream[j].frame \in 1..h
              BY <1>8
            <7>2. LastUnit(x).frame = x
              BY DEF LastUnit
            <7>3. h \in Nat
              BY Sizes
            <7> QED BY <1>1, <7>1, <7>2, <7>3
          <6> HIDE DEF new
          <6> QED BY <6>2, <6>3 DEF Accounted
        <5> QED BY <5>1, <5>2
      <4> HIDE DEF new
      <4> QED BY <1>6, <4>1, <4>2
    <3>2. CASE i # n + 1
      <4>1. i \in DOMAIN known /\ new[i] = known[i]
        BY <1>1, <1>2, <3>2
      <4>2. /\ known[i] \in 1..h /\ known[i] \notin lost
            /\ \A x \in 1..known[i] : x \in lost \/ \E k \in DOMAIN known : known[k] = x
        BY <4>1 DEF Received
      <4>3. \A x : (\E k \in DOMAIN known : known[k] = x) => \E k \in DOMAIN new : new[k] = x
        <5> SUFFICES ASSUME NEW x, NEW k \in DOMAIN known, known[k] = x
                     PROVE  \E l \in DOMAIN new : new[l] = x
          OBVIOUS
        <5>1. k \in DOMAIN new /\ new[k] = x
          BY <1>1, <1>2
        <5> HIDE DEF new
        <5> QED BY <5>1
      <4> HIDE DEF new
      <4> QED BY <4>1, <4>2, <4>3
    <3> QED BY <3>1, <3>2
  <2> HIDE DEF new
  <2> QED BY <2>1, <2>2 DEF Received
<1>11. Orderly(new, lost, h, stream, m + 1)
  <2> SUFFICES ASSUME NEW i \in ((m + 1) + 1)..Len(stream)
               PROVE  /\ stream[i].frame \in 1..h /\ stream[i].at \in 1..Size[stream[i].frame]
                      /\ \A j \in (i + 1)..Len(stream) : Before(stream[i], stream[j])
                      /\ stream[i].at > 1 =>
                            /\ i > (m + 1) + 1
                            /\ stream[i - 1] = [frame |-> stream[i].frame, at |-> stream[i].at - 1]
                      /\ stream[i].frame \in lost => stream[i].at < Size[stream[i].frame]
                      /\ \A k \in DOMAIN new : new[k] < stream[i].frame
                      /\ \A x \in 1..(stream[i].frame - 1) : Accounted(x, new, lost, stream, m + 1)
    BY DEF Orderly
  <2>1. i \in (c + 1)..Len(stream) /\ g < stream[i].frame
    BY <1>8
  <2>2. /\ stream[i].frame \in 1..h /\ stream[i].at \in 1..Size[stream[i].frame]
        /\ \A j \in (i + 1)..Len(stream) : Before(stream[i], stream[j])
        /\ stream[i].at > 1 =>
              stream[i - 1] = [frame |-> stream[i].frame, at |-> stream[i].at - 1]
        /\ stream[i].frame \in lost => stream[i].at < Size[stream[i].frame]
        /\ \A k \in DOMAIN known : known[k] < stream[i].frame
        /\ \A x \in 1..(stream[i].frame - 1) : Accounted(x, known, lost, stream, c)
    BY <2>1 DEF Orderly
  <2>3. stream[i].at > 1 => i > (m + 1) + 1
    <3> SUFFICES ASSUME stream[i].at > 1, ~ i > (m + 1) + 1
                 PROVE  FALSE
      OBVIOUS
    <3>1. i - 1 = m + 1
      BY <1>1
    <3>2. stream[m + 1].frame = stream[i].frame
      BY <2>2, <3>1
    <3>3. h \in Nat
      BY Sizes
    <3> QED BY <1>1, <1>5, <2>1, <3>2
  <2>4. \A k \in DOMAIN new : new[k] < stream[i].frame
    <3> TAKE k \in DOMAIN new
    <3>1. CASE k = n + 1
      BY <1>2, <2>1, <3>1
    <3>2. CASE k # n + 1
      <4>1. k \in DOMAIN known /\ new[k] = known[k]
        BY <1>1, <1>2, <3>2
      <4> HIDE DEF new
      <4> QED BY <2>2, <4>1
    <3> QED BY <3>1, <3>2
  <2> HIDE DEF new
  <2> QED BY <1>9, <2>2, <2>3, <2>4
<1> HIDE DEF new
<1>12. Received(new, lost, h) /\ Orderly(new, lost, h, stream, m + 1)
       /\ \A x \in 1..h : Accounted(x, known, lost, stream, c) => Accounted(x, new, lost, stream, m + 1)
  BY <1>9, <1>10, <1>11
<1> QED BY <1>12 DEF new

\* A unit more: it is held, or completes a frame, or the decoder fails, and
\* then a send had been given up.
LEMMA TakesUnit ==
    ASSUME NEW stream \in Seq(Unit), NEW m \in Nat, m < Len(stream),
           NEW h \in 0..Len(Size), NEW known \in Seq(Frame), NEW lost \in SUBSET (1..h),
           NEW mixed \in Mixed, NEW state, ReadsOn(state, known, lost, h, stream, m)
    PROVE  ReadsOn(TakeUnit(state, stream[m + 1], mixed), known, lost, h, stream, m + 1)
<1> DEFINE u == stream[m + 1]
           units == Append(state.rest, u)
           next == TakeUnit(state, u, mixed)
<1>1. /\ state \in Decoding /\ Len(state.rest) < Ceiling
      /\ state.bad => lost # {}
  BY DEF ReadsOn
<1>2. /\ state.frames \in Seq(Frame) /\ state.rest \in Seq(Unit) /\ state.bad \in BOOLEAN
      /\ known \o state.frames \in Seq(Frame)
  BY <1>1 DEF Decoding
<1>3. u \in Unit /\ units \in Seq(Unit) /\ Len(units) = Len(state.rest) + 1
      /\ Len(stream) \in Nat /\ Len(state.rest) \in Nat
  BY <1>2
<1>4. CASE state.bad
  <2>1. next = state
    BY <1>4 DEF TakeUnit
  <2> HIDE DEF next
  <2>2. ReadsOn(next, known, lost, h, stream, m + 1)
    BY <1>1, <1>4, <2>1 DEF ReadsOn
  <2> QED BY <2>2 DEF next
<1>5. CASE ~ state.bad
  <2>1. PICK c \in 0..m : Reading(state, known, lost, h, stream, m, c)
    BY <1>5 DEF ReadsOn
  <2> DEFINE size == Declared(units, mixed)
             all == known \o state.frames
             f == units[1].frame
  <2>2. /\ Len(state.rest) = m - c
        /\ \A i \in 1..(m - c) : state.rest[i] = stream[c + i]
        /\ Received(all, lost, h) /\ Orderly(all, lost, h, stream, c)
        /\ Begun(state.rest, lost)
        /\ \A g \in 1..h : Accounted(g, known, lost, stream, 0) => Accounted(g, all, lost, stream, c)
    BY <2>1 DEF Reading
  <2>3. /\ Len(units) = (m + 1) - c
        /\ \A i \in 1..((m + 1) - c) : units[i] = stream[c + i]
    <3>1. \A i \in 1..Len(state.rest) : units[i] = state.rest[i]
      BY <1>2, <1>3
    <3>2. units[Len(state.rest) + 1] = u
      BY <1>2, <1>3
    <3>3. Len(units) = (m + 1) - c
      BY <1>3, <2>2
    <3>4. \A i \in 1..(m - c) : units[i] = stream[c + i]
      <4> HIDE DEF units
      <4> QED BY <2>2, <3>1
    <3>5. units[(m + 1) - c] = stream[c + ((m + 1) - c)]
      <4>1. Len(state.rest) + 1 = (m + 1) - c /\ c + ((m + 1) - c) = m + 1
        BY <2>2
      <4> HIDE DEF units
      <4> QED BY <3>2, <4>1
    <3>6. \A i \in 1..((m + 1) - c) : i \in 1..(m - c) \/ i = (m + 1) - c
      OBVIOUS
    <3> DEFINE k == (m + 1) - c
    <3>7. units[k] = stream[c + k]
      BY <3>5
    <3>8. \A i \in 1..k : i \in 1..(m - c) \/ i = k
      BY <3>6
    <3> HIDE DEF units, k
    <3>9. \A i \in 1..k : units[i] = stream[c + i]
      BY <3>4, <3>7, <3>8
    <3> QED BY <3>3, <3>9 DEF k
  <2>4. lost = {} => StartOf(f, units)
    <3> SUFFICES ASSUME lost = {} PROVE StartOf(f, units)
      OBVIOUS
    <3>1. Orderly(all, {}, h, stream, c) /\ Begun(state.rest, {})
      BY <2>2
    <3>2. all \in Seq(Frame)
      BY <1>2
    <3> HIDE DEF all
    <3> QED BY <1>2, <2>2, <3>1, <3>2, NextUnit
  <2>5. size \in Nat
    <3>1. mixed \in Nat
      BY Sizes DEF Mixed
    <3>2. units[1] \in Unit
      <4>1. 1 \in 1..Len(units)
        BY <1>3
      <4> HIDE DEF units
      <4> QED BY <1>3, <4>1
    <3>3. Size[units[1].frame] \in Nat
      BY <3>2, Sizes DEF Unit
    <3> HIDE DEF units
    <3> QED BY <3>1, <3>3 DEF Declared
  <2>6. lost = {} /\ HeaderUnits <= Len(units) => size = Size[f] /\ Size[f] <= Ceiling
    <3> SUFFICES ASSUME lost = {}, HeaderUnits <= Len(units)
                 PROVE  size = Size[f] /\ Size[f] <= Ceiling
      OBVIOUS
    <3>1. StartOf(f, units)
      BY <2>4
    <3>2. f \in Frame
      BY <3>1 DEF StartOf
    <3> HIDE DEF units, f
    <3> QED BY <1>3, <3>1, <3>2, HeaderDeclares, Sizes
  <2> DEFINE held == [state EXCEPT !.rest = units]
             broken == [state EXCEPT !.bad = TRUE]
             done == [state EXCEPT !.frames = Append(@, Last(units).frame), !.rest = << >>]
\* The unit is held.
  <2>7. ASSUME \/ Len(units) < HeaderUnits
               \/ Len(units) >= HeaderUnits /\ size <= Ceiling /\ Len(units) < size
        PROVE  ReadsOn(held, known, lost, h, stream, m + 1)
    <3>1. /\ held \in Decoding /\ held.rest = units /\ held.frames = state.frames
          /\ ~ held.bad
      BY <1>1, <1>3, <1>5 DEF Decoding
    <3>2. Len(units) < Ceiling
      <4> HIDE DEF units, size
      <4> QED BY <1>3, <2>5, <2>7, Sizes
    <3>3. Begun(units, lost)
      <4> SUFFICES ASSUME lost = {}
                   PROVE  /\ \A i \in DOMAIN units : units[i] = [frame |-> f, at |-> i]
                          /\ Len(units) < Size[f]
        BY DEF Begun
      <4>1. /\ f \in Frame /\ Len(units) \in 1..Size[f]
            /\ \A i \in 1..Len(units) : units[i] = [frame |-> f, at |-> i]
        BY <2>4 DEF StartOf
      <4>2. DOMAIN units = 1..Len(units)
        BY <1>3
      <4>3. Len(units) < Size[f]
        <5>1. Size[f] \in Nat /\ HeaderUnits < Size[f]
          BY <4>1, Sizes
        <5>2. size = Size[f] \/ Len(units) < HeaderUnits
          BY <2>6, <2>7, <1>3, Sizes
        <5> HIDE DEF units, f, size
        <5> QED BY <1>3, <2>7, <5>1, <5>2, Sizes
      <4> QED BY <4>1, <4>2, <4>3
    <3>4. Reading(held, known, lost, h, stream, m + 1, c)
      <4> HIDE DEF held, units
      <4> QED BY <2>2, <2>3, <3>1, <3>3 DEF Reading
    <3>5. c \in 0..(m + 1)
      OBVIOUS
    <3> HIDE DEF held, units
    <3> QED BY <3>1, <3>2, <3>4, <3>5 DEF ReadsOn
\* The decoder fails.
  <2>8. ASSUME lost # {}
        PROVE  ReadsOn(broken, known, lost, h, stream, m + 1)
    <3>1. broken \in Decoding /\ broken.rest = state.rest /\ broken.bad
      BY <1>1 DEF Decoding
    <3> HIDE DEF broken
    <3> QED BY <1>1, <2>8, <3>1 DEF ReadsOn
\* A frame is complete.
  <2>9. ASSUME Len(units) >= HeaderUnits, units = Units(Last(units).frame)
        PROVE  ReadsOn(done, known, lost, h, stream, m + 1)
    <3> DEFINE g == Last(units).frame
    <3>1. g \in Frame
      <4>1. Last(units) \in Unit
        <5>1. Len(units) \in 1..Len(units)
          BY <1>3
        <5> HIDE DEF units
        <5> QED BY <1>3, <5>1 DEF Last
      <4> HIDE DEF units
      <4> QED BY <4>1 DEF Unit
    <3>2. Size[g] \in Nat
      BY <3>1, Sizes
    <3>3. units = [i \in 1..Size[g] |-> [frame |-> g, at |-> i]]
      BY <2>9 DEF Units
    <3>4. Len(units) = Size[g] /\ \A i \in 1..Size[g] : units[i] = [frame |-> g, at |-> i]
      <4> HIDE DEF g, units
      <4> QED BY <1>3, <3>2, <3>3
    <3>5. (m + 1) - c = Size[g] /\ \A i \in 1..Size[g] : stream[c + i] = [frame |-> g, at |-> i]
      <4> HIDE DEF g, units
      <4> QED BY <2>3, <3>4
    <3>6. /\ Received(Append(all, g), lost, h)
          /\ Orderly(Append(all, g), lost, h, stream, m + 1)
          /\ \A x \in 1..h : Accounted(x, all, lost, stream, c)
                               => Accounted(x, Append(all, g), lost, stream, m + 1)
      <4>1. all \in Seq(Frame)
        BY <1>2
      <4>2. (m + 1) - c = Size[g]
        BY <3>5
      <4> HIDE DEF g, all
      <4> QED BY <2>2, <3>1, <3>5, <4>1, <4>2, FrameDone, Zenon
    <3>7. /\ done \in Decoding /\ done.rest = << >> /\ ~ done.bad
          /\ done.frames = Append(state.frames, g)
      <4>1. Append(state.frames, g) \in Seq(Frame)
        BY <1>2, <3>1
      <4>2. << >> \in Seq(Unit)
        OBVIOUS
      <4> DEFINE w == Append(state.frames, g)
      <4>3. done = [state EXCEPT !.frames = w, !.rest = << >>]
        BY <1>1 DEF Decoding
      <4> HIDE DEF w, done, g
      <4>4. /\ done \in Decoding /\ done.rest = << >> /\ ~ done.bad /\ done.frames = w
        BY <1>1, <1>5, <4>1, <4>2, <4>3 DEF Decoding, w
      <4> QED BY <4>4 DEF w
    <3>8. known \o done.frames = Append(all, g)
      <4>1. known \o Append(state.frames, g) = Append(known \o state.frames, g)
        <5> DEFINE w == state.frames
        <5>1. w \in Seq(Frame)
          BY <1>2
        <5> HIDE DEF g, w
        <5>2. known \o Append(w, g) = Append(known \o w, g)
          BY <3>1, <5>1, AppendToJoined
        <5> QED BY <5>2 DEF w
      <4> HIDE DEF done, g
      <4> QED BY <3>7, <4>1
    <3>9. Reading(done, known, lost, h, stream, m + 1, m + 1)
      <4>1. Len(done.rest) = (m + 1) - (m + 1)
        <5> HIDE DEF done
        <5> QED BY <3>7
      <4>2. \A i \in 1..((m + 1) - (m + 1)) : done.rest[i] = stream[m + 1 + i]
        OBVIOUS
      <4>3. Begun(done.rest, lost)
        <5>1. Begun(<< >>, lost)
          BY DEF Begun
        <5> HIDE DEF done
        <5> QED BY <3>7, <5>1
      <4> HIDE DEF done, all, g
      <4> QED BY <2>2, <3>6, <3>8, <4>1, <4>2, <4>3 DEF Reading
    <3>10. Len(done.rest) < Ceiling
      <4>1. Len(<< >>) = 0
        OBVIOUS
      <4> HIDE DEF done
      <4> QED BY <3>7, <4>1, Sizes
    <3>11. m + 1 \in 0..(m + 1)
      OBVIOUS
    <3> HIDE DEF done
    <3> QED BY <3>7, <3>9, <3>10, <3>11 DEF ReadsOn
  <2>10. next = IF Len(units) < HeaderUnits THEN held
                ELSE IF size > Ceiling THEN broken
                ELSE IF Len(units) < size THEN held
                ELSE IF units = Units(Last(units).frame) THEN done ELSE broken
    <3>1. next = IF Len(units) < HeaderUnits THEN held
                 ELSE IF size > Ceiling THEN broken
                 ELSE IF Len(units) < size THEN held
                 ELSE Decoded(state, units)
      BY <1>5 DEF TakeUnit
    <3>2. Decoded(state, units) = IF units = Units(Last(units).frame) THEN done ELSE broken
      BY DEF Decoded
    <3> HIDE DEF next, held, broken, done, units, size
    <3> QED BY <3>1, <3>2
  <2>11. Len(units) >= HeaderUnits /\ size > Ceiling => lost # {}
    <3> SUFFICES ASSUME Len(units) >= HeaderUnits, size > Ceiling, lost = {} PROVE FALSE
      OBVIOUS
    <3>1. HeaderUnits <= Len(units)
      BY <1>3, Sizes
    <3>2. size <= Ceiling
      BY <2>6, <3>1
    <3> HIDE DEF size
    <3> QED BY <2>5, <3>2, Sizes
  <2>12. Len(units) >= HeaderUnits /\ Len(units) >= size /\ units # Units(Last(units).frame)
           => lost # {}
    <3> SUFFICES ASSUME Len(units) >= HeaderUnits, Len(units) >= size, lost = {}
                 PROVE  units = Units(Last(units).frame)
      OBVIOUS
    <3>1. HeaderUnits <= Len(units)
      BY <1>3, Sizes
    <3>2. StartOf(f, units) /\ size = Size[f]
      BY <2>4, <2>6, <3>1
    <3>3. Len(units) = Size[f]
      <4>1. Len(units) \in 1..Size[f] /\ Size[f] \in Nat
        BY <3>2, Sizes DEF StartOf
      <4> HIDE DEF units, size, f
      <4> QED BY <3>2, <4>1
    <3> HIDE DEF units, f
    <3> QED BY <1>3, <3>2, <3>3, WholeFrame
  <2>13. HeaderUnits \in Nat /\ Ceiling \in Nat /\ Len(units) \in Nat
    BY <1>3, Sizes
  <2>14. ReadsOn(next, known, lost, h, stream, m + 1)
    <3> HIDE DEF next, held, broken, done, units, size
    <3>1. CASE Len(units) < HeaderUnits
      BY <2>7, <2>10, <3>1
    <3>2. CASE ~ Len(units) < HeaderUnits /\ size > Ceiling
      BY <2>8, <2>10, <2>11, <2>13, <3>2
    <3>3. CASE ~ Len(units) < HeaderUnits /\ ~ size > Ceiling /\ Len(units) < size
      <4>1. Len(units) >= HeaderUnits /\ size <= Ceiling /\ Len(units) < size
        BY <2>5, <2>13, <3>3
      <4> QED BY <2>7, <2>10, <3>3, <4>1
    <3>4. CASE ~ Len(units) < HeaderUnits /\ ~ size > Ceiling /\ ~ Len(units) < size
      <4>1. Len(units) >= HeaderUnits /\ Len(units) >= size
        BY <2>5, <2>13, <3>4
      <4>2. CASE units = Units(Last(units).frame)
        BY <2>9, <2>10, <3>4, <4>1, <4>2
      <4>3. CASE units # Units(Last(units).frame)
        BY <2>8, <2>10, <2>12, <3>4, <4>1, <4>3
      <4> QED BY <4>2, <4>3
    <3> QED BY <3>1, <3>2, <3>3, <3>4
  <2> QED BY <2>14 DEF next
<1> QED BY <1>4, <1>5

-----------------------------------------------------------------------------
(* A read *)

\* Draining is taking unit after unit.
LEMMA DrainedIs ==
    ASSUME NEW units \in Seq(Unit), NEW mixed
    PROVE  \E g : /\ g[0] = Undecoded
                  /\ \A n \in 1..Len(units) : g[n] = TakeUnit(g[n - 1], units[n], mixed)
                  /\ Drained(units, mixed) = g[Len(units)]
<1> DEFINE IsDrain(g, n) ==
             g = [i \in 0..n |-> IF i = 0 THEN Undecoded
                                 ELSE TakeUnit(g[i - 1], units[i], mixed)]
           T == {n \in Nat : \E g : IsDrain(g, n)}
<1>1. 0 \in T
  <2> DEFINE g == [i \in 0..0 |-> Undecoded]
  <2>1. IsDrain(g, 0)
    OBVIOUS
  <2> HIDE DEF IsDrain, g
  <2> QED BY <2>1
<1>2. \A n \in T : n + 1 \in T
  <2> TAKE n \in T
  <2>1. n \in Nat
    OBVIOUS
  <2>2. PICK g : IsDrain(g, n)
    OBVIOUS
  <2>3. /\ g[0] = Undecoded /\ \A i \in 1..n : g[i] = TakeUnit(g[i - 1], units[i], mixed)
    BY <2>1, <2>2
  <2> DEFINE k == [i \in 0..(n + 1) |-> IF i = n + 1 THEN TakeUnit(g[n], units[n + 1], mixed)
                                        ELSE g[i]]
  <2>4. k[0] = Undecoded
    BY <2>1, <2>3
  <2>5. \A i \in 1..(n + 1) : k[i] = TakeUnit(k[i - 1], units[i], mixed)
    <3> TAKE i \in 1..(n + 1)
    <3>1. k[i - 1] = g[i - 1]
      BY <2>1
    <3>2. CASE i = n + 1
      <4>1. k[i] = TakeUnit(g[n], units[n + 1], mixed) /\ i - 1 = n
        BY <2>1, <3>2
      <4> HIDE DEF k
      <4> QED BY <3>1, <3>2, <4>1
    <3>3. CASE i # n + 1
      <4>1. k[i] = g[i] /\ i \in 1..n
        BY <2>1, <3>3
      <4> HIDE DEF k
      <4> QED BY <2>3, <3>1, <4>1
    <3> QED BY <3>2, <3>3
  <2>6. k = [i \in 0..(n + 1) |-> k[i]]
    OBVIOUS
  <2> HIDE DEF k
  <2>7. k = [i \in 0..(n + 1) |-> IF i = 0 THEN Undecoded
                                  ELSE TakeUnit(k[i - 1], units[i], mixed)]
    <3>1. \A i \in 0..(n + 1) : k[i] = IF i = 0 THEN Undecoded
                                        ELSE TakeUnit(k[i - 1], units[i], mixed)
      BY <2>1, <2>4, <2>5
    <3> QED BY <2>6, <3>1
  <2>8. IsDrain(k, n + 1)
    BY <2>7
  <2> HIDE DEF IsDrain
  <2> QED BY <2>1, <2>8
<1>3. T = Nat
  <2> HIDE DEF IsDrain
  <2>1. T \subseteq Nat
    OBVIOUS
  <2> HIDE DEF T
  <2> QED BY <1>1, <1>2, <2>1, NaturalSet
<1>4. Len(units) \in Nat
  OBVIOUS
<1> DEFINE h == CHOOSE g : IsDrain(g, Len(units))
<1>5. IsDrain(h, Len(units))
  <2>1. \E g : IsDrain(g, Len(units))
    BY <1>3, <1>4
  <2> HIDE DEF IsDrain
  <2> QED BY <2>1
<1>6. Drained(units, mixed) = h[Len(units)]
  BY DEF Drained
<1> HIDE DEF h
<1>7. /\ h[0] = Undecoded
      /\ \A n \in 1..Len(units) : h[n] = TakeUnit(h[n - 1], units[n], mixed)
  BY <1>4, <1>5
<1> QED BY <1>6, <1>7

\* A read of any number of units leaves the decoder in order.
LEMMA DrainReads ==
    ASSUME NEW stream \in Seq(Unit), NEW b \in Nat, NEW units \in Seq(Unit),
           b + Len(units) <= Len(stream),
           \A i \in 1..Len(units) : stream[b + i] = units[i],
           NEW h \in 0..Len(Size), NEW known \in Seq(Frame), NEW lost \in SUBSET (1..h),
           NEW mixed \in Mixed, ReadsOn(Undecoded, known, lost, h, stream, b)
    PROVE  ReadsOn(Drained(units, mixed), known, lost, h, stream, b + Len(units))
<1>1. PICK g : /\ g[0] = Undecoded
               /\ \A n \in 1..Len(units) : g[n] = TakeUnit(g[n - 1], units[n], mixed)
               /\ Drained(units, mixed) = g[Len(units)]
  BY DrainedIs
<1> DEFINE T == {n \in Nat : n <= Len(units) => ReadsOn(g[n], known, lost, h, stream, b + n)}
<1>2. 0 \in T
  <2>1. b + 0 = b
    OBVIOUS
  <2> QED BY <1>1, <2>1
<1>3. \A n \in T : n + 1 \in T
  <2> SUFFICES ASSUME NEW n \in Nat, n + 1 <= Len(units),
                      n <= Len(units) => ReadsOn(g[n], known, lost, h, stream, b + n)
               PROVE  ReadsOn(g[n + 1], known, lost, h, stream, b + (n + 1))
    OBVIOUS
  <2> DEFINE m == b + n
  <2>1. /\ Len(units) \in Nat /\ Len(stream) \in Nat
        /\ n + 1 \in 1..Len(units) /\ (n + 1) - 1 = n
        /\ m \in Nat /\ m < Len(stream) /\ m + 1 = b + (n + 1)
    OBVIOUS
  <2>2. g[n + 1] = TakeUnit(g[n], units[n + 1], mixed)
    BY <1>1, <2>1
  <2>3. units[n + 1] = stream[m + 1]
    BY <2>1
  <2>4. ReadsOn(g[n], known, lost, h, stream, m)
    BY <2>1
  <2> HIDE DEF m
  <2>5. ReadsOn(TakeUnit(g[n], stream[m + 1], mixed), known, lost, h, stream, m + 1)
    BY <2>1, <2>4, TakesUnit
  <2> QED BY <2>1, <2>2, <2>3, <2>5
<1>4. T = Nat
  <2>1. T \subseteq Nat
    OBVIOUS
  <2> HIDE DEF T
  <2> QED BY <1>2, <1>3, <2>1, NaturalSet
<1>5. Len(units) \in T
  BY <1>4
<1> QED BY <1>1, <1>5

\* The first units of a stream are as orderly as the stream, if what is given
\* up meanwhile had its last unit in the rest.
LEMMA PrefixKeepsOrder ==
    ASSUME NEW stream, NEW part, Len(part) \in Nat, Len(stream) \in Nat,
           Len(part) <= Len(stream), \A i \in 1..Len(part) : part[i] = stream[i],
           NEW known, NEW lost, NEW more, lost \subseteq more, NEW h \in 0..Len(Size),
           \A f \in more \ lost : \E j \in 1..Len(stream) :
                j > Len(part) /\ stream[j] = LastUnit(f),
           Orderly(known, lost, h, stream, 0)
    PROVE  Orderly(known, more, h, part, 0)
<1> SUFFICES ASSUME NEW i \in 1..Len(part)
             PROVE  /\ part[i].frame \in 1..h /\ part[i].at \in 1..Size[part[i].frame]
                    /\ \A j \in (i + 1)..Len(part) : Before(part[i], part[j])
                    /\ part[i].at > 1 =>
                          /\ i > 0 + 1
                          /\ part[i - 1] = [frame |-> part[i].frame, at |-> part[i].at - 1]
                    /\ part[i].frame \in more => part[i].at < Size[part[i].frame]
                    /\ \A k \in DOMAIN known : known[k] < part[i].frame
                    /\ \A g \in 1..(part[i].frame - 1) : Accounted(g, known, more, part, 0)
  BY DEF Orderly
<1>1. i \in 1..Len(stream) /\ part[i] = stream[i] /\ 0 + 1 = 1
  OBVIOUS
<1>2. /\ part[i].frame \in 1..h /\ part[i].at \in 1..Size[part[i].frame]
      /\ \A j \in (i + 1)..Len(stream) : Before(stream[i], stream[j])
      /\ part[i].at > 1 =>
            /\ i > 0 + 1
            /\ stream[i - 1] = [frame |-> part[i].frame, at |-> part[i].at - 1]
      /\ part[i].frame \in lost => part[i].at < Size[part[i].frame]
      /\ \A k \in DOMAIN known : known[k] < part[i].frame
      /\ \A g \in 1..(part[i].frame - 1) : Accounted(g, known, lost, stream, 0)
  BY <1>1 DEF Orderly
<1>3. \A j \in (i + 1)..Len(part) : Before(part[i], part[j])
  BY <1>2
<1>4. part[i].at > 1 => part[i - 1] = [frame |-> part[i].frame, at |-> part[i].at - 1]
  BY <1>2
<1>5. part[i].frame \in more => part[i].at < Size[part[i].frame]
  <2> SUFFICES ASSUME part[i].frame \in more \ lost PROVE part[i].at < Size[part[i].frame]
    BY <1>2
  <2> DEFINE f == part[i].frame
  <2>1. PICK j \in 1..Len(stream) : j > Len(part) /\ stream[j] = LastUnit(f)
    OBVIOUS
  <2>2. Before(stream[i], stream[j])
    BY <1>2, <2>1
  <2>3. stream[j].frame = f /\ stream[j].at = Size[f] /\ stream[i].frame = f
    BY <1>1, <2>1 DEF LastUnit
  <2>4. f < f \/ part[i].at < Size[f]
    <3> HIDE DEF f
    <3> QED BY <1>1, <2>2, <2>3 DEF Before
  <2>5. f \in Nat
    BY <1>2, Sizes
  <2> HIDE DEF f
  <2>6. part[i].at < Size[f]
    BY <2>4, <2>5
  <2> QED BY <2>6 DEF f
<1>6. \A g \in 1..(part[i].frame - 1) : Accounted(g, known, more, part, 0)
  <2> TAKE g \in 1..(part[i].frame - 1)
  <2>1. Accounted(g, known, lost, stream, 0)
    BY <1>2
  <2>2. CASE \E j \in (0 + 1)..Len(stream) : stream[j] = LastUnit(g)
    <3>1. PICK j \in (0 + 1)..Len(stream) : stream[j] = LastUnit(g)
      BY <2>2
    <3>2. stream[j].frame = g /\ g < part[i].frame /\ part[i].frame \in Nat /\ g \in Nat
      <4>1. part[i].frame \in Nat
        BY <1>2, Sizes
      <4> QED BY <3>1, <4>1 DEF LastUnit
    <3>3. ~ i < j
      <4> SUFFICES ASSUME i < j PROVE FALSE
        OBVIOUS
      <4>1. j \in (i + 1)..Len(stream)
        BY <3>1
      <4>2. Before(stream[i], stream[j])
        BY <1>2, <4>1
      <4> QED BY <1>1, <3>2, <4>2 DEF Before
    <3>4. j \in (0 + 1)..Len(part) /\ part[j] = LastUnit(g)
      BY <3>1, <3>3
    <3> QED BY <3>4 DEF Accounted
  <2> QED BY <2>1, <2>2 DEF Accounted
<1> QED BY <1>2, <1>3, <1>4, <1>5, <1>6

\* What is left of a stream, counted anew.
LEMMA SuffixKeepsOrder ==
    ASSUME NEW stream, NEW part, Len(part) \in Nat, Len(stream) \in Nat,
           NEW c \in Nat, Len(part) = Len(stream) - c,
           \A i \in 1..Len(part) : part[i] = stream[c + i],
           NEW known, NEW lost, NEW h \in Nat, Orderly(known, lost, h, stream, c)
    PROVE  /\ Orderly(known, lost, h, part, 0)
           /\ \A g : Accounted(g, known, lost, stream, c) => Accounted(g, known, lost, part, 0)
<1>1. \A g : Accounted(g, known, lost, stream, c) => Accounted(g, known, lost, part, 0)
  <2> SUFFICES ASSUME NEW g, NEW j \in (c + 1)..Len(stream), stream[j] = LastUnit(g)
               PROVE  Accounted(g, known, lost, part, 0)
    BY DEF Accounted
  <2>1. j - c \in (0 + 1)..Len(part) /\ c + (j - c) = j
    OBVIOUS
  <2>2. part[j - c] = LastUnit(g)
    BY <2>1
  <2> QED BY <2>1, <2>2 DEF Accounted
<1>2. Orderly(known, lost, h, part, 0)
  <2> SUFFICES ASSUME NEW i \in 1..Len(part)
               PROVE  /\ part[i].frame \in 1..h /\ part[i].at \in 1..Size[part[i].frame]
                      /\ \A j \in (i + 1)..Len(part) : Before(part[i], part[j])
                      /\ part[i].at > 1 =>
                            /\ i > 0 + 1
                            /\ part[i - 1] = [frame |-> part[i].frame, at |-> part[i].at - 1]
                      /\ part[i].frame \in lost => part[i].at < Size[part[i].frame]
                      /\ \A k \in DOMAIN known : known[k] < part[i].frame
                      /\ \A g \in 1..(part[i].frame - 1) : Accounted(g, known, lost, part, 0)
    BY DEF Orderly
  <2> DEFINE x == c + i
  <2>1. x \in (c + 1)..Len(stream) /\ part[i] = stream[x]
    OBVIOUS
  <2>2. /\ part[i].frame \in 1..h /\ part[i].at \in 1..Size[part[i].frame]
        /\ \A j \in (x + 1)..Len(stream) : Before(stream[x], stream[j])
        /\ part[i].at > 1 =>
              /\ x > c + 1
              /\ stream[x - 1] = [frame |-> part[i].frame, at |-> part[i].at - 1]
        /\ part[i].frame \in lost => part[i].at < Size[part[i].frame]
        /\ \A k \in DOMAIN known : known[k] < part[i].frame
        /\ \A g \in 1..(part[i].frame - 1) : Accounted(g, known, lost, stream, c)
    BY <2>1 DEF Orderly
  <2>3. \A j \in (i + 1)..Len(part) : Before(part[i], part[j])
    <3> TAKE j \in (i + 1)..Len(part)
    <3>1. c + j \in (x + 1)..Len(stream) /\ part[j] = stream[c + j]
      OBVIOUS
    <3> HIDE DEF x
    <3> QED BY <2>1, <2>2, <3>1
  <2>4. part[i].at > 1 =>
          /\ i > 0 + 1
          /\ part[i - 1] = [frame |-> part[i].frame, at |-> part[i].at - 1]
    <3> SUFFICES ASSUME part[i].at > 1
                 PROVE  /\ i > 0 + 1
                        /\ part[i - 1] = [frame |-> part[i].frame, at |-> part[i].at - 1]
      OBVIOUS
    <3>1. i > 1
      BY <2>2
    <3>2. i - 1 \in 1..Len(part) /\ c + (i - 1) = x - 1
      BY <3>1
    <3>3. part[i - 1] = stream[x - 1]
      BY <3>2
    <3> HIDE DEF x
    <3> QED BY <2>2, <3>1, <3>3
  <2> HIDE DEF x
  <2> QED BY <1>1, <2>2, <2>3, <2>4
<1> QED BY <1>1, <1>2

\* A stream with nothing missing stays orderly when the next frame is put at
\* its end.
LEMMA FrameKeepsOrder ==
    ASSUME NEW stream, NEW longer, Len(stream) \in Nat, NEW h \in Nat, h + 1 \in Frame,
           Len(longer) = Len(stream) + Size[h + 1],
           \A i \in 1..Len(stream) : longer[i] = stream[i],
           \A i \in 1..Size[h + 1] : longer[Len(stream) + i] = [frame |-> h + 1, at |-> i],
           NEW known, NEW lost \in SUBSET (1..h),
           \A k \in DOMAIN known : known[k] \in 1..h,
           Orderly(known, lost, h, stream, 0),
           \A g \in 1..h : Accounted(g, known, lost, stream, 0)
    PROVE  /\ Orderly(known, lost, h + 1, longer, 0)
           /\ \A g \in 1..(h + 1) : Accounted(g, known, lost, longer, 0)
<1> DEFINE n == Len(stream)
<1>1. /\ n \in Nat /\ Size[h + 1] \in Nat \ {0} /\ Size[h + 1] \in 1..Size[h + 1]
      /\ Len(longer) = n + Size[h + 1] /\ Len(longer) \in Nat
  BY Sizes
<1>2. \A i \in 1..n : longer[i] = stream[i]
  OBVIOUS
<1>3. \A i \in (n + 1)..Len(longer) :
        /\ longer[i] = [frame |-> h + 1, at |-> i - n]
        /\ longer[i].frame = h + 1 /\ longer[i].at = i - n
        /\ i - n \in 1..Size[h + 1]
  <2> TAKE i \in (n + 1)..Len(longer)
  <2>1. i - n \in 1..Size[h + 1] /\ n + (i - n) = i
    BY <1>1
  <2>2. longer[n + (i - n)] = [frame |-> h + 1, at |-> i - n]
    BY <2>1
  <2> QED BY <2>1, <2>2
<1>4. \A g \in 1..h : Accounted(g, known, lost, longer, 0)
  <2> SUFFICES ASSUME NEW g \in 1..h, NEW j \in (0 + 1)..n, stream[j] = LastUnit(g)
               PROVE  Accounted(g, known, lost, longer, 0)
    BY DEF Accounted
  <2>1. j \in (0 + 1)..Len(longer) /\ longer[j] = LastUnit(g)
    BY <1>1, <1>2
  <2> QED BY <2>1 DEF Accounted
<1>5. Accounted(h + 1, known, lost, longer, 0)
  <2>1. Len(longer) \in (n + 1)..Len(longer) /\ Len(longer) - n = Size[h + 1]
        /\ Len(longer) \in (0 + 1)..Len(longer)
    BY <1>1
  <2>2. longer[Len(longer)] = LastUnit(h + 1)
    BY <1>3, <2>1 DEF LastUnit
  <2> QED BY <2>1, <2>2 DEF Accounted
<1>6. \A g \in 1..(h + 1) : Accounted(g, known, lost, longer, 0)
  BY <1>4, <1>5
<1>7. Orderly(known, lost, h + 1, longer, 0)
  <2> SUFFICES ASSUME NEW i \in 1..Len(longer)
               PROVE  /\ longer[i].frame \in 1..(h + 1) /\ longer[i].at \in 1..Size[longer[i].frame]
                      /\ \A j \in (i + 1)..Len(longer) : Before(longer[i], longer[j])
                      /\ longer[i].at > 1 =>
                            /\ i > 0 + 1
                            /\ longer[i - 1] = [frame |-> longer[i].frame, at |-> longer[i].at - 1]
                      /\ longer[i].frame \in lost => longer[i].at < Size[longer[i].frame]
                      /\ \A k \in DOMAIN known : known[k] < longer[i].frame
                      /\ \A g \in 1..(longer[i].frame - 1) : Accounted(g, known, lost, longer, 0)
    BY DEF Orderly
  <2>1. CASE i <= n
    <3>1. i \in (0 + 1)..n /\ longer[i] = stream[i]
      BY <1>1, <1>2, <2>1
    <3>2. /\ longer[i].frame \in 1..h /\ longer[i].at \in 1..Size[longer[i].frame]
          /\ \A j \in (i + 1)..n : Before(stream[i], stream[j])
          /\ longer[i].at > 1 =>
                /\ i > 0 + 1
                /\ stream[i - 1] = [frame |-> longer[i].frame, at |-> longer[i].at - 1]
          /\ longer[i].frame \in lost => longer[i].at < Size[longer[i].frame]
          /\ \A k \in DOMAIN known : known[k] < longer[i].frame
      BY <3>1 DEF Orderly
    <3>3. \A j \in (i + 1)..Len(longer) : Before(longer[i], longer[j])
      <4> TAKE j \in (i + 1)..Len(longer)
      <4>1. CASE j <= n
        <5>1. j \in (i + 1)..n /\ longer[j] = stream[j]
          BY <1>1, <1>2, <4>1
        <5> QED BY <3>1, <3>2, <5>1
      <4>2. CASE ~ j <= n
        <5>1. j \in (n + 1)..Len(longer)
          BY <1>1, <4>2
        <5>2. longer[j].frame = h + 1
          BY <1>3, <5>1
        <5> QED BY <3>2, <5>2 DEF Before
      <4> QED BY <4>1, <4>2
    <3>4. longer[i].at > 1 => longer[i - 1] = [frame |-> longer[i].frame, at |-> longer[i].at - 1]
      <4> SUFFICES ASSUME longer[i].at > 1 PROVE longer[i - 1] = stream[i - 1]
        BY <3>2
      <4>1. i - 1 \in 1..n
        BY <1>1, <2>1, <3>2
      <4> QED BY <1>2, <4>1
    <3>5. longer[i].frame \in 1..(h + 1) /\ \A g \in 1..(longer[i].frame - 1) : g \in 1..h
      BY <3>2
    <3> QED BY <1>4, <3>2, <3>3, <3>4, <3>5
  <2>2. CASE ~ i <= n
    <3>1. i \in (n + 1)..Len(longer)
      BY <1>1, <2>2
    <3>2. /\ longer[i] = [frame |-> h + 1, at |-> i - n]
          /\ longer[i].frame = h + 1 /\ longer[i].at = i - n
          /\ i - n \in 1..Size[h + 1]
      BY <1>3, <3>1
    <3>3. \A j \in (i + 1)..Len(longer) : Before(longer[i], longer[j])
      <4> TAKE j \in (i + 1)..Len(longer)
      <4>1. j \in (n + 1)..Len(longer)
        BY <1>1, <3>1
      <4>2. longer[j].frame = h + 1 /\ longer[j].at = j - n
        BY <1>3, <4>1
      <4>3. i - n < j - n
        BY <1>1
      <4> HIDE DEF n
      <4> QED BY <3>2, <4>2, <4>3 DEF Before
    <3>4. longer[i].at > 1 =>
            /\ i > 0 + 1
            /\ longer[i - 1] = [frame |-> longer[i].frame, at |-> longer[i].at - 1]
      <4> SUFFICES ASSUME i - n > 1
                   PROVE  /\ i > 0 + 1
                          /\ longer[i - 1] = [frame |-> h + 1, at |-> (i - n) - 1]
        BY <3>2
      <4>1. i - 1 \in (n + 1)..Len(longer) /\ (i - 1) - n = (i - n) - 1 /\ i > 0 + 1
        BY <1>1
      <4>2. longer[i - 1] = [frame |-> h + 1, at |-> (i - 1) - n]
        BY <1>3, <4>1
      <4> QED BY <4>1, <4>2
    <3>5. h + 1 \notin lost /\ \A k \in DOMAIN known : known[k] < h + 1
      OBVIOUS
    <3>6. \A g \in 1..((h + 1) - 1) : g \in 1..h
      OBVIOUS
    <3>7. h + 1 \in 1..(h + 1)
      OBVIOUS
    <3> HIDE DEF n
    <3> QED BY <1>4, <3>2, <3>3, <3>4, <3>5, <3>6, <3>7
  <2> QED BY <2>1, <2>2
<1> QED BY <1>6, <1>7

-----------------------------------------------------------------------------
(* Steps *)

\* What the type invariant says of the stream and of what was received.
LEMMA Typed ==
    ASSUME TypeOK
    PROVE  /\ handed \in 0..Len(Size) /\ handed \in Nat
           /\ abandoned \in SUBSET (1..handed)
           /\ sending \in Seq(Unit) /\ wire \in Seq(Unit) /\ buffer \in Seq(Unit)
           /\ pending \in Seq(Frame) /\ delivered \in Seq(Frame)
           /\ delivered \o pending \in Seq(Frame)
           /\ Stream \in Seq(Unit)
           /\ Len(Stream) = Len(buffer) + Len(wire) + Len(sending)
           /\ \A i \in 1..Len(buffer) : Stream[i] = buffer[i]
           /\ \A i \in 1..Len(wire) : Stream[Len(buffer) + i] = wire[i]
           /\ \A i \in 1..Len(sending) : Stream[Len(buffer) + Len(wire) + i] = sending[i]
<1>1. /\ handed \in 0..Len(Size) /\ handed \in Nat
      /\ abandoned \in SUBSET (1..handed)
      /\ sending \in Seq(Unit) /\ wire \in Seq(Unit) /\ buffer \in Seq(Unit)
      /\ pending \in Seq(Frame) /\ delivered \in Seq(Frame)
  BY Sizes DEF TypeOK
<1>2. delivered \o pending \in Seq(Frame)
  BY <1>1
<1>3. /\ Stream \in Seq(Unit)
      /\ Len(Stream) = Len(buffer) + Len(wire) + Len(sending)
      /\ \A i \in 1..Len(buffer) : Stream[i] = buffer[i]
      /\ \A i \in 1..Len(wire) : Stream[Len(buffer) + i] = wire[i]
      /\ \A i \in 1..Len(sending) : Stream[Len(buffer) + Len(wire) + i] = sending[i]
  BY <1>1, Joined DEF Stream
<1> QED BY <1>1, <1>2, <1>3

\* The invariant holds at the start.
LEMMA InitInv == Init => IInv
<1> SUFFICES ASSUME Init PROVE IInv
  OBVIOUS
<1>1. TypeOK
  <2>1. Len(<< >>) = 0 /\ << >> \in Seq(Unit) /\ << >> \in Seq(Frame)
    OBVIOUS
  <2>2. /\ handed \in 0..Len(Size) /\ Len(buffer) < Ceiling /\ Len(wire) <= Capacity
    BY <2>1, Sizes, CapacityAssumption DEF Init
  <2> QED BY <2>1, <2>2 DEF Init, TypeOK
<1>2. delivered \o pending = << >> /\ DOMAIN (<< >>) = {}
  BY DEF Init
<1>3. Received(delivered \o pending, abandoned, handed)
  BY <1>2 DEF Received
<1>4. FailureHasACause /\ SendingInv
  BY DEF Init, FailureHasACause, SendingInv
<1>5. Len(Stream) = 0
  BY <1>1, Typed DEF Init
<1>6. Orderly(delivered \o pending, abandoned, handed, Stream, 0)
  BY <1>5 DEF Orderly
<1>7. Begun(buffer, abandoned)
  BY DEF Init, Begun
<1>8. handed = 0
  BY DEF Init
<1>9. StreamInv
  BY <1>6, <1>7, <1>8 DEF StreamInv
<1> QED BY <1>1, <1>3, <1>4, <1>9 DEF IInv

\* More frames handed over: what was received is still what it was.
LEMMA ReceivedMonotone ==
    ASSUME NEW known, NEW lost, NEW more, NEW h \in Nat, NEW k \in Nat, h <= k,
           lost \subseteq more, \A i \in DOMAIN known : known[i] \notin more \ lost,
           Received(known, lost, h)
    PROVE  Received(known, more, k)
<1>1. \A i \in DOMAIN known : known[i] \in 1..k
  BY DEF Received
<1> QED BY <1>1 DEF Received

\* The invariant survives the start of a send.
LEMMA SendFrameKeeps == IInv /\ SendFrame => IInv'
<1> SUFFICES ASSUME IInv, SendFrame PROVE IInv'
  OBVIOUS
<1> DEFINE h == handed
           K == delivered \o pending
<1>1. TypeOK /\ Received(K, abandoned, h) /\ FailureHasACause /\ SendingInv /\ StreamInv
  BY DEF IInv
<1>2. /\ sender /\ sending = << >> /\ h + 1 \in Frame
      /\ handed' = h + 1 /\ sending' = Units(h + 1)
      /\ abandoned' = abandoned /\ sender' = sender /\ wire' = wire
      /\ receiver' = receiver /\ buffer' = buffer /\ failed' = failed
      /\ pending' = pending /\ delivered' = delivered
  BY DEF SendFrame, receiveVars
<1>3. Size[h + 1] \in Nat \ {0} /\ h \in Nat
  BY <1>1, <1>2, Sizes, Typed
<1>4. /\ sending' \in Seq(Unit) /\ Len(sending') = Size[h + 1]
      /\ \A i \in 1..Size[h + 1] : sending'[i] = [frame |-> h + 1, at |-> i]
  <2> DEFINE w == [i \in 1..Size[h + 1] |-> [frame |-> h + 1, at |-> i]]
  <2>1. sending' = w
    BY <1>2 DEF Units
  <2>2. w \in [1..Size[h + 1] -> Unit]
    BY <1>2, <1>3 DEF Unit
  <2>3. \A i \in 1..Size[h + 1] : w[i] = [frame |-> h + 1, at |-> i]
    OBVIOUS
  <2> HIDE DEF w
  <2>4. w \in Seq(Unit) /\ Len(w) = Size[h + 1]
    BY <1>3, <2>2
  <2> QED BY <2>1, <2>3, <2>4
<1>5. TypeOK'
  <2>1. h + 1 \in 0..Len(Size) /\ abandoned \subseteq 1..(h + 1)
    BY <1>1, <1>2, Sizes, Typed
  <2> QED BY <1>1, <1>2, <1>4, <2>1 DEF TypeOK
<1>6. (delivered \o pending)' = K
  BY <1>2
<1>7. Received((delivered \o pending)', abandoned', handed')
  <2>1. Received(K, abandoned, h + 1)
    <3>1. h + 1 \in Nat /\ h <= h + 1
      BY <1>3
    <3> HIDE DEF K, h
    <3> QED BY <1>1, <1>3, <3>1, ReceivedMonotone
  <2> QED BY <1>2, <1>6, <2>1
<1>8. FailureHasACause'
  BY <1>1, <1>2 DEF FailureHasACause
<1>9. \A k \in DOMAIN K : K[k] \in 1..h
  BY <1>1 DEF Received
<1>10. SendingInv'
  <2>1. Size[h + 1] \in 1..Size[h + 1] /\ DOMAIN (sending') = 1..Size[h + 1]
    BY <1>3, <1>4
  <2>2. sending'[Len(sending')] = LastUnit(h + 1)
    BY <1>4, <2>1 DEF LastUnit
  <2>3. \A i \in DOMAIN (sending') : sending'[i].frame = h + 1
    <3> TAKE i \in DOMAIN (sending')
    <3>1. sending'[i] = [frame |-> h + 1, at |-> i]
      BY <1>4, <2>1
    <3> QED BY <3>1
  <2>4. \A k \in DOMAIN K : K[k] < h + 1
    <3> HIDE DEF K
    <3> QED BY <1>3, <1>9
  <2>5. h + 1 \notin abandoned
    BY <1>1, <1>3, Typed
  <2> HIDE DEF K, h
  <2> QED BY <1>2, <1>6, <2>2, <2>3, <2>4, <2>5 DEF SendingInv
<1>11. StreamInv'
  <2> SUFFICES ASSUME receiver, ~ failed
               PROVE  /\ Orderly(K, abandoned, h + 1, Stream', 0)
                      /\ Begun(buffer, abandoned)
                      /\ \A g \in 1..(h + 1) : Accounted(g, K, abandoned, Stream', 0)
    BY <1>2, <1>6 DEF StreamInv
  <2>1. /\ Orderly(K, abandoned, h, Stream, 0) /\ Begun(buffer, abandoned)
        /\ \A g \in 1..h : Accounted(g, K, abandoned, Stream, 0)
    BY <1>1, <1>2 DEF StreamInv
  <2> DEFINE s == Stream
             t == Stream'
  <2>2. /\ Len(s) = Len(buffer) + Len(wire) /\ Len(buffer) \in Nat /\ Len(wire) \in Nat
        /\ \A i \in 1..Len(buffer) : s[i] = buffer[i]
        /\ \A i \in 1..Len(wire) : s[Len(buffer) + i] = wire[i]
    BY <1>1, <1>2, Typed
  <2>3. /\ Len(t) = Len(buffer) + Len(wire) + Size[h + 1]
        /\ \A i \in 1..Len(buffer) : t[i] = buffer[i]
        /\ \A i \in 1..Len(wire) : t[Len(buffer) + i] = wire[i]
        /\ \A i \in 1..Size[h + 1] : t[Len(buffer) + Len(wire) + i] = sending'[i]
    <3>1. wire \in Seq(Unit) /\ buffer \in Seq(Unit)
      BY <1>1, Typed
    <3>2. t = buffer \o wire \o sending'
      BY <1>2 DEF Stream
    <3> DEFINE w == sending'
    <3>3. w \in Seq(Unit) /\ Len(w) = Size[h + 1]
      BY <1>4
    <3> HIDE DEF t, w
    <3>4. /\ Len(t) = Len(buffer) + Len(wire) + Len(w)
          /\ \A i \in 1..Len(buffer) : t[i] = buffer[i]
          /\ \A i \in 1..Len(wire) : t[Len(buffer) + i] = wire[i]
          /\ \A i \in 1..Len(w) : t[Len(buffer) + Len(wire) + i] = w[i]
      <4>1. t = buffer \o wire \o w
        BY <3>2 DEF w
      <4> QED BY <3>1, <3>3, <4>1, Joined
    <3> QED BY <3>3, <3>4 DEF w
  <2>4. \A i \in 1..Len(s) : t[i] = s[i]
    <3> TAKE i \in 1..Len(s)
    <3>1. CASE i <= Len(buffer)
      <4> HIDE DEF s, t
      <4> QED BY <2>2, <2>3, <3>1
    <3>2. CASE ~ i <= Len(buffer)
      <4>1. i - Len(buffer) \in 1..Len(wire) /\ Len(buffer) + (i - Len(buffer)) = i
        BY <2>2, <3>2
      <4> DEFINE k == i - Len(buffer)
      <4>2. k \in 1..Len(wire) /\ Len(buffer) + k = i
        BY <4>1
      <4> HIDE DEF s, t, k
      <4>3. s[Len(buffer) + k] = wire[k]
        BY <2>2, <4>2
      <4>4. t[Len(buffer) + k] = wire[k]
        BY <2>3, <4>2
      <4> QED BY <4>2, <4>3, <4>4
    <3> QED BY <3>1, <3>2
  <2>5. \A i \in 1..Size[h + 1] : t[Len(s) + i] = [frame |-> h + 1, at |-> i]
    <3> HIDE DEF s, t
    <3> QED BY <1>4, <2>2, <2>3
  <2>6. Len(t) = Len(s) + Size[h + 1] /\ Len(s) \in Nat
    <3> HIDE DEF s, t
    <3> QED BY <2>2, <2>3
  <2>7. abandoned \in SUBSET (1..h)
    BY <1>1, Typed
  <2> HIDE DEF s, t, K, h
  <2>8. /\ Orderly(K, abandoned, h + 1, t, 0)
        /\ \A g \in 1..(h + 1) : Accounted(g, K, abandoned, t, 0)
    <3>1. Orderly(K, abandoned, h, s, 0) /\ \A g \in 1..h : Accounted(g, K, abandoned, s, 0)
      BY <2>1 DEF s
    <3> QED BY <1>2, <1>3, <1>9, <2>4, <2>5, <2>6, <2>7, <3>1, FrameKeepsOrder
  <2> QED BY <2>1, <2>8 DEF t
<1> QED BY <1>5, <1>7, <1>8, <1>10, <1>11 DEF IInv

\* The kernel takes units: the stream is as it was.
LEMMA SendKeeps == IInv /\ Send => IInv'
<1> SUFFICES ASSUME IInv, Send PROVE IInv'
  OBVIOUS
<1> DEFINE K == delivered \o pending
<1>1. TypeOK /\ Received(K, abandoned, handed) /\ FailureHasACause /\ SendingInv /\ StreamInv
  BY DEF IInv
<1>2. /\ sender /\ sending # << >> /\ handed' = handed
      /\ abandoned' = abandoned /\ sender' = sender
      /\ receiver' = receiver /\ buffer' = buffer /\ failed' = failed
      /\ pending' = pending /\ delivered' = delivered
  BY DEF Send, receiveVars
<1>3. PICK n \in 1..Len(sending) :
        /\ Len(wire) + n <= Capacity
        /\ wire' = wire \o SubSeq(sending, 1, n)
        /\ sending' = SubSeq(sending, n + 1, Len(sending))
  BY DEF Send
<1>4. sending \in Seq(Unit) /\ wire \in Seq(Unit) /\ buffer \in Seq(Unit)
  BY <1>1, Typed
<1> DEFINE a == SubSeq(sending, 1, n)
           b == SubSeq(sending, n + 1, Len(sending))
<1>5. /\ a \in Seq(Unit) /\ Len(a) = n /\ \A i \in 1..n : a[i] = sending[i]
      /\ b \in Seq(Unit) /\ Len(b) = Len(sending) - n
      /\ \A i \in 1..(Len(sending) - n) : b[i] = sending[n + i]
      /\ Len(sending) \in Nat
  <2>1. n \in 0..Len(sending)
    OBVIOUS
  <2> HIDE DEF a, b
  <2> QED BY <1>4, <2>1, CutInTwo DEF a, b
<1> DEFINE w == wire'
           r == sending'
           s == Stream
           t == Stream'
<1>6. /\ w \in Seq(Unit) /\ Len(w) = Len(wire) + n /\ Len(wire) \in Nat
      /\ \A i \in 1..Len(wire) : w[i] = wire[i]
      /\ \A i \in 1..n : w[Len(wire) + i] = sending[i]
  <2> DEFINE x == a
  <2>1. x \in Seq(Unit) /\ Len(x) = n /\ \A i \in 1..n : x[i] = sending[i]
    BY <1>5
  <2>2. w = wire \o x
    BY <1>3
  <2> HIDE DEF x, w
  <2>3. /\ wire \o x \in Seq(Unit) /\ Len(wire \o x) = Len(wire) + Len(x)
        /\ \A i \in 1..(Len(wire) + Len(x)) :
              (wire \o x)[i] = IF i <= Len(wire) THEN wire[i] ELSE x[i - Len(wire)]
    BY <1>4, <2>1, ConcatProperties
  <2>4. Len(wire) \in Nat
    BY <1>4
  <2> QED BY <2>1, <2>2, <2>3, <2>4
<1>7. TypeOK'
  <2>1. wire' \in Seq(Unit) /\ Len(wire') <= Capacity /\ sending' \in Seq(Unit)
    BY <1>3, <1>5, <1>6
  <2> QED BY <1>1, <1>2, <2>1 DEF TypeOK
<1>8. t = s
  <2>1. /\ s \in Seq(Unit)
        /\ Len(s) = Len(buffer) + Len(wire) + Len(sending) /\ Len(buffer) \in Nat
        /\ \A i \in 1..Len(buffer) : s[i] = buffer[i]
        /\ \A i \in 1..Len(wire) : s[Len(buffer) + i] = wire[i]
        /\ \A i \in 1..Len(sending) : s[Len(buffer) + Len(wire) + i] = sending[i]
    BY <1>1, <1>4, Typed
  <2>2. /\ t \in Seq(Unit)
        /\ Len(t) = Len(buffer) + Len(w) + Len(r)
        /\ \A i \in 1..Len(buffer) : t[i] = buffer[i]
        /\ \A i \in 1..Len(w) : t[Len(buffer) + i] = w[i]
        /\ \A i \in 1..Len(r) : t[Len(buffer) + Len(w) + i] = r[i]
    <3>1. t = buffer \o w \o r
      BY <1>2 DEF Stream
    <3>2. r \in Seq(Unit) /\ w \in Seq(Unit) /\ buffer \in Seq(Unit)
      BY <1>3, <1>4, <1>5, <1>6
    <3> HIDE DEF t, w, r
    <3> QED BY <3>1, <3>2, Joined
  <2>3. /\ Len(r) = Len(sending) - n /\ \A i \in 1..(Len(sending) - n) : r[i] = sending[n + i]
    BY <1>3, <1>5
  <2>4. n \in Nat /\ n <= Len(sending) /\ Len(sending) \in Nat
    BY <1>4
  <2> DEFINE lb == Len(buffer)
             lw == Len(wire)
             ls == Len(sending)
  <2> HIDE DEF s, t, w, r, lb, lw, ls
  <2>5. lb \in Nat /\ lw \in Nat /\ ls \in Nat /\ n \in Nat /\ n <= ls
    BY <1>6, <2>1, <2>4 DEF lb, lw, ls
  <2>6. /\ Len(s) = lb + lw + ls
        /\ \A i \in 1..lb : s[i] = buffer[i]
        /\ \A i \in 1..lw : s[lb + i] = wire[i]
        /\ \A i \in 1..ls : s[lb + lw + i] = sending[i]
    BY <2>1 DEF lb, lw, ls
  <2>7. /\ Len(w) = lw + n
        /\ \A i \in 1..lw : w[i] = wire[i]
        /\ \A i \in 1..n : w[lw + i] = sending[i]
    BY <1>6 DEF lw
  <2>8. /\ Len(t) = lb + Len(w) + (ls - n)
        /\ \A i \in 1..lb : t[i] = buffer[i]
        /\ \A i \in 1..Len(w) : t[lb + i] = w[i]
        /\ \A i \in 1..(ls - n) : t[lb + Len(w) + i] = sending[n + i]
    BY <2>2, <2>3 DEF lb, ls
  <2>9. Len(t) = Len(s)
    BY <2>5, <2>6, <2>7, <2>8
  <2>10. \A i \in 1..Len(s) : t[i] = s[i]
    <3> TAKE i \in 1..Len(s)
    <3>1. CASE i <= lb
      BY <2>5, <2>6, <2>8, <3>1
    <3>2. CASE ~ i <= lb /\ i <= lb + lw
      <4>1. /\ i - lb \in 1..lw /\ i - lb \in 1..(lw + n) /\ lb + (i - lb) = i
        BY <2>5, <2>6, <3>2
      <4> QED BY <2>6, <2>7, <2>8, <4>1
    <3>3. CASE ~ i <= lb + lw /\ i <= lb + lw + n
      <4> DEFINE k == i - (lb + lw)
      <4>1. /\ k \in 1..n /\ k \in 1..ls /\ lw + k \in 1..(lw + n) /\ lb + (lw + k) = i
            /\ lb + lw + k = i
        BY <2>5, <2>6, <3>3
      <4> HIDE DEF k
      <4>2. t[i] = w[lw + k] /\ s[i] = sending[k]
        BY <2>6, <2>7, <2>8, <4>1
      <4> QED BY <2>7, <4>1, <4>2
    <3>4. CASE ~ i <= lb + lw + n
      <4> DEFINE k == i - (lb + lw + n)
      <4>1. /\ k \in 1..(ls - n) /\ n + k \in 1..ls /\ lb + (lw + n) + k = i
            /\ lb + lw + (n + k) = i
        BY <2>5, <2>6, <3>4
      <4> HIDE DEF k
      <4> QED BY <2>6, <2>7, <2>8, <4>1
    <3>5. i \in Nat
      OBVIOUS
    <3> QED BY <2>5, <3>1, <3>2, <3>3, <3>4, <3>5
  <2> QED BY <2>1, <2>2, <2>9, <2>10, SeqEqual
<1>9. (delivered \o pending)' = K
  BY <1>2
<1>10. SendingInv'
  <2> SUFFICES ASSUME sending' # << >>
               PROVE  /\ \A i \in DOMAIN (sending') : sending'[i].frame = handed
                      /\ sending'[Len(sending')] = LastUnit(handed)
    BY <1>1, <1>2, <1>9 DEF SendingInv
  <2>1. /\ \A i \in 1..Len(sending) : sending[i].frame = handed
        /\ sending[Len(sending)] = LastUnit(handed)
    BY <1>1, <1>2, <1>4 DEF SendingInv
  <2>2. /\ sending' \in Seq(Unit) /\ Len(sending') = Len(sending) - n
        /\ \A i \in 1..Len(sending') : sending'[i] = sending[n + i]
    <3> HIDE DEF b
    <3> QED BY <1>3, <1>5 DEF b
  <2>3. Len(sending') \in Nat \ {0} /\ DOMAIN (sending') = 1..Len(sending')
    BY <2>2, EmptySeq
  <2>4. n + Len(sending') = Len(sending) /\ Len(sending') \in 1..Len(sending')
    <3> DEFINE x == Len(sending')
    <3>1. x = Len(sending) - n /\ x \in Nat \ {0}
      BY <2>2, <2>3
    <3> HIDE DEF x
    <3>2. n + x = Len(sending) /\ x \in 1..x
      <4>1. n \in Nat /\ Len(sending) \in Nat
        BY <1>4
      <4> QED BY <3>1, <4>1
    <3> QED BY <3>2 DEF x
  <2>5. \A i \in 1..Len(sending') : n + i \in 1..Len(sending)
    BY <1>5, <2>2
  <2> QED BY <2>1, <2>2, <2>3, <2>4, <2>5
<1>11. StreamInv'
  BY <1>1, <1>2, <1>8, <1>9 DEF StreamInv
<1>12. FailureHasACause' /\ Received((delivered \o pending)', abandoned', handed')
  BY <1>1, <1>2, <1>9 DEF FailureHasACause
<1> QED BY <1>7, <1>10, <1>11, <1>12 DEF IInv

\* The deadline: what was sent stays sent, and the frame lacks its last unit.
LEMMA SendExpiresKeeps == IInv /\ SendExpires => IInv'
<1> SUFFICES ASSUME IInv, SendExpires PROVE IInv'
  OBVIOUS
<1> DEFINE K == delivered \o pending
           more == abandoned \cup {handed}
           s == Stream
           t == Stream'
<1>1. TypeOK /\ Received(K, abandoned, handed) /\ FailureHasACause /\ SendingInv /\ StreamInv
  BY DEF IInv
<1>2. /\ sender /\ receiver /\ sending # << >> /\ sending' = << >> /\ handed' = handed
      /\ abandoned' = more /\ sender' = sender /\ wire' = wire
      /\ receiver' = receiver /\ buffer' = buffer /\ failed' = failed
      /\ pending' = pending /\ delivered' = delivered
  BY DEF SendExpires, receiveVars
<1>3. /\ handed \in Frame /\ handed \in Nat /\ handed \in 0..Len(Size)
      /\ \A i \in 1..Len(sending) : sending[i].frame = handed
      /\ sending[Len(sending)] = LastUnit(handed)
      /\ \A k \in DOMAIN K : K[k] < handed
      /\ Len(sending) \in Nat \ {0}
  <2>1. sending \in Seq(Unit)
    BY <1>1, Typed
  <2>2. DOMAIN sending = 1..Len(sending) /\ Len(sending) \in Nat \ {0}
    BY <1>2, <2>1, EmptySeq
  <2> HIDE DEF K
  <2> QED BY <1>1, <1>2, <2>2, Typed DEF SendingInv, K
<1>4. 1 \in 1..handed /\ handed \in 1..handed
  BY <1>3, Sizes
<1>5. TypeOK'
  <2>1. << >> \in Seq(Unit) /\ more \subseteq 1..handed
    BY <1>1, <1>4, Typed
  <2> QED BY <1>1, <1>2, <2>1 DEF TypeOK
<1>6. (delivered \o pending)' = K
  BY <1>2
<1>7. Received((delivered \o pending)', abandoned', handed')
  <2>1. \A i \in DOMAIN K : K[i] \notin more \ abandoned
    <3>1. \A i \in DOMAIN K : K[i] < handed
      BY <1>3
    <3> HIDE DEF K
    <3> QED BY <1>3, <3>1
  <2>2. abandoned \subseteq more /\ handed <= handed
    BY <1>3
  <2> HIDE DEF K, more
  <2>3. Received(K, more, handed)
    BY <1>1, <1>3, <2>1, <2>2, ReceivedMonotone
  <2> QED BY <1>2, <1>6, <2>3
<1>8. FailureHasACause' /\ SendingInv'
  BY <1>2 DEF FailureHasACause, SendingInv
<1>9. /\ s \in Seq(Unit) /\ Len(s) = Len(t) + Len(sending) /\ Len(t) \in Nat /\ Len(s) \in Nat
      /\ \A i \in 1..Len(t) : t[i] = s[i]
      /\ \A i \in 1..Len(sending) : s[Len(t) + i] = sending[i]
  <2>1. /\ s \in Seq(Unit) /\ Len(s) = Len(buffer) + Len(wire) + Len(sending)
        /\ Len(buffer) \in Nat /\ Len(wire) \in Nat
        /\ \A i \in 1..Len(buffer) : s[i] = buffer[i]
        /\ \A i \in 1..Len(wire) : s[Len(buffer) + i] = wire[i]
        /\ \A i \in 1..Len(sending) : s[Len(buffer) + Len(wire) + i] = sending[i]
    BY <1>1, Typed
  <2>2. /\ Len(t) = Len(buffer) + Len(wire) + 0
        /\ \A i \in 1..Len(buffer) : t[i] = buffer[i]
        /\ \A i \in 1..Len(wire) : t[Len(buffer) + i] = wire[i]
    <3>1. buffer \in Seq(Unit) /\ wire \in Seq(Unit) /\ << >> \in Seq(Unit)
      BY <1>1, Typed
    <3>2. t = buffer \o wire \o << >>
      BY <1>2 DEF Stream
    <3>3. Len(<< >>) = 0
      OBVIOUS
    <3> HIDE DEF t
    <3> QED BY <3>1, <3>2, <3>3, Joined
  <2> DEFINE lb == Len(buffer)
             lw == Len(wire)
             ls == Len(sending)
  <2> HIDE DEF s, t, lb, lw, ls
  <2>3. /\ Len(s) = lb + lw + ls /\ Len(t) = lb + lw
        /\ lb \in Nat /\ lw \in Nat /\ ls \in Nat
        /\ \A i \in 1..lb : s[i] = buffer[i] /\ t[i] = buffer[i]
        /\ \A i \in 1..lw : s[lb + i] = wire[i] /\ t[lb + i] = wire[i]
        /\ \A i \in 1..ls : s[lb + lw + i] = sending[i]
    BY <1>3, <2>1, <2>2 DEF lb, lw, ls
  <2>4. \A i \in 1..Len(t) : t[i] = s[i]
    <3> TAKE i \in 1..Len(t)
    <3>1. CASE i <= lb
      BY <2>3, <3>1
    <3>2. CASE ~ i <= lb
      <4>1. i - lb \in 1..lw /\ lb + (i - lb) = i
        BY <2>3, <3>2
      <4> QED BY <2>3, <4>1
    <3> QED BY <3>1, <3>2
  <2>5. \A i \in 1..ls : s[Len(t) + i] = sending[i]
    BY <2>3
  <2>6. Len(s) = Len(t) + ls /\ Len(t) \in Nat /\ Len(s) \in Nat
    BY <2>3
  <2> QED BY <2>1, <2>4, <2>5, <2>6 DEF ls
<1>10. StreamInv'
  <2> SUFFICES ASSUME ~ failed
               PROVE  /\ Orderly(K, more, handed, t, 0)
                      /\ Begun(buffer, more)
                      /\ \A g \in 1..handed : Accounted(g, K, more, t, 0)
    BY <1>2, <1>6 DEF StreamInv
  <2>1. /\ Orderly(K, abandoned, handed, s, 0)
        /\ \A g \in 1..handed : Accounted(g, K, abandoned, s, 0)
    BY <1>1, <1>2 DEF StreamInv
  <2>2. Begun(buffer, more)
    BY DEF Begun
  <2>3. \A f \in more \ abandoned : \E j \in 1..Len(s) : j > Len(t) /\ s[j] = LastUnit(f)
    <3> SUFFICES \E j \in 1..Len(s) : j > Len(t) /\ s[j] = LastUnit(handed)
      OBVIOUS
    <3> HIDE DEF s, t
    <3>1. /\ Len(t) + Len(sending) \in 1..Len(s) /\ Len(t) + Len(sending) > Len(t)
          /\ Len(sending) \in 1..Len(sending)
      BY <1>3, <1>9
    <3>2. s[Len(t) + Len(sending)] = LastUnit(handed)
      BY <1>3, <1>9, <3>1
    <3> QED BY <3>1, <3>2
  <2>4. Orderly(K, more, handed, t, 0)
    <3>1. abandoned \subseteq more /\ Len(t) <= Len(s)
      <4> HIDE DEF s, t
      <4> QED BY <1>3, <1>9
    <3> HIDE DEF K, more, s, t
    <3>2. Len(t) \in Nat /\ Len(s) \in Nat /\ \A i \in 1..Len(t) : t[i] = s[i]
      BY <1>9
    <3>3. handed \in 0..Len(Size) /\ Orderly(K, abandoned, handed, s, 0)
      BY <1>3, <2>1
    <3> QED BY <2>3, <3>1, <3>2, <3>3, PrefixKeepsOrder
  <2>5. \A g \in 1..handed : Accounted(g, K, more, t, 0)
    <3> TAKE g \in 1..handed
    <3>1. CASE g = handed
      BY <3>1 DEF Accounted
    <3>2. CASE g # handed
      <4>1. Accounted(g, K, abandoned, s, 0)
        BY <2>1
      <4>2. ASSUME NEW j \in (0 + 1)..Len(s), s[j] = LastUnit(g)
            PROVE  Accounted(g, K, more, t, 0)
        <5> HIDE DEF s, t, K, more
        <5>1. j <= Len(t)
          <6> SUFFICES ASSUME ~ j <= Len(t) PROVE FALSE
            OBVIOUS
          <6>1. j - Len(t) \in 1..Len(sending) /\ Len(t) + (j - Len(t)) = j
            BY <1>3, <1>9
          <6>2. s[j].frame = handed
            BY <1>3, <1>9, <6>1
          <6>3. s[j].frame = g
            BY <4>2 DEF LastUnit
          <6> QED BY <3>2, <6>2, <6>3
        <5>2. j \in (0 + 1)..Len(t) /\ j \in 1..Len(t)
          BY <1>9, <5>1
        <5>3. t[j] = LastUnit(g)
          BY <1>9, <4>2, <5>2
        <5> QED BY <5>2, <5>3 DEF Accounted
      <4> QED BY <4>1, <4>2 DEF Accounted
    <3> QED BY <3>1, <3>2
  <2> QED BY <2>2, <2>4, <2>5
<1> QED BY <1>5, <1>7, <1>8, <1>10 DEF IInv

\* The other side is gone, and with it what the stream was for.
LEMMA SendFailsKeeps == IInv /\ SendFails => IInv'
<1> SUFFICES ASSUME IInv, SendFails PROVE IInv'
  OBVIOUS
<1>1. << >> \in Seq(Unit)
  OBVIOUS
<1>2. TypeOK'
  BY <1>1 DEF IInv, SendFails, receiveVars, TypeOK
<1>3. Received(delivered \o pending, abandoned, handed)'
  BY DEF IInv, SendFails, receiveVars
<1>4. (FailureHasACause /\ SendingInv /\ StreamInv)'
  BY DEF IInv, SendFails, receiveVars, FailureHasACause, SendingInv, StreamInv
<1> QED BY <1>2, <1>3, <1>4 DEF IInv

\* The stream is cut short for good.
LEMMA CloseSenderKeeps == IInv /\ CloseSender => IInv'
<1> SUFFICES ASSUME IInv, CloseSender PROVE IInv'
  OBVIOUS
<1> DEFINE K == delivered \o pending
           s == Stream
           t == Stream'
<1>1. TypeOK /\ Received(K, abandoned, handed) /\ FailureHasACause /\ SendingInv /\ StreamInv
  BY DEF IInv
<1>2. /\ ~ sender' /\ sender' \in BOOLEAN /\ sending' = << >> /\ handed' = handed
      /\ abandoned' = abandoned
      /\ receiver' = receiver /\ buffer' = buffer /\ failed' = failed
      /\ pending' = pending /\ delivered' = delivered
  BY DEF CloseSender, receiveVars
<1>3. PICK n \in 0..Len(wire) : wire' = SubSeq(wire, 1, n)
  BY DEF CloseSender
<1> DEFINE w == wire'
<1>4. /\ w \in Seq(Unit) /\ Len(w) = n /\ \A i \in 1..n : w[i] = wire[i]
      /\ n \in Nat /\ n <= Len(wire) /\ Len(wire) \in Nat
  <2>1. wire \in Seq(Unit)
    BY <1>1, Typed
  <2>2. /\ SubSeq(wire, 1, n) \in Seq(Unit) /\ Len(SubSeq(wire, 1, n)) = n
        /\ \A i \in 1..n : SubSeq(wire, 1, n)[i] = wire[i]
    BY <2>1, CutInTwo
  <2> QED BY <1>3, <2>1, <2>2
<1>5. TypeOK'
  <2>1. << >> \in Seq(Unit)
    OBVIOUS
  <2>2. Len(wire') <= Capacity
    BY <1>1, <1>4, CapacityAssumption DEF TypeOK
  <2> QED BY <1>1, <1>2, <1>4, <2>1, <2>2 DEF TypeOK
<1>6. (delivered \o pending)' = K
  BY <1>2
<1>7. Received((delivered \o pending)', abandoned', handed') /\ FailureHasACause' /\ SendingInv'
  BY <1>1, <1>2, <1>6 DEF FailureHasACause, SendingInv
<1>8. StreamInv'
  <2> SUFFICES ASSUME receiver, ~ failed
               PROVE  Orderly(K, abandoned, handed, t, 0) /\ Begun(buffer, abandoned)
    BY <1>2, <1>6 DEF StreamInv
  <2>1. Orderly(K, abandoned, handed, s, 0) /\ Begun(buffer, abandoned)
    BY <1>1 DEF StreamInv
  <2>2. /\ s \in Seq(Unit) /\ Len(s) = Len(buffer) + Len(wire) + Len(sending)
        /\ Len(buffer) \in Nat /\ Len(sending) \in Nat
        /\ \A i \in 1..Len(buffer) : s[i] = buffer[i]
        /\ \A i \in 1..Len(wire) : s[Len(buffer) + i] = wire[i]
    BY <1>1, Typed
  <2>3. /\ Len(t) = Len(buffer) + n + 0
        /\ \A i \in 1..Len(buffer) : t[i] = buffer[i]
        /\ \A i \in 1..n : t[Len(buffer) + i] = w[i]
    <3>1. buffer \in Seq(Unit) /\ w \in Seq(Unit) /\ << >> \in Seq(Unit)
      BY <1>1, <1>4, Typed
    <3>2. t = buffer \o w \o << >>
      BY <1>2 DEF Stream
    <3>3. Len(<< >>) = 0 /\ Len(w) = n
      BY <1>4
    <3> DEFINE e == << >>
    <3> HIDE DEF t, w, e
    <3>4. /\ Len(t) = Len(buffer) + Len(w) + Len(e)
          /\ \A i \in 1..Len(buffer) : t[i] = buffer[i]
          /\ \A i \in 1..Len(w) : t[Len(buffer) + i] = w[i]
      <4>1. e \in Seq(Unit) /\ t = buffer \o w \o e
        BY <3>1, <3>2 DEF e
      <4> QED BY <3>1, <4>1, Joined
    <3>5. Len(e) = 0
      BY DEF e
    <3> QED BY <3>3, <3>4, <3>5
  <2> DEFINE lb == Len(buffer)
             lw == Len(wire)
             ls == Len(sending)
  <2> HIDE DEF s, t, w, lb, lw, ls
  <2>4. /\ Len(s) = lb + lw + ls /\ Len(t) = lb + n
        /\ lb \in Nat /\ lw \in Nat /\ ls \in Nat /\ n \in Nat /\ n <= lw
        /\ \A i \in 1..lb : s[i] = buffer[i] /\ t[i] = buffer[i]
        /\ \A i \in 1..n : s[lb + i] = wire[i] /\ t[lb + i] = wire[i]
    BY <1>4, <2>2, <2>3 DEF lb, lw, ls
  <2>5. \A i \in 1..Len(t) : t[i] = s[i]
    <3> TAKE i \in 1..Len(t)
    <3>1. CASE i <= lb
      BY <2>4, <3>1
    <3>2. CASE ~ i <= lb
      <4>1. i - lb \in 1..n /\ lb + (i - lb) = i
        BY <2>4, <3>2
      <4> QED BY <2>4, <4>1
    <3> QED BY <3>1, <3>2
  <2>6. /\ Len(t) <= Len(s) /\ Len(t) \in Nat /\ Len(s) \in Nat
    BY <2>4
  <2>7. handed \in 0..Len(Size)
    BY <1>1, Typed
  <2>8. abandoned \subseteq abandoned /\ abandoned \ abandoned = {}
    OBVIOUS
  <2> HIDE DEF K
  <2>9. Orderly(K, abandoned, handed, t, 0)
    BY <2>1, <2>5, <2>6, <2>7, <2>8, PrefixKeepsOrder
  <2> QED BY <2>1, <2>9
<1> QED BY <1>5, <1>7, <1>8 DEF IInv

\* The first of some frames is returned and the others wait: together they come
\* after what was returned before.
LEMMA Returned ==
    ASSUME NEW old \in Seq(Frame), NEW frames \in Seq(Frame), frames # << >>
    PROVE  /\ Append(old, frames[1]) \in Seq(Frame) /\ Tail(frames) \in Seq(Frame)
           /\ Append(old, frames[1]) \o Tail(frames) = old \o frames
<1> DEFINE K == old \o frames
           J == Append(old, frames[1]) \o Tail(frames)
<1>3. Len(frames) \in Nat \ {0} /\ frames[1] \in Frame
  <2>1. Len(frames) \in Nat \ {0}
    BY EmptySeq
  <2>2. 1 \in 1..Len(frames)
    BY <2>1
  <2> QED BY <2>1, <2>2
<1> DEFINE d == Append(old, frames[1])
           p == Tail(frames)
<1>4. /\ d \in Seq(Frame) /\ Len(d) = Len(old) + 1
      /\ \A i \in 1..Len(old) : d[i] = old[i]
      /\ d[Len(old) + 1] = frames[1]
      /\ Len(old) \in Nat
  BY <1>3
<1>5. /\ p \in Seq(Frame) /\ Len(p) = Len(frames) - 1
      /\ \A i \in 1..(Len(frames) - 1) : p[i] = frames[i + 1]
  BY <1>3, HeadTailProperties
<1>6. J = K
  <2>1. /\ K \in Seq(Frame) /\ Len(K) = Len(old) + Len(frames)
        /\ \A i \in 1..(Len(old) + Len(frames)) :
              K[i] = IF i <= Len(old) THEN old[i] ELSE frames[i - Len(old)]
    BY <1>3, ConcatProperties
  <2>2. /\ J \in Seq(Frame) /\ Len(J) = Len(d) + Len(p)
        /\ \A i \in 1..(Len(d) + Len(p)) :
              J[i] = IF i <= Len(d) THEN d[i] ELSE p[i - Len(d)]
    <3>1. d \in Seq(Frame) /\ p \in Seq(Frame)
      BY <1>4, <1>5
    <3>2. J = d \o p
      OBVIOUS
    <3> HIDE DEF J, d, p
    <3> QED BY <3>1, <3>2, ConcatProperties
  <2> DEFINE m == Len(old)
             n == Len(frames)
  <2> HIDE DEF K, J, d, p, m, n
  <2>3. m \in Nat /\ n \in Nat \ {0} /\ Len(d) = m + 1 /\ Len(p) = n - 1
    BY <1>3, <1>4, <1>5 DEF m, n
  <2>4. Len(J) = m + n /\ Len(K) = m + n
    BY <2>1, <2>2, <2>3 DEF m, n
  <2>5. \A i \in 1..(m + n) : J[i] = K[i]
    <3> TAKE i \in 1..(m + n)
    <3>1. /\ J[i] = IF i <= m + 1 THEN d[i] ELSE p[i - (m + 1)]
          /\ K[i] = IF i <= m THEN old[i] ELSE frames[i - m]
      <4>1. i \in 1..(Len(d) + Len(p)) /\ i \in 1..(Len(old) + Len(frames))
        BY <2>3 DEF m, n
      <4> QED BY <2>1, <2>2, <2>3, <4>1 DEF m
    <3>2. CASE i <= m
      BY <1>4, <2>3, <3>1, <3>2 DEF m
    <3>3. CASE i = m + 1
      <4>1. i - m = 1 /\ ~ i <= m /\ i <= m + 1
        BY <2>3, <3>3
      <4>2. d[i] = frames[1]
        BY <1>4, <3>3 DEF m
      <4> QED BY <3>1, <4>1, <4>2
    <3>4. CASE i > m + 1
      <4>1. /\ i - (m + 1) \in 1..(n - 1) /\ (i - (m + 1)) + 1 = i - m
            /\ ~ i <= m /\ ~ i <= m + 1
        BY <2>3, <3>4
      <4>2. p[i - (m + 1)] = frames[i - m]
        BY <1>5, <4>1 DEF n
      <4> QED BY <3>1, <4>1, <4>2
    <3>5. i \in Nat
      OBVIOUS
    <3> QED BY <2>3, <3>2, <3>3, <3>4, <3>5
  <2> QED BY <2>1, <2>2, <2>4, <2>5, SeqEqual
<1> HIDE DEF d, p, J
<1>7. d \in Seq(Frame) /\ p \in Seq(Frame)
  BY <1>4, <1>5
<1> QED BY <1>6, <1>7 DEF d, p, J

\* A frame moves from those that wait to those that were returned.
LEMMA ReceivePendingKeeps == IInv /\ ReceivePending => IInv'
<1> SUFFICES ASSUME IInv, ReceivePending PROVE IInv'
  OBVIOUS
<1> DEFINE K == delivered \o pending
<1>1. TypeOK /\ Received(K, abandoned, handed) /\ FailureHasACause /\ SendingInv /\ StreamInv
  BY DEF IInv
<1>2. /\ pending # << >>
      /\ delivered' = Append(delivered, pending[1]) /\ pending' = Tail(pending)
      /\ sender' = sender /\ sending' = sending /\ handed' = handed /\ wire' = wire
      /\ abandoned' = abandoned
      /\ receiver' = receiver /\ buffer' = buffer /\ failed' = failed
  BY DEF ReceivePending, Return, sendVars
<1>3. pending \in Seq(Frame) /\ delivered \in Seq(Frame)
  BY <1>1, Typed
<1>4. /\ Append(delivered, pending[1]) \in Seq(Frame) /\ Tail(pending) \in Seq(Frame)
      /\ Append(delivered, pending[1]) \o Tail(pending) = K
  BY <1>2, <1>3, Returned
<1>7. (delivered \o pending)' = K
  BY <1>2, <1>4
<1>8. TypeOK'
  BY <1>1, <1>2, <1>4 DEF TypeOK
<1>9. Stream' = Stream
  BY <1>2 DEF Stream
<1>10. (FailureHasACause /\ SendingInv /\ StreamInv)'
  BY <1>1, <1>2, <1>7, <1>9 DEF FailureHasACause, SendingInv, StreamInv
<1>11. Received((delivered \o pending)', abandoned', handed')
  BY <1>1, <1>2, <1>7
<1> QED BY <1>8, <1>10, <1>11 DEF IInv

\* Before a read the decoder holds its buffer, and nothing else is decoded.
LEMMA ReadBegins ==
    ASSUME IInv, receiver, ~ failed, pending = << >>
    PROVE  /\ delivered \o pending = delivered
           /\ ReadsOn(Undecoded, delivered, abandoned, handed, Stream, Len(buffer))
<1> DEFINE K == delivered \o pending
           n == Len(buffer)
<1>1. TypeOK /\ Received(K, abandoned, handed) /\ StreamInv
  BY DEF IInv
<1>2. /\ delivered \in Seq(Frame) /\ buffer \in Seq(Unit) /\ n \in Nat /\ n < Ceiling
      /\ \A i \in 1..n : Stream[i] = buffer[i]
  <2>1. delivered \in Seq(Frame) /\ buffer \in Seq(Unit) /\ \A i \in 1..n : Stream[i] = buffer[i]
    BY <1>1, Typed
  <2> QED BY <1>1, <2>1 DEF TypeOK
<1>3. K = delivered
  BY <1>2, ConcatEmptySeq
<1>4. /\ Undecoded \in Decoding /\ Undecoded.rest = buffer /\ Undecoded.frames = << >>
      /\ ~ Undecoded.bad
  <2>1. << >> \in Seq(Frame)
    OBVIOUS
  <2> QED BY <1>2, <2>1 DEF Undecoded, Decoding
<1>5. delivered \o Undecoded.frames = delivered
  BY <1>2, <1>4, ConcatEmptySeq
<1>6. Orderly(delivered, abandoned, handed, Stream, 0) /\ Begun(buffer, abandoned)
      /\ Received(delivered, abandoned, handed)
  BY <1>1, <1>3 DEF StreamInv
<1>7. Reading(Undecoded, delivered, abandoned, handed, Stream, n, 0)
  <2>1. n - 0 = n /\ \A i \in 1..n : 0 + i = i
    BY <1>2
  <2> HIDE DEF n
  <2>2. \A i \in 1..(n - 0) : Undecoded.rest[i] = Stream[0 + i]
    BY <1>2, <1>4, <2>1
  <2>3. Len(Undecoded.rest) = n - 0
    BY <1>4, <2>1 DEF n
  <2> QED BY <1>4, <1>5, <1>6, <2>2, <2>3 DEF Reading
<1>8. 0 \in 0..n
  BY <1>2
<1>9. Len(Undecoded.rest) < Ceiling
  BY <1>2, <1>4
<1> HIDE DEF n
<1>10. ReadsOn(Undecoded, delivered, abandoned, handed, Stream, n)
  BY <1>4, <1>7, <1>8, <1>9 DEF ReadsOn
<1> QED BY <1>3, <1>10 DEF n

\* The invariant survives a drain of the decoder.
LEMMA ReceiveKeeps == IInv /\ Receive => IInv'
<1> SUFFICES ASSUME IInv, Receive PROVE IInv'
  OBVIOUS
<1>1. TypeOK /\ Received(delivered \o pending, abandoned, handed) /\ FailureHasACause
      /\ SendingInv /\ StreamInv
  BY DEF IInv
<1>2. /\ receiver /\ ~ failed /\ pending = << >> /\ receiver' = receiver
      /\ sender' = sender /\ sending' = sending /\ handed' = handed
      /\ abandoned' = abandoned
  BY DEF Receive, sendVars
<1>3. PICK n \in 1..Len(wire), mixed \in Mixed :
        LET outcome == Drained(SubSeq(wire, 1, n), mixed)
        IN  /\ wire' = SubSeq(wire, n + 1, Len(wire))
            /\ buffer' = outcome.rest
            /\ failed' = outcome.bad
            /\ IF outcome.bad \/ outcome.frames = << >>
               THEN UNCHANGED <<pending, delivered>>
               ELSE Return(outcome.frames)
  BY DEF Receive
<1> DEFINE units == SubSeq(wire, 1, n)
           outcome == Drained(units, mixed)
           b == Len(buffer)
           ls == Len(sending)
           s == Stream
           t == Stream'
           w == wire'
           K == delivered \o outcome.frames
<1>4. /\ delivered \o pending = delivered
      /\ ReadsOn(Undecoded, delivered, abandoned, handed, s, b)
  BY <1>2, ReadBegins
<1>5. /\ handed \in 0..Len(Size) /\ handed \in Nat /\ abandoned \in SUBSET (1..handed)
      /\ sending \in Seq(Unit) /\ wire \in Seq(Unit) /\ buffer \in Seq(Unit)
      /\ delivered \in Seq(Frame) /\ s \in Seq(Unit)
      /\ Len(s) = b + Len(wire) + ls
      /\ \A i \in 1..Len(wire) : s[b + i] = wire[i]
      /\ \A i \in 1..ls : s[b + Len(wire) + i] = sending[i]
  BY <1>1, Typed
<1>6. Len(wire) \in Nat /\ b \in Nat /\ ls \in Nat /\ n \in Nat /\ n <= Len(wire)
      /\ n \in 0..Len(wire)
  BY <1>5
<1>7. /\ units \in Seq(Unit) /\ Len(units) = n /\ \A i \in 1..n : units[i] = wire[i]
      /\ w \in Seq(Unit) /\ Len(w) = Len(wire) - n
      /\ \A i \in 1..(Len(wire) - n) : w[i] = wire[n + i]
  BY <1>3, <1>5, <1>6, CutInTwo
<1>8. ReadsOn(outcome, delivered, abandoned, handed, s, b + n)
  <2>1. \A i \in 1..n : s[b + i] = units[i]
    <3> TAKE i \in 1..n
    <3>1. i \in 1..Len(wire)
      BY <1>6
    <3>2. s[b + i] = wire[i]
      BY <1>5, <3>1
    <3>3. units[i] = wire[i]
      BY <1>7
    <3> QED BY <3>2, <3>3
  <2>2. b + n <= Len(s)
    <3> HIDE DEF s, b, ls
    <3> QED BY <1>5, <1>6
  <2> HIDE DEF s, units, b
  <2>3. ReadsOn(Drained(units, mixed), delivered, abandoned, handed, s, b + Len(units))
    BY <1>4, <1>5, <1>6, <1>7, <2>1, <2>2, DrainReads
  <2> QED BY <1>7, <2>3
<1>9. /\ outcome \in Decoding /\ Len(outcome.rest) < Ceiling
      /\ outcome.bad => abandoned # {}
      /\ ~ outcome.bad => \E c \in 0..(b + n) :
            Reading(outcome, delivered, abandoned, handed, s, b + n, c)
  <2> HIDE DEF outcome, s, b
  <2> QED BY <1>8 DEF ReadsOn
<1>10. outcome.frames \in Seq(Frame) /\ outcome.rest \in Seq(Unit) /\ outcome.bad \in BOOLEAN
  <2> HIDE DEF outcome
  <2> QED BY <1>9 DEF Decoding
\* What is known afterwards.
<1>11. /\ delivered' \in Seq(Frame) /\ pending' \in Seq(Frame)
       /\ outcome.bad => (delivered \o pending)' = delivered
       /\ ~ outcome.bad => (delivered \o pending)' = K
  <2>1. CASE outcome.bad
    BY <1>1, <1>2, <1>3, <1>4, <1>5, <2>1 DEF TypeOK
  <2>2. CASE ~ outcome.bad /\ outcome.frames = << >>
    <3>1. delivered' = delivered /\ pending' = << >>
      BY <1>2, <1>3, <2>2
    <3> HIDE DEF outcome
    <3>2. K = (delivered \o pending)'
      BY <2>2, <3>1
    <3>3. << >> \in Seq(Frame)
      OBVIOUS
    <3> QED BY <1>5, <2>2, <3>1, <3>2, <3>3
  <2>3. CASE ~ outcome.bad /\ outcome.frames # << >>
    <3>1. delivered' = Append(delivered, outcome.frames[1]) /\ pending' = Tail(outcome.frames)
      BY <1>3, <2>3 DEF Return
    <3> DEFINE f == outcome.frames
    <3>2. f \in Seq(Frame) /\ f # << >>
      BY <1>10, <2>3
    <3>3. delivered' = Append(delivered, f[1]) /\ pending' = Tail(f)
      BY <3>1
    <3> HIDE DEF f, outcome
    <3>4. /\ Append(delivered, f[1]) \in Seq(Frame) /\ Tail(f) \in Seq(Frame)
          /\ Append(delivered, f[1]) \o Tail(f) = delivered \o f
      BY <1>5, <3>2, Returned
    <3>5. K = delivered \o f
      BY DEF f
    <3> HIDE DEF K
    <3> QED BY <2>3, <3>3, <3>4, <3>5
  <2> QED BY <2>1, <2>2, <2>3
<1>12. buffer' = outcome.rest /\ failed' = outcome.bad
  BY <1>3
<1>13. TypeOK'
  <2>1. Len(wire') <= Capacity
    BY <1>1, <1>6, <1>7, CapacityAssumption DEF TypeOK
  <2> HIDE DEF outcome
  <2> QED BY <1>1, <1>2, <1>7, <1>9, <1>10, <1>11, <1>12, <2>1 DEF TypeOK
<1>14. FailureHasACause'
  <2> HIDE DEF outcome
  <2> QED BY <1>2, <1>9, <1>12 DEF FailureHasACause
<1>15. CASE outcome.bad
  <2>1. (delivered \o pending)' = delivered \o pending
    <3> HIDE DEF outcome
    <3> QED BY <1>4, <1>11, <1>15
  <2>2. Received((delivered \o pending)', abandoned', handed')
    BY <1>1, <1>2, <2>1
  <2>3. SendingInv'
    BY <1>1, <1>2, <2>1 DEF SendingInv
  <2>4. StreamInv'
    <3> HIDE DEF outcome
    <3> QED BY <1>12, <1>15 DEF StreamInv
  <2> QED BY <1>13, <1>14, <2>2, <2>3, <2>4 DEF IInv
<1>16. CASE ~ outcome.bad
  <2>1. PICK c \in 0..(b + n) : Reading(outcome, delivered, abandoned, handed, s, b + n, c)
    <3> HIDE DEF outcome, s, b
    <3> QED BY <1>9, <1>16
  <2>2. /\ Len(outcome.rest) = (b + n) - c
        /\ \A i \in 1..((b + n) - c) : outcome.rest[i] = s[c + i]
        /\ Received(K, abandoned, handed)
        /\ Orderly(K, abandoned, handed, s, c)
        /\ Begun(outcome.rest, abandoned)
        /\ \A g \in 1..handed : Accounted(g, delivered, abandoned, s, 0)
                                => Accounted(g, K, abandoned, s, c)
    <3> HIDE DEF outcome, s, b
    <3> QED BY <2>1, Zenon DEF Reading
  <2>3. (delivered \o pending)' = K
    <3> HIDE DEF outcome
    <3> QED BY <1>11, <1>16
  <2>4. /\ Len(t) = Len(outcome.rest) + Len(w) + ls
        /\ \A i \in 1..Len(outcome.rest) : t[i] = outcome.rest[i]
        /\ \A i \in 1..Len(w) : t[Len(outcome.rest) + i] = w[i]
        /\ \A i \in 1..ls : t[Len(outcome.rest) + Len(w) + i] = sending[i]
    <3> DEFINE r == outcome.rest
    <3>1. t = r \o w \o sending
      BY <1>2, <1>12 DEF Stream
    <3>2. r \in Seq(Unit) /\ w \in Seq(Unit) /\ sending \in Seq(Unit)
      BY <1>5, <1>7, <1>10
    <3> HIDE DEF t, r, w
    <3>3. /\ Len(t) = Len(r) + Len(w) + Len(sending)
          /\ \A i \in 1..Len(r) : t[i] = r[i]
          /\ \A i \in 1..Len(w) : t[Len(r) + i] = w[i]
          /\ \A i \in 1..Len(sending) : t[Len(r) + Len(w) + i] = sending[i]
      BY <3>1, <3>2, Joined
    <3> QED BY <3>3 DEF r
  <2> DEFINE lw == Len(wire)
             m == (b + n) - c
             r == outcome.rest
  <2>5. /\ c \in Nat /\ m \in Nat /\ m + c = b + n /\ lw \in Nat /\ n <= lw
        /\ Len(s) = b + lw + ls
    <3> HIDE DEF b, s, ls
    <3> QED BY <1>5, <1>6
\* The stream goes on where the decoder is.
  <2>6. Len(t) = Len(s) - c /\ Len(t) \in Nat /\ Len(s) \in Nat
        /\ \A i \in 1..Len(t) : t[i] = s[c + i]
    <3>1. /\ Len(t) = m + (lw - n) + ls
          /\ \A i \in 1..m : t[i] = s[c + i]
          /\ \A i \in 1..(lw - n) : t[m + i] = wire[n + i]
          /\ \A i \in 1..ls : t[m + (lw - n) + i] = sending[i]
      <4>1. Len(r) = m /\ \A i \in 1..m : r[i] = s[c + i]
        <5> HIDE DEF outcome, s, b
        <5> QED BY <2>2
      <4>2. /\ Len(t) = Len(r) + Len(w) + ls
            /\ \A i \in 1..Len(r) : t[i] = r[i]
            /\ \A i \in 1..Len(w) : t[Len(r) + i] = w[i]
            /\ \A i \in 1..ls : t[Len(r) + Len(w) + i] = sending[i]
        <5> HIDE DEF outcome, t, w, ls
        <5> QED BY <2>4
      <4> HIDE DEF t, w, ls, r, m, lw, s
      <4> QED BY <1>7, <4>1, <4>2 DEF lw
    <3>2. /\ \A i \in 1..lw : s[b + i] = wire[i]
          /\ \A i \in 1..ls : s[b + lw + i] = sending[i]
      BY <1>5
    <3> HIDE DEF t, s, b, lw, ls, m
    <3>3. Len(t) = Len(s) - c /\ Len(t) \in Nat /\ Len(s) \in Nat
      BY <1>6, <2>5, <3>1
    <3>4. \A i \in 1..Len(t) : t[i] = s[c + i]
      <4> TAKE i \in 1..Len(t)
      <4>1. CASE i <= m
        BY <2>5, <3>1, <4>1
      <4>2. CASE ~ i <= m /\ i <= m + (lw - n)
        <5> DEFINE k == i - m
        <5>1. k \in 1..(lw - n) /\ m + k = i /\ n + k \in 1..lw /\ b + (n + k) = c + i
          BY <1>6, <2>5, <3>1, <4>2
        <5> HIDE DEF k
        <5> QED BY <3>1, <3>2, <5>1
      <4>3. CASE ~ i <= m + (lw - n)
        <5> DEFINE k == i - (m + (lw - n))
        <5>1. k \in 1..ls /\ m + (lw - n) + k = i /\ b + lw + k = c + i
          BY <1>6, <2>5, <3>1, <4>3
        <5> HIDE DEF k
        <5> QED BY <3>1, <3>2, <5>1
      <4> QED BY <4>1, <4>2, <4>3
    <3> QED BY <3>3, <3>4
  <2>7. /\ Orderly(K, abandoned, handed, t, 0)
        /\ \A g : Accounted(g, K, abandoned, s, c) => Accounted(g, K, abandoned, t, 0)
    <3> HIDE DEF K, s, t
    <3> QED BY <1>5, <2>2, <2>5, <2>6, SuffixKeepsOrder
  <2>8. StreamInv'
    <3>1. Begun(buffer', abandoned)
      <4> HIDE DEF outcome
      <4> QED BY <1>12, <2>2
    <3>2. sender => \A g \in 1..handed : Accounted(g, K, abandoned, t, 0)
      <4> SUFFICES ASSUME sender, NEW g \in 1..handed PROVE Accounted(g, K, abandoned, t, 0)
        OBVIOUS
      <4>1. Accounted(g, delivered, abandoned, s, 0)
        BY <1>1, <1>2, <1>4 DEF StreamInv
      <4> HIDE DEF K, s, t
      <4> QED BY <2>2, <2>7, <4>1
    <3> HIDE DEF K
    <3> QED BY <1>2, <2>3, <2>7, <3>1, <3>2 DEF StreamInv
  <2>9. SendingInv'
    <3> SUFFICES ASSUME sending # << >>
                 PROVE  \A k \in DOMAIN K : K[k] < handed
      <4> HIDE DEF K
      <4> QED BY <1>1, <1>2, <2>3 DEF SendingInv
    <3>1. ls \in Nat \ {0} /\ sending[ls] = LastUnit(handed)
      BY <1>1, <1>5, EmptySeq DEF SendingInv
    <3>2. /\ Len(s) \in (c + 1)..Len(s) /\ s[Len(s)] = sending[ls]
      <4>1. ls \in 1..ls /\ Len(s) = b + Len(wire) + ls
        BY <1>5, <3>1
      <4>2. s[b + Len(wire) + ls] = sending[ls]
        BY <1>5, <4>1
      <4> HIDE DEF s, b, ls
      <4> QED BY <1>6, <2>5, <3>1, <4>1, <4>2
    <3>3. s[Len(s)].frame = handed
      BY <3>1, <3>2 DEF LastUnit
    <3> HIDE DEF K, s
    <3> QED BY <2>2, <3>2, <3>3 DEF Orderly
  <2>10. Received((delivered \o pending)', abandoned', handed')
    <3> HIDE DEF K
    <3> QED BY <1>2, <2>2, <2>3
  <2> QED BY <1>13, <1>14, <2>8, <2>9, <2>10 DEF IInv
<1> QED BY <1>15, <1>16

-----------------------------------------------------------------------------
(* The invariant holds *)

\* The invariant is inductive.
LEMMA StepKeeps == IInv /\ [Next]_vars => IInv'
<1>1. IInv /\ CloseReceiver => IInv'
  <2> SUFFICES ASSUME IInv, CloseReceiver PROVE IInv'
    OBVIOUS
  <2>1. TypeOK'
    BY DEF IInv, CloseReceiver, sendVars, TypeOK
  <2>2. (Received(delivered \o pending, abandoned, handed) /\ FailureHasACause /\ SendingInv)'
    BY DEF IInv, CloseReceiver, sendVars, FailureHasACause, SendingInv
  <2>3. StreamInv'
    BY DEF CloseReceiver, StreamInv
  <2> QED BY <2>1, <2>2, <2>3 DEF IInv
<1>2. IInv /\ UNCHANGED vars => IInv'
  <2> SUFFICES ASSUME IInv, UNCHANGED vars PROVE IInv'
    OBVIOUS
  <2>1. TypeOK'
    BY DEF IInv, vars, TypeOK
  <2>2. (Received(delivered \o pending, abandoned, handed) /\ FailureHasACause /\ SendingInv)'
    BY DEF IInv, vars, FailureHasACause, SendingInv
  <2>3. StreamInv'
    BY DEF IInv, vars, StreamInv, Stream
  <2> QED BY <2>1, <2>2, <2>3 DEF IInv
<1> QED BY <1>1, <1>2, SendFrameKeeps, SendKeeps, SendExpiresKeeps, SendFailsKeeps,
           CloseSenderKeeps, ReceivePendingKeeps, ReceiveKeeps DEF Next

\* The invariant holds.
LEMMA Invariance == Spec => []IInv
BY InitInv, StepKeeps, PTL DEF Spec

\* The units on their way are those of frames, and the decoder never holds more
\* than one frame, whatever a header declares (FrameDecoder::drain).
THEOREM StreamIsTyped == Spec => []TypeOK
<1>1. IInv => TypeOK
  BY DEF IInv
<1> QED BY <1>1, Invariance, PTL

\* However the stream is cut into reads and sends, what is received is what was
\* sent whole, in order and without a gap (receive_frame, send_all).
THEOREM FramesComeInOrder == Spec => []DeliveredInOrder
<1>1. IInv => DeliveredInOrder
  <2> SUFFICES ASSUME IInv PROVE DeliveredInOrder
    OBVIOUS
  <2> DEFINE K == delivered \o pending
  <2>1. Received(K, abandoned, handed) /\ handed \in Nat
    BY Typed DEF IInv
  <2>2. \A f : f \in Range(K) <=> \E k \in DOMAIN K : K[k] = f
    BY DEF Range
  <2> HIDE DEF K
  <2>3. \A i, j \in DOMAIN K : i < j => K[i] < K[j]
    BY <2>1 DEF Received
  <2>4. \A f \in Range(K) :
          /\ f <= handed /\ f \notin abandoned
          /\ \A g \in 1..f : g \in abandoned \cup Range(K)
    <3> TAKE f \in Range(K)
    <3>1. PICK k \in DOMAIN K : K[k] = f
      BY <2>2
    <3>2. /\ f \in 1..handed /\ f \notin abandoned
          /\ \A g \in 1..f : g \in abandoned \/ \E l \in DOMAIN K : K[l] = g
      BY <2>1, <3>1 DEF Received
    <3> QED BY <2>1, <2>2, <3>2
  <2> QED BY <2>3, <2>4 DEF DeliveredInOrder, K
<1> QED BY <1>1, Invariance, PTL

\* The decoder fails only on a stream in which a send was given up: no read that
\* ends inside a frame makes it fail (FrameDecoder::feed).
THEOREM FailuresHaveCauses == Spec => []FailureHasACause
<1>1. IInv => FailureHasACause
  BY DEF IInv
<1> QED BY <1>1, Invariance, PTL

=============================================================================
