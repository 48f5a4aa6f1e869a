--------------------------- MODULE Journal_proofs ---------------------------
(***************************************************************************)
(* What the Journal module guarantees for any findings, bounds and         *)
(* crashes.  No epoch is handed out twice whatever fails.  If no write     *)
(* fails while the process goes on and the retained findings and boots are *)
(* within their limits, then what is on disk is always accepted by the     *)
(* next open, what is in memory is what is on disk, and the file is one    *)
(* document that changes atomically.                                       *)
(***************************************************************************)
EXTENDS Journal, FiniteSetTheorems, SequenceTheorems, TLAPS

-----------------------------------------------------------------------------
(* Induction                                                               *)

\* Induction: a set of naturals with 0 and all successors is all of them.
LEMMA NaturalSet ==
    ASSUME NEW T, T \subseteq Nat, 0 \in T, \A n \in T : n + 1 \in T
    PROVE  T = Nat
<1> DEFINE M == Nat \ T
           I == {1..n : n \in M}
<1>1. SUFFICES ASSUME M # {} PROVE FALSE
  OBVIOUS
<1>2. PICK p \in I : \A q \in I : <<q, p>> \notin StrictSubsetOrdering(Nat)
  <2>1. \A n \in Nat : 1..n \subseteq Nat /\ IsFiniteSet(1..n)
    BY FS_Interval
  <2>2. I \subseteq FiniteSubsetsOf(Nat)
    BY <2>1 DEF FiniteSubsetsOf
  <2>3. I # {}
    BY <1>1
  <2> HIDE DEF I
  <2> QED BY <2>2, <2>3, WFMin, FS_StrictSubsetOrderingWellFounded
<1>3. PICK x \in M : p = 1..x
  OBVIOUS
<1>4. x # 0 /\ x \in Nat /\ x - 1 \in Nat
  OBVIOUS
<1>5. x - 1 \in M
  <2>1. x - 1 \in T => (x - 1) + 1 \in T
    OBVIOUS
  <2> QED BY <1>4, <2>1
<1>6. <<1..(x - 1), 1..x>> \in StrictSubsetOrdering(Nat)
  <2>1. 1..(x - 1) \in SUBSET Nat /\ 1..x \in SUBSET Nat /\ 1..(x - 1) \subseteq 1..x
    BY <1>4
  <2>2. x \in 1..x /\ x \notin 1..(x - 1)
    BY <1>4
  <2> QED BY <2>1, <2>2 DEF StrictSubsetOrdering
<1> QED BY <1>2, <1>3, <1>5, <1>6

-----------------------------------------------------------------------------
(* Documents                                                               *)

Fence == [generation : Nat, epoch : Nat]

\* What the record of each type holds.
BodyOf(type) ==
    CASE type \in {"Upsert", "Withdraw"} -> Key
      [] type = "Fence" -> Fence
      [] type = "Snapshot" -> Content
      [] OTHER -> Nat

\* The fields of a document.
LEMMA ContentFields ==
    ASSUME NEW d \in Content
    PROVE  /\ d.topology \in Nat /\ d.policy \in Nat /\ d.lineage \in Nat
           /\ d.fence \in Fence
           /\ d.fence.generation \in Nat /\ d.fence.epoch \in Nat
           /\ d.findings \in Seq(Entry) /\ d.boots \in Seq(Boot)
BY DEF Content, Fence

\* Documents that agree in every field are one.
LEMMA ContentEqual ==
    ASSUME NEW c \in Content, NEW d \in Content,
           c.topology = d.topology, c.policy = d.policy, c.lineage = d.lineage,
           c.fence.generation = d.fence.generation, c.fence.epoch = d.fence.epoch,
           c.findings = d.findings, c.boots = d.boots
    PROVE  c = d
<1>1. c.fence = d.fence
  BY ContentFields DEF Fence
<1> QED BY <1>1 DEF Content

\* A publication keeps the sequence of findings typed.
LEMMA UpsertTyped ==
    ASSUME NEW s \in Seq(Entry), NEW key \in Key
    PROVE  Upsert(s, key) \in Seq(Entry)
<1> DEFINE entry == [key |-> key, withdrawn |-> FALSE]
           marked == [i \in DOMAIN s |-> IF s[i].key = key THEN entry ELSE s[i]]
<1>1. entry \in Entry
  BY DEF Entry
<1>2. marked \in Seq(Entry)
  <2>1. Len(s) \in Nat /\ DOMAIN s = 1..Len(s) /\ \A i \in 1..Len(s) : s[i] \in Entry
    BY LenProperties, ElementOfSeq
  <2>2. marked \in [1..Len(s) -> Entry]
    BY <1>1, <2>1
  <2> HIDE DEF marked
  <2> QED BY <2>1, <2>2, SeqDef
<1>3. Append(s, entry) \in Seq(Entry)
  BY <1>1, AppendProperties
<1> QED BY <1>2, <1>3 DEF Upsert

\* A withdrawal does, and keeps which findings there are.
LEMMA WithdrawTyped ==
    ASSUME NEW s \in Seq(Entry), NEW key \in Key
    PROVE  /\ Withdraw(s, key) \in Seq(Entry)
           /\ DOMAIN Withdraw(s, key) = DOMAIN s
           /\ \A i \in DOMAIN s : Withdraw(s, key)[i].key = s[i].key
<1>1. Len(s) \in Nat /\ DOMAIN s = 1..Len(s) /\ \A i \in 1..Len(s) : s[i] \in Entry
  BY LenProperties, ElementOfSeq
<1>2. \A e \in Entry : /\ [e EXCEPT !.withdrawn = TRUE] \in Entry
                       /\ [e EXCEPT !.withdrawn = TRUE].key = e.key
  BY DEF Entry
<1>3. Withdraw(s, key) \in [1..Len(s) -> Entry]
  BY <1>1, <1>2 DEF Withdraw
<1>4. Withdraw(s, key) \in Seq(Entry)
  BY <1>1, <1>3, SeqDef
<1>5. DOMAIN Withdraw(s, key) = DOMAIN s
  BY DEF Withdraw
<1>6. \A i \in DOMAIN s : Withdraw(s, key)[i].key = s[i].key
  BY <1>1, <1>2 DEF Withdraw
<1> QED BY <1>4, <1>5, <1>6

\* A clean end changes one boot, and no epoch.
LEMMA NoteTyped ==
    ASSUME NEW s \in Seq(Boot), NEW n \in DOMAIN s
    PROVE  /\ [s EXCEPT ![n].clean = TRUE] \in Seq(Boot)
           /\ DOMAIN [s EXCEPT ![n].clean = TRUE] = DOMAIN s
           /\ \A i \in DOMAIN s : [s EXCEPT ![n].clean = TRUE][i].epoch = s[i].epoch
<1>1. Len(s) \in Nat /\ DOMAIN s = 1..Len(s) /\ \A i \in 1..Len(s) : s[i] \in Boot
  BY LenProperties, ElementOfSeq
<1> DEFINE t == [s EXCEPT ![n].clean = TRUE]
           b == [s[n] EXCEPT !.clean = TRUE]
<1>2. b \in Boot /\ b.epoch = s[n].epoch
  BY <1>1 DEF Boot
<1>3. t = [s EXCEPT ![n] = b]
  OBVIOUS
<1>4. DOMAIN t = DOMAIN s /\ \A i \in DOMAIN s : t[i] = IF i = n THEN b ELSE s[i]
  BY <1>3
<1>5. t \in [1..Len(s) -> Boot]
  BY <1>1, <1>2, <1>3
<1>6. t \in Seq(Boot)
  <2> HIDE DEF t
  <2> QED BY <1>1, <1>5, SeqDef
<1>7. \A i \in DOMAIN s : t[i].epoch = s[i].epoch
  BY <1>2, <1>4
<1> QED BY <1>4, <1>6, <1>7

\* What each change makes of each field.
LEMMA AppliedFields ==
    ASSUME NEW d \in Content, NEW type \in Change, NEW body
    PROVE  LET a == Applied(d, type, body)
           IN  /\ a.topology = IF type = "Topology" THEN body ELSE d.topology
               /\ a.policy = IF type = "Policy" THEN body ELSE d.policy
               /\ a.lineage = IF type = "Lineage" THEN body ELSE d.lineage
               /\ a.fence = IF type = "Fence" THEN body ELSE d.fence
               /\ a.findings = IF type = "Upsert" THEN Upsert(d.findings, body)
                               ELSE IF type = "Withdraw" THEN Withdraw(d.findings, body)
                               ELSE d.findings
               /\ a.boots = IF type = "Boot"
                            THEN Append(d.boots, [epoch |-> body, clean |-> FALSE])
                            ELSE IF type = "Note"
                            THEN [d.boots EXCEPT ![body].clean = TRUE]
                            ELSE d.boots
BY DEF Applied, Change, Content

\* A change that can be made makes a document of a document.
LEMMA AppliedTyped ==
    ASSUME NEW d \in Content, NEW type \in Change, NEW body \in BodyOf(type),
           type = "Note" => body \in DOMAIN d.boots
    PROVE  Applied(d, type, body) \in Content
<1> USE ContentFields
<1>1. CASE type \in {"Topology", "Policy", "Lineage"}
  <2>1. body \in Nat
    BY <1>1 DEF BodyOf
  <2> QED BY <1>1, <2>1 DEF Applied, Content
<1>2. CASE type = "Upsert"
  <2>1. body \in Key
    BY <1>2 DEF BodyOf
  <2>2. Upsert(d.findings, body) \in Seq(Entry)
    BY <2>1, UpsertTyped
  <2> QED BY <1>2, <2>2 DEF Applied, Content
<1>3. CASE type = "Withdraw"
  <2>1. body \in Key
    BY <1>3 DEF BodyOf
  <2>2. Withdraw(d.findings, body) \in Seq(Entry)
    BY <2>1, WithdrawTyped
  <2> QED BY <1>3, <2>2 DEF Applied, Content
<1>4. CASE type = "Boot"
  <2>1. body \in Nat
    BY <1>4 DEF BodyOf
  <2>2. [epoch |-> body, clean |-> FALSE] \in Boot
    BY <2>1 DEF Boot
  <2>3. Append(d.boots, [epoch |-> body, clean |-> FALSE]) \in Seq(Boot)
    BY <2>2, AppendProperties
  <2> QED BY <1>4, <2>3 DEF Applied, Content
<1>5. CASE type = "Note"
  <2>1. [d.boots EXCEPT ![body].clean = TRUE] \in Seq(Boot)
    BY <1>5, NoteTyped
  <2>2. Applied(d, type, body) = [d EXCEPT !.boots = [d.boots EXCEPT ![body].clean = TRUE]]
    BY <1>5 DEF Applied, Content
  <2> QED BY <2>1, <2>2 DEF Content
<1>6. CASE type = "Fence"
  <2>1. body \in Fence
    BY <1>6 DEF BodyOf
  <2> QED BY <1>6, <2>1 DEF Applied, Content, Fence
<1> QED BY <1>1, <1>2, <1>3, <1>4, <1>5, <1>6 DEF Change

-----------------------------------------------------------------------------
(* Epochs                                                                  *)

\* m is the largest epoch of the committed fence and of the boots s.
Largest(m, epoch, s) ==
    /\ m \in Nat /\ epoch <= m /\ \A i \in DOMAIN s : s[i].epoch <= m
    /\ m = epoch \/ \E i \in DOMAIN s : s[i].epoch = m

\* The epochs of boots are numbers.
LEMMA BootEpochs ==
    ASSUME NEW s \in Seq(Boot)
    PROVE  /\ Len(s) \in Nat /\ DOMAIN s = 1..Len(s)
           /\ \A i \in DOMAIN s : s[i].epoch \in Nat
<1>1. Len(s) \in Nat /\ DOMAIN s = 1..Len(s) /\ \A i \in 1..Len(s) : s[i] \in Boot
  BY LenProperties, ElementOfSeq
<1>2. \A b \in Boot : b.epoch \in Nat
  BY DEF Boot
<1> QED BY <1>1, <1>2

\* There is a largest epoch.
LEMMA LargestExists ==
    ASSUME NEW epoch \in Nat, NEW s \in Seq(Boot)
    PROVE  \E m : Largest(m, epoch, s)
<1>1. Len(s) \in Nat /\ DOMAIN s = 1..Len(s) /\ \A i \in 1..Len(s) : s[i] \in Boot
  BY LenProperties, ElementOfSeq
<1>2. \A i \in 1..Len(s) : s[i].epoch \in Nat
  BY <1>1 DEF Boot
<1> DEFINE P(n) == n <= Len(s) =>
                    \E m \in Nat : /\ epoch <= m /\ \A i \in 1..n : s[i].epoch <= m
                                   /\ m = epoch \/ \E i \in 1..n : s[i].epoch = m
           T == {n \in Nat : P(n)}
<1>3. 0 \in T
  OBVIOUS
<1>4. \A n \in T : n + 1 \in T
  <2> TAKE n \in T
  <2> SUFFICES ASSUME n + 1 <= Len(s) PROVE P(n + 1)
    OBVIOUS
  <2>1. n \in Nat /\ n <= Len(s) /\ n + 1 \in 1..Len(s)
    BY <1>1
  <2>2. PICK m \in Nat : /\ epoch <= m /\ \A i \in 1..n : s[i].epoch <= m
                         /\ m = epoch \/ \E i \in 1..n : s[i].epoch = m
    BY <2>1
  <2>3. s[n + 1].epoch \in Nat
    BY <1>2, <2>1
  <2>4. 1..(n + 1) = 1..n \cup {n + 1}
    BY <2>1
  <2>5. CASE s[n + 1].epoch <= m
    BY <2>2, <2>4, <2>5
  <2>6. CASE ~ (s[n + 1].epoch <= m)
    <3>1. \A i \in 1..n : s[i].epoch <= s[n + 1].epoch
      BY <1>2, <2>1, <2>2, <2>3, <2>6
    <3>2. epoch <= s[n + 1].epoch
      BY <2>2, <2>3, <2>6
    <3> QED BY <2>3, <2>4, <3>1, <3>2
  <2> QED BY <2>5, <2>6
<1>5. T = Nat
  <2> HIDE DEF T
  <2>1. T \subseteq Nat
    BY DEF T
  <2> QED BY <1>3, <1>4, <2>1, NaturalSet
<1>6. Len(s) \in T
  BY <1>1, <1>5
<1>7. PICK m \in Nat : /\ epoch <= m /\ \A i \in 1..Len(s) : s[i].epoch <= m
                       /\ m = epoch \/ \E i \in 1..Len(s) : s[i].epoch = m
  BY <1>1, <1>6
<1>8. \A i \in DOMAIN s : s[i].epoch <= m
  BY <1>1, <1>7
<1>9. m = epoch \/ \E i \in DOMAIN s : s[i].epoch = m
  BY <1>1, <1>7
<1>10. Largest(m, epoch, s)
  BY <1>7, <1>8, <1>9 DEF Largest
<1> QED BY <1>10

\* HighWater is the largest epoch, and no other number is.
LEMMA HighWaterIs ==
    ASSUME NEW d \in Content
    PROVE  /\ HighWater(d) \in Nat
           /\ Largest(HighWater(d), d.fence.epoch, d.boots)
           /\ \A m : Largest(m, d.fence.epoch, d.boots) => m = HighWater(d)
<1> DEFINE e == d.fence.epoch
           S == {e} \cup {d.boots[i].epoch : i \in DOMAIN d.boots}
<1>1. e \in Nat /\ d.boots \in Seq(Boot)
  BY ContentFields
<1>2. \A i \in DOMAIN d.boots : d.boots[i].epoch \in Nat
  BY <1>1, BootEpochs
<1>3. S \subseteq Nat
  BY <1>1, <1>2
<1>4. \A m : Largest(m, e, d.boots) <=> m \in S /\ \A y \in S : m >= y
  BY <1>1, <1>2, <1>3 DEF Largest
<1>5. \E m : Largest(m, e, d.boots)
  BY <1>1, LargestExists
<1>6. HighWater(d) = CHOOSE m \in S : \A y \in S : m >= y
  BY DEF HighWater, Max
<1>7. HighWater(d) \in S /\ \A y \in S : HighWater(d) >= y
  <2> HIDE DEF S
  <2> QED BY <1>4, <1>5, <1>6
<1>8. \A m \in S : (\A y \in S : m >= y) => m = HighWater(d)
  <2> DEFINE h == HighWater(d)
  <2>1. h \in S /\ \A y \in S : h >= y
    BY <1>7
  <2> HIDE DEF S, h
  <2>2. \A m \in S : (\A y \in S : m >= y) => m = h
    BY <1>3, <2>1
  <2> QED BY <2>2 DEF h
<1> QED BY <1>3, <1>4, <1>7, <1>8 DEF Largest

\* It is above every epoch of the document.
LEMMA HighWaterBounds ==
    ASSUME NEW d \in Content
    PROVE  /\ HighWater(d) \in Nat /\ d.fence.epoch <= HighWater(d)
           /\ \A i \in DOMAIN d.boots : d.boots[i].epoch <= HighWater(d)
BY HighWaterIs DEF Largest

\* Documents with the same epochs have the same.
LEMMA HighWaterSame ==
    ASSUME NEW c \in Content, NEW d \in Content, c.fence.epoch = d.fence.epoch,
           DOMAIN c.boots = DOMAIN d.boots,
           \A i \in DOMAIN d.boots : c.boots[i].epoch = d.boots[i].epoch
    PROVE  HighWater(c) = HighWater(d)
<1>1. Largest(HighWater(d), c.fence.epoch, c.boots)
  BY HighWaterIs DEF Largest
<1> QED BY <1>1, HighWaterIs

\* A boot above all others, a fence not below, is the largest; any other
\* change leaves it alone.
LEMMA HighWaterApplied ==
    ASSUME NEW d \in Content, NEW type \in Change, NEW body \in BodyOf(type),
           type = "Note" => body \in DOMAIN d.boots
    PROVE  LET h == HighWater(Applied(d, type, body))
           IN  /\ type = "Boot" => h >= HighWater(d) /\ h >= body
               /\ type = "Boot" /\ body > HighWater(d) => h = body
               /\ type = "Fence" => h >= body.epoch
               /\ type = "Fence" /\ body.epoch >= HighWater(d) => h = body.epoch
               /\ type \notin {"Boot", "Fence"} => h = HighWater(d)
<1> DEFINE a == Applied(d, type, body)
<1>1. a \in Content
  BY AppliedTyped
<1>2. /\ HighWater(d) \in Nat /\ d.fence.epoch <= HighWater(d)
      /\ \A i \in DOMAIN d.boots : d.boots[i].epoch <= HighWater(d)
  BY HighWaterBounds
<1>3. /\ HighWater(a) \in Nat /\ a.fence.epoch <= HighWater(a)
      /\ \A i \in DOMAIN a.boots : a.boots[i].epoch <= HighWater(a)
  BY <1>1, HighWaterBounds
<1>4. d.boots \in Seq(Boot) /\ d.fence.epoch \in Nat
  BY ContentFields
<1>5. /\ a.fence = IF type = "Fence" THEN body ELSE d.fence
      /\ a.boots = IF type = "Boot"
                   THEN Append(d.boots, [epoch |-> body, clean |-> FALSE])
                   ELSE IF type = "Note"
                   THEN [d.boots EXCEPT ![body].clean = TRUE]
                   ELSE d.boots
  BY AppliedFields
<1> HIDE DEF a
<1>6. CASE type = "Boot"
  <2> DEFINE n == Len(d.boots)
             boot == [epoch |-> body, clean |-> FALSE]
  <2>1. body \in Nat /\ boot \in Boot
    BY <1>6 DEF BodyOf, Boot
  <2>2. /\ n \in Nat /\ DOMAIN d.boots = 1..n
        /\ Append(d.boots, boot) \in Seq(Boot)
        /\ Len(Append(d.boots, boot)) = n + 1
        /\ \A i \in 1..n : Append(d.boots, boot)[i] = d.boots[i]
        /\ Append(d.boots, boot)[n + 1] = boot
    BY <1>4, <2>1, AppendProperties, LenProperties
  <2>3. DOMAIN Append(d.boots, boot) = 1..(n + 1)
    BY <2>2, LenProperties
  <2>4. a.boots = Append(d.boots, boot) /\ a.fence = d.fence
    BY <1>5, <1>6
  <2>5. n + 1 \in DOMAIN a.boots /\ a.boots[n + 1].epoch = body
        /\ DOMAIN a.boots = DOMAIN d.boots \cup {n + 1}
        /\ \A i \in DOMAIN d.boots : a.boots[i] = d.boots[i]
    BY <2>2, <2>3, <2>4
  <2>6. body <= HighWater(a)
    BY <1>3, <2>5
  <2>7. HighWater(d) <= HighWater(a)
    <3>1. HighWater(d) = d.fence.epoch \/ \E i \in DOMAIN d.boots : d.boots[i].epoch = HighWater(d)
      BY HighWaterIs DEF Largest
    <3> QED BY <1>3, <2>4, <2>5, <3>1
  <2>8. ASSUME body > HighWater(d) PROVE HighWater(a) = body
    <3>1. Largest(body, a.fence.epoch, a.boots)
      <4>1. a.fence.epoch <= body
        BY <1>2, <1>4, <2>1, <2>4, <2>8
      <4>2. \A i \in DOMAIN a.boots : a.boots[i].epoch <= body
        <5>1. \A i \in DOMAIN d.boots : d.boots[i].epoch \in Nat
          BY <1>4, BootEpochs
        <5> QED BY <1>2, <2>1, <2>5, <2>8, <5>1
      <4> QED BY <2>1, <2>5, <4>1, <4>2 DEF Largest
    <3> QED BY <1>1, <3>1, HighWaterIs
  <2> QED BY <1>2, <1>3, <1>6, <2>1, <2>6, <2>7, <2>8 DEF a
<1>7. CASE type = "Fence"
  <2>1. body \in Fence /\ body.epoch \in Nat
    BY <1>7 DEF BodyOf, Fence
  <2>2. a.fence = body /\ a.boots = d.boots
    BY <1>5, <1>7
  <2>3. body.epoch <= HighWater(a)
    BY <1>3, <2>2
  <2>4. ASSUME body.epoch >= HighWater(d) PROVE HighWater(a) = body.epoch
    <3>1. \A i \in DOMAIN d.boots : d.boots[i].epoch \in Nat
      BY <1>4, BootEpochs
    <3>2. Largest(body.epoch, a.fence.epoch, a.boots)
      BY <1>2, <2>1, <2>2, <2>4, <3>1 DEF Largest
    <3> QED BY <1>1, <3>2, HighWaterIs
  <2> QED BY <1>3, <1>7, <2>1, <2>3, <2>4 DEF a
<1>8. CASE type \notin {"Boot", "Fence"}
  <2>1. a.fence.epoch = d.fence.epoch
    BY <1>5, <1>8
  <2>2. /\ DOMAIN a.boots = DOMAIN d.boots
        /\ \A i \in DOMAIN d.boots : a.boots[i].epoch = d.boots[i].epoch
    <3>1. CASE type = "Note"
      <4>1. a.boots = [d.boots EXCEPT ![body].clean = TRUE]
        BY <1>5, <3>1
      <4> QED BY <1>4, <3>1, <4>1, NoteTyped
    <3>2. CASE type # "Note"
      BY <1>5, <1>8, <3>2
    <3> QED BY <3>1, <3>2
  <2>3. HighWater(a) = HighWater(d)
    BY <1>1, <2>1, <2>2, HighWaterSame
  <2> QED BY <1>8, <2>3 DEF a
<1> QED BY <1>6, <1>7, <1>8

-----------------------------------------------------------------------------
(* Reading a file                                                          *)

\* What is on disk, frame by frame.
Type == Change \cup {"Snapshot", "Torn"}
FramesOf(type) == [type : {type}, seq : Nat, gen : Nat, body : BodyOf(type)]
Frames == UNION {FramesOf(type) : type \in Type}

\* A frame holds what its type says.
LEMMA FrameFields ==
    ASSUME NEW x \in Frames
    PROVE  /\ x.type \in Type /\ x.seq \in Nat /\ x.gen \in Nat
           /\ x.body \in BodyOf(x.type)
<1>1. PICK type \in Type : x \in FramesOf(type)
  BY DEF Frames
<1> QED BY <1>1 DEF FramesOf

\* What is made of a type and its content is a frame.
LEMMA FrameTyped ==
    ASSUME NEW type \in Type, NEW seq \in Nat, NEW generation \in Nat,
           NEW body \in BodyOf(type)
    PROVE  /\ Frame(type, seq, generation, body) \in Frames
           /\ Frame(type, seq, generation, body).type = type
           /\ Frame(type, seq, generation, body).seq = seq
           /\ Frame(type, seq, generation, body).gen = generation
           /\ Frame(type, seq, generation, body).body = body
<1>1. Frame(type, seq, generation, body) \in FramesOf(type)
  BY DEF Frame, FramesOf
<1> QED BY <1>1 DEF Frame, Frames

\* A torn frame is one, too.
LEMMA TornTyped == Torn \in Frames /\ Torn.type = "Torn"
<1>1. "Torn" \in Type /\ 0 \in BodyOf("Torn")
  BY DEF Type, BodyOf
<1> QED BY <1>1, FrameTyped DEF Torn

\* The document after each frame is what the code computes it to be.
LEMMA ReplaysDefined ==
    ASSUME NEW X, NEW f \in Seq(X)
    PROVE  Replays(f) = [i \in 1..Len(f) |->
                            IF i = 1 THEN f[1].body
                            ELSE Applied(Replays(f)[i - 1], f[i].type, f[i].body)]
<1>1. Len(f) \in Nat /\ DOMAIN f = 1..Len(f)
  BY LenProperties
<1> DEFINE Next1(g, i) == IF i = 1 THEN f[1].body
                          ELSE Applied(g[i - 1], f[i].type, f[i].body)
           Good(g, n) == g = [i \in 1..n |-> Next1(g, i)]
           T == {n \in Nat : \E g : Good(g, n)}
<1>2. 0 \in T
  <2>1. Good([i \in 1..0 |-> f[1].body], 0)
    OBVIOUS
  <2> QED BY <2>1
<1>3. \A n \in T : n + 1 \in T
  <2> TAKE n \in T
  <2>1. PICK g : Good(g, n)
    OBVIOUS
  <2> DEFINE h == [i \in 1..(n + 1) |-> IF i = n + 1 THEN Next1(g, n + 1) ELSE g[i]]
  <2>2. \A i \in 1..n : g[i] = Next1(g, i) /\ h[i] = g[i]
    BY <2>1
  <2>3. ASSUME NEW i \in 1..(n + 1) PROVE h[i] = Next1(h, i) /\ Next1(h, i) = Next1(g, i)
    <3>1. i # 1 => i - 1 \in 1..n
      OBVIOUS
    <3>2. i # 1 => h[i - 1] = g[i - 1]
      BY <2>2, <3>1
    <3>3. Next1(h, i) = Next1(g, i)
      BY <3>2
    <3>4. CASE i = n + 1
      BY <3>3, <3>4
    <3>5. CASE i # n + 1
      <4>1. i \in 1..n
        BY <3>5
      <4> QED BY <2>2, <3>3, <4>1
    <3> QED BY <3>3, <3>4, <3>5
  <2>4. Good(h, n + 1)
    <3>1. h = [i \in 1..(n + 1) |-> h[i]]
      OBVIOUS
    <3> HIDE DEF h, Next1
    <3> QED BY <2>3, <3>1
  <2>5. n + 1 \in Nat
    OBVIOUS
  <2> HIDE DEF h, Good
  <2> QED BY <2>4, <2>5
<1>4. T = Nat
  <2> HIDE DEF T
  <2>1. T \subseteq Nat
    BY DEF T
  <2> QED BY <1>2, <1>3, <2>1, NaturalSet
<1>5. \E g : Good(g, Len(f))
  BY <1>1, <1>4
<1>6. Replays(f) = CHOOSE g : Good(g, Len(f))
  BY <1>1 DEF Replays
<1>7. Good(Replays(f), Len(f))
  <2> HIDE DEF Good
  <2> QED BY <1>5, <1>6
<1> QED BY <1>7

\* Frame by frame.
LEMMA ReplaysSteps ==
    ASSUME NEW X, NEW f \in Seq(X), f # << >>
    PROVE  /\ Len(f) \in Nat \ {0}
           /\ Replays(f)[1] = f[1].body
           /\ \A i \in 2..Len(f) :
                Replays(f)[i] = Applied(Replays(f)[i - 1], f[i].type, f[i].body)
<1>1. Len(f) \in Nat \ {0}
  BY EmptySeq
<1>2. \A i \in 1..Len(f) :
        Replays(f)[i] = IF i = 1 THEN f[1].body
                        ELSE Applied(Replays(f)[i - 1], f[i].type, f[i].body)
  BY ReplaysDefined
<1> QED BY <1>1, <1>2

\* The documents of a prefix are those of the whole.
LEMMA ReplaysPrefix ==
    ASSUME NEW X, NEW f \in Seq(X), NEW g \in Seq(X), f # << >>, g # << >>,
           NEW n \in Nat, n <= Len(f), n <= Len(g), \A i \in 1..n : f[i] = g[i]
    PROVE  \A i \in 1..n : Replays(f)[i] = Replays(g)[i]
<1> DEFINE T == {k \in Nat : k \in 1..n => Replays(f)[k] = Replays(g)[k]}
<1>1. Len(f) \in Nat \ {0} /\ Len(g) \in Nat \ {0}
  BY ReplaysSteps
<1>2. 0 \in T
  OBVIOUS
<1>3. \A k \in T : k + 1 \in T
  <2> TAKE k \in T
  <2> SUFFICES ASSUME k + 1 \in 1..n PROVE Replays(f)[k + 1] = Replays(g)[k + 1]
    OBVIOUS
  <2>1. CASE k = 0
    BY <2>1, ReplaysSteps
  <2>2. CASE k # 0
    <3>1. k \in 1..n /\ k + 1 \in 2..Len(f) /\ k + 1 \in 2..Len(g) /\ (k + 1) - 1 = k
      BY <1>1, <2>2
    <3>2. Replays(f)[k] = Replays(g)[k] /\ f[k + 1] = g[k + 1]
      BY <3>1
    <3>3. /\ Replays(f)[k + 1] = Applied(Replays(f)[k], f[k + 1].type, f[k + 1].body)
          /\ Replays(g)[k + 1] = Applied(Replays(g)[k], g[k + 1].type, g[k + 1].body)
      BY <3>1, ReplaysSteps
    <3> QED BY <3>2, <3>3
  <2> QED BY <2>1, <2>2
<1>4. T = Nat
  <2> HIDE DEF T
  <2>1. T \subseteq Nat
    BY DEF T
  <2> QED BY <1>2, <1>3, <2>1, NaturalSet
<1> QED BY <1>4

\* One more frame is one more change.
LEMMA ReplayAppend ==
    ASSUME NEW f \in Seq(Frames), f # << >>, NEW x \in Frames
    PROVE  /\ Replay(Append(f, x)) = Applied(Replay(f), x.type, x.body)
           /\ \A i \in 1..Len(f) : Replays(Append(f, x))[i] = Replays(f)[i]
<1> DEFINE g == Append(f, x)
           n == Len(f)
<1>1. /\ g \in Seq(Frames) /\ g # << >> /\ Len(g) = n + 1
      /\ \A i \in 1..n : g[i] = f[i]
      /\ g[n + 1] = x
  BY AppendProperties
<1>2. n \in Nat \ {0}
  BY ReplaysSteps
<1>3. \A i \in 1..n : Replays(g)[i] = Replays(f)[i]
  <2> HIDE DEF g
  <2> QED BY <1>1, <1>2, ReplaysPrefix
<1>4. Replays(g)[n + 1] = Applied(Replays(g)[n], x.type, x.body)
  <2>1. n + 1 \in 2..Len(g) /\ (n + 1) - 1 = n
    BY <1>1, <1>2
  <2> HIDE DEF g, n
  <2> QED BY <1>1, <2>1, ReplaysSteps
<1>5. Replays(g)[n] = Replays(f)[n]
  BY <1>2, <1>3
<1> QED BY <1>1, <1>3, <1>4, <1>5 DEF Replay

\* One frame is its own document.
LEMMA ReplayOne ==
    ASSUME NEW x \in Frames
    PROVE  /\ <<x>> \in Seq(Frames) /\ <<x>> # << >> /\ Len(<<x>>) = 1
           /\ <<x>>[1] = x /\ Replay(<<x>>) = x.body
<1>1. /\ <<x>> \in Seq(Frames) /\ <<x>> # << >> /\ Len(<<x>>) = 1 /\ <<x>>[1] = x
  OBVIOUS
<1>2. Replays(<<x>>)[1] = x.body
  BY <1>1, ReplaysSteps
<1> QED BY <1>1, <1>2 DEF Replay

\* A snapshot is a file.
LEMMA WellFormedOne ==
    ASSUME NEW x \in Frames
    PROVE  WellFormed(<<x>>) <=> x.type = "Snapshot" /\ x.seq = 1 /\ Decodes(x.body)
<1>1. Len(<<x>>) = 1 /\ <<x>>[1] = x
  OBVIOUS
<1>2. 2..Len(<<x>>) = {}
  BY <1>1
<1> QED BY <1>1, <1>2 DEF WellFormed, Continuous

\* A file is continued by a frame with the next number, of the generation,
\* that the document can take.
LEMMA WellFormedAppend ==
    ASSUME NEW f \in Seq(Frames), f # << >>, NEW x \in Frames
    PROVE  WellFormed(Append(f, x)) <=>
               /\ WellFormed(f)
               /\ x.type \in Change /\ x.gen = f[1].gen /\ x.seq = Len(f) + 1
               /\ Applicable(Replay(f), x.type, x.body)
<1> DEFINE g == Append(f, x)
           n == Len(f)
<1>1. /\ g \in Seq(Frames) /\ g # << >> /\ Len(g) = n + 1
      /\ \A i \in 1..n : g[i] = f[i]
      /\ g[n + 1] = x
  BY AppendProperties
<1>2. n \in Nat \ {0}
  BY ReplaysSteps
<1>3. 2..(n + 1) = 2..n \cup {n + 1} /\ 1 \in 1..n /\ (n + 1) - 1 = n /\ n \in 1..n
  BY <1>2
<1>4. \A i \in 1..n : Replays(g)[i] = Replays(f)[i]
  BY ReplayAppend
<1>5. \A i \in 2..n : i - 1 \in 1..n /\ i \in 1..n
  BY <1>2
<1>6. Replays(g)[n] = Replay(f)
  BY <1>3, <1>4 DEF Replay
<1> HIDE DEF g, n
<1>7. Continuous(g) <=> /\ Continuous(f) /\ x.type \in Change
                        /\ x.gen = f[1].gen /\ x.seq = n + 1
  BY <1>1, <1>3, <1>5 DEF Continuous, n
<1>8. (\A i \in 2..Len(g) : Applicable(Replays(g)[i - 1], g[i].type, g[i].body))
      <=> /\ \A i \in 2..n : Applicable(Replays(f)[i - 1], f[i].type, f[i].body)
          /\ Applicable(Replay(f), x.type, x.body)
  BY <1>1, <1>3, <1>4, <1>5, <1>6
<1>9. g[1] = f[1]
  BY <1>1, <1>3
<1> QED BY <1>7, <1>8, <1>9 DEF WellFormed, g, n

\* The documents of a well-formed file are documents.
LEMMA WellFormedReplays ==
    ASSUME NEW f \in Seq(Frames), f # << >>, WellFormed(f)
    PROVE  \A i \in 1..Len(f) : Replays(f)[i] \in Content
<1>1. Len(f) \in Nat \ {0} /\ \A i \in 1..Len(f) : f[i] \in Frames
  BY ReplaysSteps, ElementOfSeq
<1> DEFINE T == {k \in Nat : k \in 1..Len(f) => Replays(f)[k] \in Content}
<1>2. 0 \in T
  OBVIOUS
<1>3. \A k \in T : k + 1 \in T
  <2> TAKE k \in T
  <2> SUFFICES ASSUME k + 1 \in 1..Len(f) PROVE Replays(f)[k + 1] \in Content
    OBVIOUS
  <2>1. CASE k = 0
    <3>1. f[1] \in Frames /\ f[1].type = "Snapshot"
      BY <1>1 DEF WellFormed, Continuous
    <3>2. f[1].body \in Content
      BY <3>1, FrameFields DEF BodyOf
    <3> QED BY <2>1, <3>2, ReplaysSteps
  <2>2. CASE k # 0
    <3>1. k \in 1..Len(f) /\ k + 1 \in 2..Len(f) /\ (k + 1) - 1 = k
      BY <1>1, <2>2
    <3>2. Replays(f)[k] \in Content
      BY <3>1
    <3>3. f[k + 1] \in Frames /\ f[k + 1].type \in Change
          /\ Applicable(Replays(f)[k], f[k + 1].type, f[k + 1].body)
      BY <1>1, <3>1 DEF WellFormed, Continuous
    <3>4. f[k + 1].body \in BodyOf(f[k + 1].type)
      BY <3>3, FrameFields
    <3>5. Applied(Replays(f)[k], f[k + 1].type, f[k + 1].body) \in Content
      BY <3>2, <3>3, <3>4, AppliedTyped DEF Applicable
    <3>6. Replays(f)[k + 1] = Applied(Replays(f)[k], f[k + 1].type, f[k + 1].body)
      BY <3>1, ReplaysSteps
    <3> QED BY <3>5, <3>6
  <2> QED BY <2>1, <2>2
<1>4. T = Nat
  <2> HIDE DEF T
  <2>1. T \subseteq Nat
    BY DEF T
  <2> QED BY <1>2, <1>3, <2>1, NaturalSet
<1> QED BY <1>1, <1>4

\* The last of them is what the file says.
LEMMA WellFormedReplay ==
    ASSUME NEW f \in Seq(Frames), f # << >>, WellFormed(f)
    PROVE  Replay(f) \in Content
<1>1. Len(f) \in 1..Len(f)
  BY ReplaysSteps
<1> QED BY <1>1, WellFormedReplays DEF Replay

\* Only the last frame of what can be read is torn, and it is left out.
LEMMA WholeFacts ==
    ASSUME NEW f \in Seq(Frames), NEW x \in Frames
    PROVE  /\ Whole(Append(f, Torn)) = f
           /\ x.type # "Torn" => Whole(Append(f, x)) = Append(f, x)
           /\ Whole(f) \in Seq(Frames)
           /\ f # << >> /\ WellFormed(f) => Whole(f) = f
<1>1. \A y \in Frames : /\ Append(f, y) \in Seq(Frames) /\ Append(f, y) # << >>
                        /\ Len(Append(f, y)) = Len(f) + 1
                        /\ \A i \in 1..Len(f) : Append(f, y)[i] = f[i]
                        /\ Append(f, y)[Len(f) + 1] = y
  BY AppendProperties
<1>2. Len(f) \in Nat
  BY LenProperties
<1>3. Whole(Append(f, Torn)) = f
  <2>1. Whole(Append(f, Torn)) = SubSeq(Append(f, Torn), 1, Len(f))
    BY <1>1, <1>2, TornTyped DEF Whole
  <2>2. SubSeq(Append(f, Torn), 1, Len(f)) = f
    <3> DEFINE g == Append(f, Torn)
    <3>1. \A i \in 1..Len(f) : g[i] \in Frames /\ g[i] = f[i]
      BY <1>1, TornTyped, ElementOfSeq
    <3> HIDE DEF g
    <3>2. /\ SubSeq(g, 1, Len(f)) \in Seq(Frames)
          /\ Len(SubSeq(g, 1, Len(f))) = Len(f)
          /\ \A i \in 1..Len(f) : SubSeq(g, 1, Len(f))[i] = f[i]
      BY <1>2, <3>1, SubSeqProperties
    <3>3. SubSeq(g, 1, Len(f)) = f
      BY <3>2, SeqEqual
    <3> QED BY <3>3 DEF g
  <2> QED BY <2>1, <2>2
<1>4. x.type # "Torn" => Whole(Append(f, x)) = Append(f, x)
  BY <1>1, <1>2 DEF Whole
<1>5. Whole(f) \in Seq(Frames)
  <2>1. \A i \in 1..(Len(f) - 1) : f[i] \in Frames
    BY <1>2, ElementOfSeq
  <2>2. SubSeq(f, 1, Len(f) - 1) \in Seq(Frames)
    BY <1>2, <2>1, SubSeqProperties
  <2> QED BY <2>2 DEF Whole
<1>6. f # << >> /\ WellFormed(f) => Whole(f) = f
  <2> SUFFICES ASSUME f # << >>, WellFormed(f) PROVE f[Len(f)].type # "Torn"
    BY DEF Whole
  <2> DEFINE n == Len(f)
  <2>1. n \in Nat \ {0}
    BY ReplaysSteps
  <2> HIDE DEF n
  <2>2. n = 1 \/ n \in 2..n
    BY <2>1
  <2> QED BY <2>2 DEF WellFormed, Continuous, Change, n
<1> QED BY <1>3, <1>4, <1>5, <1>6

\* A snapshot has no torn tail.
LEMMA WholeOne ==
    ASSUME NEW x \in Frames, x.type # "Torn"
    PROVE  Whole(<<x>>) = <<x>>
BY ReplayOne DEF Whole

-----------------------------------------------------------------------------
(* No epoch is handed out twice, whatever fails                            *)

\* Who opens f, if that succeeds, finds the epoch n recorded.
Knows(f, n) == WellFormed(Whole(f)) => n <= HighWater(Replay(Whole(f)))

\* A file begins with a snapshot, whatever follows.
Begun(f) == f \in Seq(Frames) /\ f # << >> /\ f[1].type = "Snapshot"

TypeInv ==
    /\ file \in Seq(Frames) /\ mem \in Content
    /\ gen \in Nat /\ next \in Nat /\ records \in Nat /\ identity \in Nat

\* What the last caller acted under is in memory while the store is open, and
\* in any file that opens; a file that does not open stays that way until a
\* compaction writes the memory in its place.
FreshInv ==
    /\ TypeInv
    /\ file = << >> => identity = 0 /\ ~ open
    /\ file # << >> => Begun(file) /\ Knows(file, identity)
    /\ open => identity <= mem.fence.epoch

\* Parts of a file that was begun.
LEMMA BegunFacts ==
    ASSUME NEW f, Begun(f)
    PROVE  /\ Begun(Whole(f))
           /\ \A x \in Frames : Begun(Append(f, x))
<1>1. f \in Seq(Frames) /\ f # << >> /\ Len(f) \in Nat \ {0}
  BY ReplaysSteps DEF Begun
<1>2. ASSUME NEW x \in Frames PROVE Begun(Append(f, x))
  <2>1. /\ Append(f, x) \in Seq(Frames) /\ Append(f, x) # << >>
        /\ \A i \in 1..Len(f) : Append(f, x)[i] = f[i]
    BY <1>1, AppendProperties
  <2>2. Append(f, x)[1] = f[1]
    BY <1>1, <2>1
  <2> QED BY <2>1, <2>2 DEF Begun
<1>3. Begun(Whole(f))
  <2>1. CASE f[Len(f)].type = "Torn"
    <3> DEFINE n == Len(f)
               g == SubSeq(f, 1, n - 1)
    <3>1. Whole(f) = g
      BY <1>1, <2>1 DEF Whole
    <3>2. n # 1 /\ n \in Nat \ {0}
      BY <1>1, <2>1 DEF Begun
    <3>3. \A i \in 1..(n - 1) : f[i] \in Frames
      BY <1>1, ElementOfSeq
    <3> HIDE DEF n
    <3>4. g \in Seq(Frames) /\ Len(g) = n - 1 /\ g[1] = f[1]
      BY <3>2, <3>3, SubSeqProperties
    <3>5. g # << >>
      <4>1. Len(g) # 0 /\ Len(<< >>) = 0
        BY <3>2, <3>4
      <4> QED BY <4>1
    <3> QED BY <3>1, <3>4, <3>5 DEF Begun
  <2>2. CASE f[Len(f)].type # "Torn"
    BY <2>2 DEF Whole
  <2> QED BY <2>1, <2>2
<1> QED BY <1>2, <1>3

\* A snapshot is a file that knows the epochs of its document.
LEMMA SnapshotKnows ==
    ASSUME NEW d \in Content, NEW generation \in Nat, NEW n \in Nat, n <= d.fence.epoch
    PROVE  Begun(<<Snapshot(d, generation)>>) /\ Knows(<<Snapshot(d, generation)>>, n)
<1> DEFINE x == Frame("Snapshot", 1, generation, d)
<1>1. x \in Frames /\ x.type = "Snapshot" /\ x.body = d
  <2>1. "Snapshot" \in Type /\ d \in BodyOf("Snapshot")
    BY DEF Type, BodyOf
  <2> QED BY <2>1, FrameTyped
<1>2. Snapshot(d, generation) = x
  BY DEF Snapshot
<1> HIDE DEF x
<1>3. Whole(<<x>>) = <<x>> /\ Replay(<<x>>) = d /\ Begun(<<x>>)
  BY <1>1, WholeOne, ReplayOne DEF Begun
<1>4. n <= HighWater(d)
  <2>1. d.fence.epoch \in Nat /\ HighWater(d) \in Nat /\ d.fence.epoch <= HighWater(d)
    BY ContentFields, HighWaterBounds
  <2> QED BY <2>1
<1> QED BY <1>2, <1>3, <1>4 DEF Knows

\* What an append leaves on disk knows what was known, and a fence or a boot
\* that was recorded as a whole.
LEMMA AppendKnows ==
    ASSUME NEW f, NEW n \in Nat, Begun(f), Knows(f, n), NEW type \in Change,
           NEW body \in BodyOf(type), NEW seq \in Nat, NEW generation \in Nat,
           type = "Fence" => n <= body.epoch,
           NEW m \in Nat, type = "Fence" => m = body.epoch,
           type = "Boot" => m = n \/ m = body, type \notin {"Fence", "Boot"} => m = n
    PROVE  /\ Begun(Append(f, Torn)) /\ Knows(Append(f, Torn), n)
           /\ Begun(Append(f, Frame(type, seq, generation, body)))
           /\ Knows(Append(f, Frame(type, seq, generation, body)), m)
<1> DEFINE x == Frame(type, seq, generation, body)
           g == Append(f, x)
<1>1. x \in Frames /\ x.type = type /\ x.body = body /\ type # "Torn"
  BY FrameTyped DEF Type, Change
<1>2. f \in Seq(Frames) /\ f # << >>
  BY DEF Begun
<1>3. WellFormed(f) => n <= HighWater(Replay(f))
  BY <1>2, TornTyped, WholeFacts DEF Knows
<1>4. Whole(Append(f, Torn)) = f /\ Begun(Append(f, Torn)) /\ Knows(Append(f, Torn), n)
  BY <1>2, <1>3, TornTyped, WholeFacts, BegunFacts DEF Knows
<1>5. Whole(g) = g /\ Begun(g)
  <2> HIDE DEF x
  <2> QED BY <1>1, <1>2, WholeFacts, BegunFacts
<1>6. ASSUME WellFormed(g) PROVE m <= HighWater(Replay(g))
  <2> DEFINE d == Replay(f)
             h == HighWater(Applied(d, type, body))
  <2> HIDE DEF x
  <2>1. WellFormed(f) /\ Applicable(d, type, body)
    BY <1>1, <1>2, <1>6, WellFormedAppend
  <2>2. d \in Content /\ n <= HighWater(d) /\ HighWater(d) \in Nat
    BY <1>2, <1>3, <2>1, WellFormedReplay, HighWaterBounds
  <2>3. Replay(g) = Applied(d, type, body)
    BY <1>1, <1>2, ReplayAppend
  <2> HIDE DEF d, g
  <2>4. Applied(d, type, body) \in Content
    BY <2>1, <2>2, AppliedTyped DEF Applicable
  <2>5. /\ type = "Boot" => h >= HighWater(d) /\ h >= body
        /\ type = "Fence" => h >= body.epoch
        /\ type \notin {"Boot", "Fence"} => h = HighWater(d)
    BY <2>1, <2>2, HighWaterApplied DEF Applicable
  <2>6. h \in Nat
    BY <2>4, HighWaterBounds
  <2>7. m <= h
    <3> DEFINE w == HighWater(d)
    <3>1. w \in Nat /\ n <= w
      BY <2>2
    <3> HIDE DEF h, w
    <3>2. CASE type = "Fence"
      BY <2>5, <2>6, <3>2
    <3>3. CASE type = "Boot"
      BY <2>5, <2>6, <3>1, <3>3 DEF w
    <3>4. CASE type \notin {"Fence", "Boot"}
      BY <2>5, <2>6, <3>1, <3>4 DEF w
    <3> QED BY <3>2, <3>3, <3>4
  <2> QED BY <2>3, <2>7
<1>7. Knows(g, m)
  BY <1>5, <1>6 DEF Knows
<1> QED BY <1>4, <1>5, <1>7

\* The file that the next append continues knows what was known.
LEMMA TargetKnows ==
    ASSUME FreshInv, open
    PROVE  /\ Begun(Target.file) /\ Knows(Target.file, identity)
           /\ Target.gen \in Nat /\ Target.next \in Nat /\ Target.records \in Nat
<1>1. CASE Compacting
  <2>1. gen + 1 \in Nat
    BY DEF FreshInv, TypeInv
  <2>2. Begun(<<Snapshot(mem, gen + 1)>>) /\ Knows(<<Snapshot(mem, gen + 1)>>, identity)
    BY <2>1, SnapshotKnows DEF FreshInv, TypeInv
  <2>3. /\ Target.file = <<Snapshot(mem, gen + 1)>> /\ Target.gen = gen + 1
        /\ Target.next = 2 /\ Target.records = 1
    BY <1>1 DEF Target
  <2> QED BY <2>1, <2>2, <2>3
<1>2. CASE ~ Compacting
  BY <1>2 DEF Target, FreshInv, TypeInv
<1> QED BY <1>1, <1>2

\* A change of the document in memory keeps it a document, whatever findings
\* it forgets, and sets the fence only if it is one.
LEMMA RememberedTyped ==
    ASSUME NEW d \in Content, NEW type \in Change, NEW body \in BodyOf(type),
           type = "Note" => body \in DOMAIN d.boots
    PROVE  /\ Remembered(d, type, body) \in Content
           /\ Remembered(d, type, body).fence = IF type = "Fence" THEN body ELSE d.fence
<1> DEFINE after == Applied(d, type, body)
           s == after.findings
           surplus == Len(s) - MaxFindings
           cut == SubSeq(s, surplus + 1, Len(s))
<1>1. after \in Content /\ after.fence = IF type = "Fence" THEN body ELSE d.fence
  <2>1. after \in Content
    BY AppliedTyped
  <2>2. after.fence = IF type = "Fence" THEN body ELSE d.fence
    BY DEF Applied, Change, Content
  <2> QED BY <2>1, <2>2
<1>2. s \in Seq(Entry)
  BY <1>1, ContentFields
<1>3. MaxFindings \in Nat
  BY JournalAssumption
<1>4. surplus > 0 => cut \in Seq(Entry)
  <2> SUFFICES ASSUME surplus > 0 PROVE cut \in Seq(Entry)
    OBVIOUS
  <2>1. Len(s) \in Nat /\ \A i \in 1..Len(s) : s[i] \in Entry
    BY <1>2, LenProperties, ElementOfSeq
  <2>2. surplus + 1 \in Int /\ \A i \in (surplus + 1)..Len(s) : i \in 1..Len(s)
    BY <1>3, <2>1
  <2> HIDE DEF s, surplus
  <2> QED BY <2>1, <2>2, SubSeqProperties
<1>5. CASE type = "Upsert" /\ surplus > 0
  <2>1. Remembered(d, type, body) = [after EXCEPT !.findings = cut]
    BY <1>5 DEF Remembered
  <2> HIDE DEF after, cut
  <2> QED BY <1>1, <1>4, <1>5, <2>1 DEF Content
<1>6. CASE ~ (type = "Upsert" /\ surplus > 0)
  <2>1. Remembered(d, type, body) = after
    BY <1>6 DEF Remembered
  <2> QED BY <1>1, <2>1
<1> QED BY <1>5, <1>6

\* When the process ends, what is on disk is all that counts.
LEMMA EndedFresh ==
    ASSUME FreshInv, Ended, file' # << >>, Begun(file'), Knows(file', identity)
    PROVE  FreshInv'
<1>1. FirstContent \in Content
  <2>1. <<[epoch |-> 1, clean |-> FALSE]>> \in Seq(Boot)
    BY DEF Boot
  <2>2. << >> \in Seq(Entry)
    OBVIOUS
  <2> QED BY <2>1, <2>2 DEF FirstContent, Content
<1>2. mem' = FirstContent /\ gen' = 1 /\ next' = 1 /\ records' = 0 /\ identity' = identity
      /\ ~ open'
  BY DEF Ended
<1>3. TypeInv'
  BY <1>1, <1>2 DEF TypeInv, FreshInv, Begun
<1> QED BY <1>2, <1>3 DEF FreshInv

\* An append keeps the invariant, however it ends.
LEMMA AppendFresh ==
    ASSUME FreshInv, NEW type \in Change \ {"Boot", "Note"}, NEW body \in BodyOf(type),
           type = "Fence" => body.epoch >= mem.fence.epoch,
           NEW holding, AppendPayload(type, body, holding)
    PROVE  FreshInv'
<1> DEFINE frame == Frame(type, Target.next, Target.gen, body)
           m == IF type = "Fence" THEN body.epoch ELSE identity
<1>1. open /\ mem \in Content /\ identity \in Nat /\ identity <= mem.fence.epoch
      /\ mem.fence.epoch \in Nat /\ gen \in Nat /\ next \in Nat /\ records \in Nat
  BY ContentFields DEF AppendPayload, FreshInv, TypeInv
<1>2. /\ Begun(Target.file) /\ Knows(Target.file, identity)
      /\ Target.gen \in Nat /\ Target.next \in Nat /\ Target.records \in Nat
  BY <1>1, TargetKnows
<1>3. type = "Fence" => body.epoch \in Nat /\ identity <= body.epoch
  BY <1>1 DEF BodyOf, Fence
<1>4. m \in Nat
  BY <1>1, <1>3
<1>5. /\ Begun(Append(Target.file, Torn)) /\ Knows(Append(Target.file, Torn), identity)
      /\ Begun(Append(Target.file, frame)) /\ Knows(Append(Target.file, frame), identity)
      /\ Knows(Append(Target.file, frame), m)
  <2> DEFINE f == Target.file
             q == Target.next
             g == Target.gen
  <2>1. Begun(f) /\ Knows(f, identity) /\ q \in Nat /\ g \in Nat
    BY <1>2
  <2> HIDE DEF f, q, g
  <2>2. /\ Begun(Append(f, Torn)) /\ Knows(Append(f, Torn), identity)
        /\ Begun(Append(f, Frame(type, q, g, body)))
        /\ Knows(Append(f, Frame(type, q, g, body)), m)
    BY <1>1, <1>3, <1>4, <2>1, AppendKnows
  <2>3. Knows(Append(f, Frame(type, q, g, body)), identity)
    <3>1. CASE type = "Fence"
      <4> DEFINE h == HighWater(Replay(Whole(Append(f, Frame(type, q, g, body)))))
      <4> SUFFICES ASSUME WellFormed(Whole(Append(f, Frame(type, q, g, body))))
                   PROVE  identity <= h
        BY DEF Knows
      <4>1. body.epoch <= h
        BY <2>2, <3>1 DEF Knows
      <4>2. h \in Nat
        <5> DEFINE w == Whole(Append(f, Frame(type, q, g, body)))
        <5>1. Begun(w) /\ WellFormed(w)
          BY <2>2, BegunFacts
        <5> HIDE DEF w
        <5>2. HighWater(Replay(w)) \in Nat
          BY <5>1, WellFormedReplay, HighWaterBounds DEF Begun
        <5> QED BY <5>2 DEF w
      <4> HIDE DEF h
      <4> QED BY <1>1, <1>3, <3>1, <4>1, <4>2
    <3>2. CASE type # "Fence"
      BY <2>2, <3>2
    <3> QED BY <3>1, <3>2
  <2> QED BY <2>2, <2>3 DEF f, q, g
<1>6. ASSUME file' \in Remnants(Target.file, frame)
      PROVE  file' # << >> /\ Begun(file') /\ Knows(file', identity)
  BY <1>2, <1>5, <1>6 DEF Remnants, Begun
<1>7. CASE /\ file' = Append(Target.file, frame)
           /\ gen' = Target.gen /\ next' = Target.next + 1
           /\ records' = Target.records + 1
           /\ mem' = Remembered(mem, type, body)
           /\ identity' = IF type = "Fence" THEN body.epoch ELSE identity
           /\ UNCHANGED open
  <2>1. mem' \in Content /\ mem'.fence = IF type = "Fence" THEN body ELSE mem.fence
    BY <1>1, <1>7, RememberedTyped
  <2>2. identity' = m /\ identity' <= mem'.fence.epoch
    BY <1>1, <1>3, <1>7, <2>1
  <2>3. gen' \in Nat /\ next' \in Nat /\ records' \in Nat
    BY <1>2, <1>7
  <2>4. file' # << >> /\ Begun(file') /\ Knows(file', identity')
    BY <1>5, <1>7, <2>2 DEF Begun
  <2>5. TypeInv'
    BY <1>4, <2>1, <2>2, <2>3, <2>4 DEF TypeInv, Begun
  <2> QED BY <2>2, <2>4, <2>5 DEF FreshInv
<1>8. CASE file' \in Remnants(Target.file, frame) /\ Ended
  BY <1>6, <1>8, EndedFresh
<1>9. CASE /\ file' \in Remnants(Target.file, frame)
           /\ gen' = Target.gen /\ next' = Target.next
           /\ records' = Target.records
           /\ UNCHANGED <<open, mem, identity>>
  <2>1. file' # << >> /\ Begun(file') /\ Knows(file', identity')
    BY <1>6, <1>9
  <2>2. TypeInv'
    BY <1>1, <1>2, <1>9, <2>1 DEF TypeInv, Begun
  <2> QED BY <1>1, <1>9, <2>1, <2>2 DEF FreshInv
<1>10. CASE gen' = gen + 1 /\ UNCHANGED <<file, open, mem, next, records, identity>>
  <2>1. TypeInv'
    BY <1>1, <1>10 DEF TypeInv, FreshInv
  <2> QED BY <1>10, <2>1 DEF FreshInv
<1> QED BY <1>7, <1>8, <1>9, <1>10 DEF AppendPayload

\* What the bodies of the changes the callers ask for are.
LEMMA Bodies ==
    /\ \A n \in Nat : n \in BodyOf("Topology") /\ n \in BodyOf("Policy")
    /\ \A n \in Nat : n \in BodyOf("Lineage") /\ n \in BodyOf("Note") /\ n \in BodyOf("Boot")
    /\ \A key \in Key : key \in BodyOf("Upsert") /\ key \in BodyOf("Withdraw")
    /\ \A fence \in [generation : 1..MaxFence, epoch : 1..MaxEpoch] :
            fence \in BodyOf("Fence")
    /\ {"Topology", "Policy", "Lineage", "Upsert", "Withdraw", "Fence"}
            \subseteq Change \ {"Boot", "Note"}
    /\ {"Boot", "Note"} \subseteq Change
    /\ 1..MaxDefinition \subseteq Nat
<1>1. /\ \A n \in Nat : n \in BodyOf("Topology") /\ n \in BodyOf("Policy")
      /\ \A n \in Nat : n \in BodyOf("Lineage") /\ n \in BodyOf("Note") /\ n \in BodyOf("Boot")
      /\ \A key \in Key : key \in BodyOf("Upsert") /\ key \in BodyOf("Withdraw")
  BY DEF BodyOf
<1>2. /\ MaxFence \in Nat /\ MaxEpoch \in Nat /\ MaxDefinition \in Nat
  BY JournalAssumption
<1>3. \A fence \in [generation : 1..MaxFence, epoch : 1..MaxEpoch] : fence \in BodyOf("Fence")
  BY <1>2 DEF BodyOf, Fence
<1>4. /\ {"Topology", "Policy", "Lineage", "Upsert", "Withdraw", "Fence"}
            \subseteq Change \ {"Boot", "Note"}
      /\ {"Boot", "Note"} \subseteq Change
  BY DEF Change
<1>5. 1..MaxDefinition \subseteq Nat
  BY <1>2
<1> QED BY <1>1, <1>3, <1>4, <1>5

\* The operations that append the change a caller asks for.
Calls ==
    \/ \E generation \in 1..MaxDefinition : SetTopology(generation)
    \/ \E generation \in 1..MaxDefinition : SetPolicy(generation)
    \/ \E fence \in [generation : 1..MaxFence, epoch : 1..MaxEpoch] :
          AdvanceFence(fence)
    \/ AppendLineage
    \/ \E key \in Key : UpsertFinding(key)
    \/ \E key \in Key : WithdrawFinding(key)

\* What such a change is, and which findings the caller holds after it.
Asked(type, body) ==
    /\ type \in Change \ {"Boot", "Note"} /\ body \in BodyOf(type)
    /\ type = "Topology" => body > mem.topology
    /\ type = "Policy" => body >= mem.policy
    /\ type = "Lineage" => body > mem.lineage
    /\ type = "Fence" => /\ body.generation >= mem.fence.generation
                         /\ body.epoch >= mem.fence.epoch
                         /\ body.epoch <= MaxEpoch
    /\ type = "Withdraw" => body \in held

Holding(type, body) == IF type = "Upsert" THEN held \cup {body} ELSE held

\* Each of the operations is an append of one.
LEMMA CallsAreAppends ==
    ASSUME mem \in Content, Calls
    PROVE  \E type, body : /\ Asked(type, body)
                           /\ AppendPayload(type, body, Holding(type, body))
<1>1. ASSUME NEW generation \in 1..MaxDefinition, SetTopology(generation)
      PROVE  /\ Asked("Topology", generation)
             /\ AppendPayload("Topology", generation, Holding("Topology", generation))
  BY <1>1, Bodies DEF SetTopology, Asked, Holding
<1>2. ASSUME NEW generation \in 1..MaxDefinition, SetPolicy(generation)
      PROVE  /\ Asked("Policy", generation)
             /\ AppendPayload("Policy", generation, Holding("Policy", generation))
  BY <1>2, Bodies DEF SetPolicy, Asked, Holding
<1>3. ASSUME NEW fence \in [generation : 1..MaxFence, epoch : 1..MaxEpoch],
             AdvanceFence(fence)
      PROVE  Asked("Fence", fence) /\ AppendPayload("Fence", fence, Holding("Fence", fence))
  <2>1. fence.epoch <= MaxEpoch
    BY JournalAssumption
  <2> QED BY <1>3, <2>1, Bodies DEF AdvanceFence, Asked, Holding
<1>4. ASSUME AppendLineage
      PROVE  /\ Asked("Lineage", mem.lineage + 1)
             /\ AppendPayload("Lineage", mem.lineage + 1, Holding("Lineage", mem.lineage + 1))
  <2>1. mem.lineage + 1 \in Nat /\ mem.lineage + 1 > mem.lineage
    BY ContentFields
  <2> QED BY <1>4, <2>1, Bodies DEF AppendLineage, Asked, Holding
<1>5. ASSUME NEW key \in Key, UpsertFinding(key)
      PROVE  Asked("Upsert", key) /\ AppendPayload("Upsert", key, Holding("Upsert", key))
  BY <1>5, Bodies DEF UpsertFinding, Asked, Holding
<1>6. ASSUME NEW key \in Key, WithdrawFinding(key)
      PROVE  Asked("Withdraw", key) /\ AppendPayload("Withdraw", key, Holding("Withdraw", key))
  BY <1>6, Bodies DEF WithdrawFinding, Asked, Holding
<1> QED BY <1>1, <1>2, <1>3, <1>4, <1>5, <1>6 DEF Calls

\* What an open finds, if the file is accepted.
LEMMA OpenFinds ==
    ASSUME FreshInv, file # << >>, WellFormed(Whole(file))
    PROVE  /\ Begun(Whole(file)) /\ Whole(Whole(file)) = Whole(file)
           /\ Len(Whole(file)) \in Nat /\ Whole(file)[1].gen \in Nat
           /\ Replay(Whole(file)) \in Content
           /\ HighWater(Replay(Whole(file))) \in Nat
           /\ identity <= HighWater(Replay(Whole(file)))
<1>1. Begun(Whole(file))
  BY BegunFacts DEF FreshInv
<1> DEFINE w == Whole(file)
<1>2. identity <= HighWater(Replay(w))
  BY DEF FreshInv, Knows
<1> HIDE DEF w
<1>3. w \in Seq(Frames) /\ w # << >> /\ WellFormed(w)
  BY <1>1 DEF Begun, w
<1>4. Len(w) \in Nat \ {0}
  BY <1>3, ReplaysSteps
<1>5. Replay(w) \in Content /\ HighWater(Replay(w)) \in Nat
  BY <1>3, WellFormedReplay, HighWaterBounds
<1>6. Whole(w) = w
  BY <1>3, TornTyped, WholeFacts
<1>7. w[1] \in Frames
  BY <1>3, <1>4, ElementOfSeq
<1>8. w[1].gen \in Nat
  BY <1>7, FrameFields
<1> QED BY <1>1, <1>2, <1>4, <1>5, <1>6, <1>8 DEF w

\* A boot leaves the old file or one that has the new epoch.
LEMMA OpenFresh ==
    ASSUME FreshInv, Open
    PROVE  FreshInv' /\ (open' => identity' > identity)
<1> DEFINE whole == Whole(file)
           doc == Replay(whole)
           epoch == HighWater(doc) + 1
           seq == Len(whole) + 1
           generation == whole[1].gen
           boot == Frame("Boot", seq, generation, epoch)
<1>1. /\ ~ open /\ file # << >> /\ WellFormed(whole)
      /\ \/ /\ file' = Append(whole, boot)
            /\ open' = TRUE
            /\ mem' = [Applied(doc, "Boot", epoch) EXCEPT !.fence.epoch = epoch]
            /\ gen' = generation
            /\ next' = Len(whole) + 2
            /\ records' = Len(whole) + 1
            /\ identity' = epoch
         \/ file' \in Remnants(whole, boot) /\ Ended
  BY DEF Open, Minted
<1>2. /\ Begun(whole) /\ Whole(whole) = whole
      /\ Len(whole) \in Nat /\ generation \in Nat
      /\ doc \in Content /\ HighWater(doc) \in Nat /\ identity <= HighWater(doc)
  BY <1>1, OpenFinds
<1>3. identity \in Nat
  BY DEF FreshInv, TypeInv
<1>4. epoch \in Nat /\ seq \in Nat /\ identity < epoch
  BY <1>2, <1>3
<1>5. Knows(whole, identity)
  BY <1>2 DEF Knows
<1>6. "Boot" \in Change /\ epoch \in BodyOf("Boot")
  BY <1>4, Bodies
<1> HIDE DEF epoch, seq, generation, doc, whole
<1>7. /\ Begun(Append(whole, Torn)) /\ Knows(Append(whole, Torn), identity)
      /\ Begun(Append(whole, boot)) /\ Knows(Append(whole, boot), identity)
      /\ Knows(Append(whole, boot), epoch)
  BY <1>2, <1>3, <1>4, <1>5, <1>6, AppendKnows
<1>8. CASE file' \in Remnants(whole, boot) /\ Ended
  <2>1. file' # << >> /\ Begun(file') /\ Knows(file', identity)
    BY <1>2, <1>5, <1>7, <1>8 DEF Remnants, Begun
  <2> QED BY <1>8, <2>1, EndedFresh DEF Ended
<1>9. CASE /\ file' = Append(whole, boot)
           /\ mem' = [Applied(doc, "Boot", epoch) EXCEPT !.fence.epoch = epoch]
           /\ gen' = generation
           /\ next' = Len(whole) + 2
           /\ records' = Len(whole) + 1
           /\ identity' = epoch
  <2>1. Applied(doc, "Boot", epoch) \in Content
    BY <1>2, <1>6, AppliedTyped
  <2>2. mem' \in Content /\ mem'.fence.epoch = epoch
    <3> DEFINE d == Applied(doc, "Boot", epoch)
    <3> HIDE DEF d
    <3>1. [d EXCEPT !.fence.epoch = epoch] \in Content
          /\ [d EXCEPT !.fence.epoch = epoch].fence.epoch = epoch
      BY <1>4, <2>1 DEF d, Content
    <3> QED BY <1>9, <3>1 DEF d
  <2>3. file' # << >> /\ Begun(file') /\ Knows(file', identity')
    BY <1>7, <1>9 DEF Begun
  <2>4. TypeInv'
    BY <1>2, <1>4, <1>9, <2>2, <2>3 DEF TypeInv, Begun
  <2>5. identity' <= mem'.fence.epoch
    BY <1>4, <1>9, <2>2
  <2>6. FreshInv'
    BY <2>3, <2>4, <2>5 DEF FreshInv
  <2> QED BY <1>4, <1>9, <2>6
<1> QED BY <1>1, <1>8, <1>9

\* The first snapshot has the first epoch.
LEMMA CreateFresh ==
    ASSUME FreshInv, Create
    PROVE  FreshInv' /\ (open' => identity' > identity)
<1>1. FirstContent \in Content /\ FirstContent.fence.epoch = 1
  <2>1. <<[epoch |-> 1, clean |-> FALSE]>> \in Seq(Boot)
    BY DEF Boot
  <2>2. << >> \in Seq(Entry)
    OBVIOUS
  <2> QED BY <2>1, <2>2 DEF FirstContent, Content
<1>2. /\ Begun(<<Snapshot(FirstContent, 1)>>)
      /\ Knows(<<Snapshot(FirstContent, 1)>>, 0) /\ Knows(<<Snapshot(FirstContent, 1)>>, 1)
  BY <1>1, SnapshotKnows
<1>3. file = << >> /\ identity = 0 /\ file' = <<Snapshot(FirstContent, 1)>>
  BY DEF Create, FreshInv
<1>4. file' # << >> /\ Begun(file')
  BY <1>2, <1>3 DEF Begun
<1>5. CASE Ended
  BY <1>2, <1>3, <1>4, <1>5, EndedFresh DEF Ended
<1>6. CASE /\ mem' = FirstContent /\ gen' = 1 /\ next' = 2 /\ records' = 1
           /\ identity' = 1
  <2>1. TypeInv'
    BY <1>1, <1>4, <1>6 DEF TypeInv, Begun
  <2>2. Knows(file', identity') /\ identity' <= mem'.fence.epoch
    BY <1>1, <1>2, <1>3, <1>6
  <2> QED BY <1>3, <1>4, <1>6, <2>1, <2>2 DEF FreshInv
<1> QED BY <1>5, <1>6 DEF Create

\* A compaction writes what the memory knows.
LEMMA CompactFresh ==
    ASSUME FreshInv, Compact
    PROVE  FreshInv'
<1> DEFINE g == <<Snapshot(mem, gen + 1)>>
<1>1. gen + 1 \in Nat /\ open
  BY DEF FreshInv, TypeInv, Compact
<1>2. Begun(g) /\ Knows(g, identity) /\ g # << >>
  BY <1>1, SnapshotKnows DEF FreshInv, TypeInv, Begun
<1>3. CASE file' = g /\ Ended
  BY <1>2, <1>3, EndedFresh
<1>4. CASE /\ file' = g
           /\ gen' = gen + 1 /\ next' = 2 /\ records' = 1
           /\ UNCHANGED <<open, mem, identity>>
  <2>1. TypeInv'
    BY <1>1, <1>2, <1>4 DEF TypeInv, FreshInv, Begun
  <2> QED BY <1>2, <1>4, <2>1 DEF FreshInv
<1>5. CASE gen' = gen + 1 /\ UNCHANGED <<file, open, mem, next, records, identity>>
  <2>1. TypeInv'
    BY <1>1, <1>5 DEF TypeInv, FreshInv
  <2> QED BY <1>5, <2>1 DEF FreshInv
<1> QED BY <1>3, <1>4, <1>5 DEF Compact

\* The shutdown marker of a boot records no epoch.
LEMMA CloseFresh ==
    ASSUME FreshInv, Close
    PROVE  FreshInv'
<1> DEFINE f == Target.file
           q == Target.next
           g == Target.gen
           n == Len(mem.boots)
           frame == Frame("Note", q, g, n)
<1>1. open /\ Ended /\ (file' \in Remnants(f, frame) \/ UNCHANGED file)
  BY DEF Close
<1>2. Begun(f) /\ Knows(f, identity) /\ q \in Nat /\ g \in Nat
  BY <1>1, TargetKnows
<1>3. n \in Nat /\ identity \in Nat
  BY ContentFields, BootEpochs DEF FreshInv, TypeInv
<1>4. "Note" \in Change /\ n \in BodyOf("Note")
  BY <1>3, Bodies
<1> HIDE DEF f, q, g, n
<1>5. /\ Begun(Append(f, Torn)) /\ Knows(Append(f, Torn), identity)
      /\ Begun(Append(f, frame)) /\ Knows(Append(f, frame), identity)
  BY <1>2, <1>3, <1>4, AppendKnows
<1>6. file' # << >> /\ Begun(file') /\ Knows(file', identity)
  BY <1>1, <1>2, <1>5 DEF Remnants, Begun, FreshInv
<1> QED BY <1>1, <1>6, EndedFresh

\* No step loses an epoch, and the store opens under a new one.
LEMMA StepsAreFresh ==
    ASSUME FreshInv, [Next]_vars
    PROVE  FreshInv' /\ (~ open /\ open' => identity' > identity)
<1>1. CASE Calls
  <2>1. PICK type, body : /\ Asked(type, body)
                          /\ AppendPayload(type, body, Holding(type, body))
    BY <1>1, CallsAreAppends DEF FreshInv, TypeInv
  <2>2. open
    BY <2>1 DEF AppendPayload
  <2>3. FreshInv'
    BY <2>1, AppendFresh DEF Asked
  <2> QED BY <2>2, <2>3
<1>2. CASE Create
  BY <1>2, CreateFresh
<1>3. CASE Open
  BY <1>3, OpenFresh
<1>4. CASE Compact
  BY <1>4, CompactFresh DEF Compact
<1>5. CASE Close
  BY <1>5, CloseFresh DEF Close
<1>6. CASE Crash
  BY <1>6, EndedFresh DEF Crash, FreshInv
<1>7. CASE UNCHANGED vars
  BY <1>7 DEF vars, FreshInv, TypeInv
<1> QED BY <1>1, <1>2, <1>3, <1>4, <1>5, <1>6, <1>7 DEF Next, Calls

\* It holds of the store that was never opened.
LEMMA InitIsFresh == Init => FreshInv
<1> SUFFICES ASSUME Init PROVE FreshInv
  OBVIOUS
<1>1. FirstContent \in Content
  <2>1. <<[epoch |-> 1, clean |-> FALSE]>> \in Seq(Boot)
    BY DEF Boot
  <2>2. << >> \in Seq(Entry)
    OBVIOUS
  <2> QED BY <2>1, <2>2 DEF FirstContent, Content
<1>2. << >> \in Seq(Frames)
  OBVIOUS
<1> QED BY <1>1, <1>2 DEF Init, FreshInv, TypeInv

\* The invariant holds, even if writes fail, whole or in part, or replaces do.
THEOREM FreshInvariance == Spec => []FreshInv
<1>1. FreshInv /\ [Next]_vars => FreshInv'
  BY StepsAreFresh
<1> QED BY <1>1, InitIsFresh, PTL DEF Spec

\* No epoch a caller acted under is handed out again: not after crashes, torn
\* writes or compactions, nor when writes or replaces fail and the process
\* goes on, nor when findings are dropped.
THEOREM IdentityIsAlwaysFresh == Spec => IdentityIsFresh
<1>1. FreshInv /\ [Next]_vars => [~ open /\ open' => identity' > identity]_vars
  BY StepsAreFresh
<1> QED BY <1>1, FreshInvariance, PTL DEF Spec, IdentityIsFresh

-----------------------------------------------------------------------------
(* The document, if no write fails while the process goes on               *)

\* Errors end the process before it acts on them, no more findings are named
\* than are retained, and no more incarnations than boots are kept.
Undisturbed ==
    /\ ~ AppendMayFail /\ ~ ReplaceMayFail
    /\ IsFiniteSet(Key) /\ Cardinality(Key) <= MaxFindings
    /\ MaxEpoch <= MaxBoots

\* A document that fits the limits, now and after any change: its findings
\* differ, and its boots have distinct epochs that rise with their places.
Sound(d) ==
    /\ d \in Content
    /\ \A i, j \in DOMAIN d.findings : d.findings[i].key = d.findings[j].key => i = j
    /\ d.boots # << >>
    /\ \A i \in DOMAIN d.boots : i <= d.boots[i].epoch
    /\ HighWater(d) <= MaxBoots

\* Such a document can be written as a snapshot.
LEMMA SoundDecodes ==
    ASSUME Undisturbed, NEW d, Sound(d)
    PROVE  Decodes(d) /\ Len(d.boots) \in DOMAIN d.boots
<1> DEFINE s == d.findings
           key == [i \in 1..Len(s) |-> s[i].key]
           n == Len(d.boots)
<1>1. s \in Seq(Entry) /\ d.boots \in Seq(Boot)
  BY ContentFields DEF Sound
<1>2. Len(s) \in Nat /\ DOMAIN s = 1..Len(s) /\ \A i \in 1..Len(s) : s[i] \in Entry
  BY <1>1, LenProperties, ElementOfSeq
<1>3. key \in Injection(1..Len(s), Key)
  <2>1. \A i \in 1..Len(s) : s[i].key \in Key
    BY <1>2 DEF Entry
  <2>2. key \in [1..Len(s) -> Key]
    BY <2>1
  <2>3. \A i, j \in 1..Len(s) : key[i] = key[j] => i = j
    BY <1>2 DEF Sound
  <2> HIDE DEF key, s
  <2> QED BY <2>2, <2>3 DEF Injection, IsInjective
<1>4. Cardinality(1..Len(s)) <= Cardinality(Key)
  <2> HIDE DEF key, s
  <2> QED BY <1>3, FS_Injection DEF Undisturbed
<1>5. Len(s) <= MaxFindings
  <2> DEFINE l == Len(s)
  <2>1. l \in Nat /\ Cardinality(1..l) <= Cardinality(Key)
    BY <1>2, <1>4
  <2> HIDE DEF l
  <2>2. Cardinality(1..l) = l
    BY <2>1, FS_Interval
  <2>3. l <= MaxFindings
    BY <2>1, <2>2, FS_CardinalityType, JournalAssumption DEF Undisturbed
  <2> QED BY <2>3 DEF l
<1>6. n \in Nat \ {0} /\ DOMAIN d.boots = 1..n
  BY <1>1, EmptySeq, LenProperties DEF Sound
<1> HIDE DEF n
<1>7. n \in DOMAIN d.boots
  BY <1>6
<1>8. n <= d.boots[n].epoch /\ d.boots[n].epoch <= HighWater(d) /\ HighWater(d) <= MaxBoots
  BY <1>7, HighWaterBounds DEF Sound
<1>9. d.boots[n].epoch \in Nat /\ HighWater(d) \in Nat /\ MaxBoots \in Nat
  BY <1>1, <1>7, BootEpochs, HighWaterBounds, JournalAssumption DEF Sound
<1>10. n <= MaxBoots
  BY <1>6, <1>8, <1>9
<1> QED BY <1>5, <1>7, <1>10 DEF Decodes, n

\* A publication of one finding does not duplicate it.
LEMMA UpsertDistinct ==
    ASSUME NEW s \in Seq(Entry), NEW key \in Key,
           \A i, j \in DOMAIN s : s[i].key = s[j].key => i = j
    PROVE  \A i, j \in DOMAIN Upsert(s, key) :
              Upsert(s, key)[i].key = Upsert(s, key)[j].key => i = j
<1> DEFINE entry == [key |-> key, withdrawn |-> FALSE]
           n == Len(s)
<1>1. n \in Nat /\ DOMAIN s = 1..n
  BY LenProperties
<1>2. entry \in Entry /\ entry.key = key
  BY DEF Entry
<1>3. CASE \E i \in DOMAIN s : s[i].key = key
  <2> DEFINE t == [i \in DOMAIN s |-> IF s[i].key = key THEN entry ELSE s[i]]
  <2>1. Upsert(s, key) = t
    BY <1>3 DEF Upsert
  <2>2. DOMAIN t = DOMAIN s /\ \A i \in DOMAIN s : t[i].key = s[i].key
    BY <1>2
  <2> HIDE DEF t
  <2> QED BY <2>1, <2>2
<1>4. CASE ~ \E i \in DOMAIN s : s[i].key = key
  <2> DEFINE t == Append(s, entry)
  <2>1. Upsert(s, key) = t
    BY <1>4 DEF Upsert
  <2>2. /\ t \in Seq(Entry) /\ Len(t) = n + 1
        /\ \A i \in 1..n : t[i] = s[i]
        /\ t[n + 1] = entry
    BY <1>2, AppendProperties
  <2>3. DOMAIN t = 1..(n + 1)
    BY <2>2, LenProperties
  <2> HIDE DEF t, entry, n
  <2>4. \A i \in DOMAIN t : (i \in DOMAIN s /\ t[i].key = s[i].key) \/ (i = n + 1 /\ t[i].key = key)
    BY <1>1, <1>2, <2>2, <2>3
  <2> QED BY <1>4, <2>1, <2>4
<1> QED BY <1>3, <1>4

\* What every change keeps, if boots rise above what was recorded and fences
\* do not fall behind it.
LEMMA SoundApplied ==
    ASSUME NEW d, Sound(d), NEW type \in Change, NEW body \in BodyOf(type),
           type = "Note" => body \in DOMAIN d.boots,
           type = "Boot" => body > HighWater(d) /\ body <= MaxBoots,
           type = "Fence" => body.epoch >= HighWater(d) /\ body.epoch <= MaxBoots
    PROVE  Sound(Applied(d, type, body))
<1> DEFINE a == Applied(d, type, body)
<1>1. d \in Content /\ a \in Content
  BY AppliedTyped DEF Sound
<1>2. /\ a.findings = IF type = "Upsert" THEN Upsert(d.findings, body)
                      ELSE IF type = "Withdraw" THEN Withdraw(d.findings, body)
                      ELSE d.findings
      /\ a.boots = IF type = "Boot"
                   THEN Append(d.boots, [epoch |-> body, clean |-> FALSE])
                   ELSE IF type = "Note"
                   THEN [d.boots EXCEPT ![body].clean = TRUE]
                   ELSE d.boots
  BY <1>1, AppliedFields
<1>3. d.findings \in Seq(Entry) /\ d.boots \in Seq(Boot) /\ HighWater(d) \in Nat
  BY <1>1, ContentFields, HighWaterBounds
<1>4. HighWater(a) <= MaxBoots
  <2>1. /\ type = "Boot" => HighWater(a) = body
        /\ type = "Fence" => HighWater(a) = body.epoch
        /\ type \notin {"Boot", "Fence"} => HighWater(a) = HighWater(d)
    BY <1>1, HighWaterApplied
  <2> HIDE DEF a
  <2> QED BY <2>1 DEF Sound
<1> HIDE DEF a
<1>5. \A i, j \in DOMAIN a.findings : a.findings[i].key = a.findings[j].key => i = j
  <2>1. \A i, j \in DOMAIN d.findings : d.findings[i].key = d.findings[j].key => i = j
    BY DEF Sound
  <2>2. CASE type = "Upsert"
    <3>1. body \in Key /\ a.findings = Upsert(d.findings, body)
      BY <1>2, <2>2 DEF BodyOf
    <3> QED BY <1>3, <2>1, <3>1, UpsertDistinct
  <2>3. CASE type = "Withdraw"
    <3>1. body \in Key /\ a.findings = Withdraw(d.findings, body)
      BY <1>2, <2>3 DEF BodyOf
    <3>2. /\ DOMAIN a.findings = DOMAIN d.findings
          /\ \A i \in DOMAIN d.findings : a.findings[i].key = d.findings[i].key
      BY <1>3, <3>1, WithdrawTyped
    <3> QED BY <2>1, <3>2
  <2>4. CASE type \notin {"Upsert", "Withdraw"}
    BY <1>2, <2>1, <2>4
  <2> QED BY <2>2, <2>3, <2>4
<1>6. a.boots # << >> /\ \A i \in DOMAIN a.boots : i <= a.boots[i].epoch
  <2>1. d.boots # << >> /\ \A i \in DOMAIN d.boots : i <= d.boots[i].epoch
    BY DEF Sound
  <2>2. CASE type = "Boot"
    <3> DEFINE n == Len(d.boots)
               boot == [epoch |-> body, clean |-> FALSE]
    <3>1. body \in Nat /\ boot \in Boot /\ boot.epoch = body
      BY <2>2 DEF BodyOf, Boot
    <3>2. a.boots = Append(d.boots, boot)
      BY <1>2, <2>2
    <3>3. n \in Nat \ {0} /\ DOMAIN d.boots = 1..n
      BY <1>3, <2>1, EmptySeq, LenProperties
    <3>4. /\ a.boots \in Seq(Boot) /\ Len(a.boots) = n + 1 /\ a.boots # << >>
          /\ \A i \in 1..n : a.boots[i] = d.boots[i]
          /\ a.boots[n + 1] = boot
      BY <1>3, <3>1, <3>2, AppendProperties
    <3>5. DOMAIN a.boots = 1..(n + 1)
      BY <3>4, LenProperties
    <3> HIDE DEF n, boot
    <3>6. n \in DOMAIN d.boots /\ n <= d.boots[n].epoch /\ d.boots[n].epoch \in Nat
          /\ d.boots[n].epoch <= HighWater(d)
      BY <1>1, <1>3, <2>1, <3>3, BootEpochs, HighWaterBounds
    <3>7. n + 1 <= body
      BY <1>3, <2>2, <3>1, <3>3, <3>6
    <3>8. \A i \in DOMAIN a.boots : i \in DOMAIN d.boots \/ i = n + 1
      BY <3>3, <3>5
    <3> QED BY <2>1, <3>1, <3>3, <3>4, <3>7, <3>8
  <2>3. CASE type = "Note"
    <3>1. body \in DOMAIN d.boots /\ a.boots = [d.boots EXCEPT ![body].clean = TRUE]
      BY <1>2, <2>3
    <3>2. /\ DOMAIN a.boots = DOMAIN d.boots
          /\ \A i \in DOMAIN d.boots : a.boots[i].epoch = d.boots[i].epoch
      BY <1>3, <3>1, NoteTyped
    <3>3. a.boots # << >>
      BY <3>1, <3>2
    <3> QED BY <2>1, <3>2, <3>3
  <2>4. CASE type \notin {"Boot", "Note"}
    BY <1>2, <2>1, <2>4
  <2> QED BY <2>2, <2>3, <2>4
<1> QED BY <1>1, <1>4, <1>5, <1>6 DEF Sound, a

\* The document as its readers see it differs in one epoch.
LEMMA SeenFields ==
    ASSUME NEW d \in Content
    PROVE  /\ Seen(d) \in Content /\ Seen(d).fence.epoch = HighWater(d)
           /\ Seen(d).fence.generation = d.fence.generation
           /\ Seen(d).topology = d.topology /\ Seen(d).policy = d.policy
           /\ Seen(d).lineage = d.lineage
           /\ Seen(d).findings = d.findings /\ Seen(d).boots = d.boots
           /\ HighWater(Seen(d)) = HighWater(d)
           /\ Seen(Seen(d)) = Seen(d)
<1> DEFINE h == HighWater(d)
           e == [d EXCEPT !.fence.epoch = h]
<1>1. h \in Nat
  BY HighWaterBounds
<1>2. Seen(d) = e
  BY DEF Seen
<1> HIDE DEF h
<1>3. /\ e \in Content /\ e.fence.epoch = h /\ e.fence.generation = d.fence.generation
      /\ e.topology = d.topology /\ e.policy = d.policy /\ e.lineage = d.lineage
      /\ e.findings = d.findings /\ e.boots = d.boots
  BY <1>1 DEF Content
<1> HIDE DEF e
<1>4. HighWater(e) = h
  <2>1. Largest(h, e.fence.epoch, e.boots)
    BY <1>1, <1>3, HighWaterBounds DEF Largest, h
  <2> QED BY <1>3, <2>1, HighWaterIs
<1>5. Seen(e) = e
  <2>1. Seen(e) = [e EXCEPT !.fence.epoch = h]
    BY <1>4 DEF Seen
  <2>2. [e EXCEPT !.fence.epoch = h] = e
    BY <1>3 DEF Content
  <2> QED BY <2>1, <2>2
<1> QED BY <1>2, <1>3, <1>4, <1>5 DEF h

\* It is sound if the document is.
LEMMA SeenSound ==
    ASSUME NEW d, Sound(d)
    PROVE  Sound(Seen(d))
<1>1. d \in Content
  BY DEF Sound
<1> QED BY <1>1, SeenFields DEF Sound

\* To a reader, a change of the document is that change of what he sees.
LEMMA SeenApplied ==
    ASSUME NEW d \in Content, NEW type \in Change, NEW body \in BodyOf(type),
           type = "Note" => body \in DOMAIN d.boots,
           type = "Boot" => body > HighWater(d),
           type = "Fence" => body.epoch >= HighWater(d)
    PROVE  /\ type # "Boot" => Seen(Applied(d, type, body)) = Applied(Seen(d), type, body)
           /\ type = "Boot" =>
                Seen(Applied(d, type, body)) = [Applied(d, type, body) EXCEPT !.fence.epoch = body]
           /\ Seen(Applied(d, type, body)) = Seen(Applied(Seen(d), type, body))
<1> DEFINE e == Seen(d)
           a == Applied(d, type, body)
           b == Applied(e, type, body)
<1>1. /\ e \in Content /\ e.fence.epoch = HighWater(d)
      /\ e.fence.generation = d.fence.generation
      /\ e.topology = d.topology /\ e.policy = d.policy /\ e.lineage = d.lineage
      /\ e.findings = d.findings /\ e.boots = d.boots /\ HighWater(e) = HighWater(d)
  BY SeenFields
<1> HIDE DEF e
<1>2. a \in Content /\ b \in Content
  BY <1>1, AppliedTyped
<1>3. /\ a.topology = b.topology /\ a.policy = b.policy /\ a.lineage = b.lineage
      /\ a.findings = b.findings /\ a.boots = b.boots
      /\ a.fence.generation = b.fence.generation
      /\ type # "Fence" => a.fence = d.fence /\ b.fence = e.fence
      /\ type = "Fence" => a.fence = body /\ b.fence = body
  <2>1. /\ a.topology = IF type = "Topology" THEN body ELSE d.topology
        /\ a.policy = IF type = "Policy" THEN body ELSE d.policy
        /\ a.lineage = IF type = "Lineage" THEN body ELSE d.lineage
        /\ a.fence = IF type = "Fence" THEN body ELSE d.fence
        /\ a.findings = IF type = "Upsert" THEN Upsert(d.findings, body)
                         ELSE IF type = "Withdraw" THEN Withdraw(d.findings, body)
                         ELSE d.findings
        /\ a.boots = IF type = "Boot"
                      THEN Append(d.boots, [epoch |-> body, clean |-> FALSE])
                      ELSE IF type = "Note"
                      THEN [d.boots EXCEPT ![body].clean = TRUE]
                      ELSE d.boots
    BY AppliedFields
  <2>2. /\ b.topology = IF type = "Topology" THEN body ELSE e.topology
        /\ b.policy = IF type = "Policy" THEN body ELSE e.policy
        /\ b.lineage = IF type = "Lineage" THEN body ELSE e.lineage
        /\ b.fence = IF type = "Fence" THEN body ELSE e.fence
        /\ b.findings = IF type = "Upsert" THEN Upsert(e.findings, body)
                         ELSE IF type = "Withdraw" THEN Withdraw(e.findings, body)
                         ELSE e.findings
        /\ b.boots = IF type = "Boot"
                      THEN Append(e.boots, [epoch |-> body, clean |-> FALSE])
                      ELSE IF type = "Note"
                      THEN [e.boots EXCEPT ![body].clean = TRUE]
                      ELSE e.boots
    BY <1>1, AppliedFields
  <2> HIDE DEF a, b
  <2>3. a.findings = b.findings /\ a.boots = b.boots
    BY <1>1, <2>1, <2>2
  <2> QED BY <1>1, <2>1, <2>2, <2>3
<1>4. /\ type = "Boot" => HighWater(a) = body /\ HighWater(b) = body
      /\ type = "Fence" => HighWater(a) = body.epoch /\ HighWater(b) = body.epoch
      /\ type \notin {"Boot", "Fence"} =>
            HighWater(a) = HighWater(d) /\ HighWater(b) = HighWater(d)
  BY <1>1, HighWaterApplied
<1>5. Applied(d, type, body) = a /\ Applied(e, type, body) = b
  OBVIOUS
<1> HIDE DEF a, b
<1>6. HighWater(a) = HighWater(b)
  BY <1>4
<1>7. Seen(a) = Seen(b)
  <2>1. Seen(a) \in Content /\ Seen(b) \in Content
    BY <1>2, SeenFields
  <2>2. /\ Seen(a).topology = Seen(b).topology /\ Seen(a).policy = Seen(b).policy
        /\ Seen(a).lineage = Seen(b).lineage
        /\ Seen(a).fence.generation = Seen(b).fence.generation
        /\ Seen(a).fence.epoch = Seen(b).fence.epoch
        /\ Seen(a).findings = Seen(b).findings /\ Seen(a).boots = Seen(b).boots
    BY <1>2, <1>3, <1>6, SeenFields
  <2> QED BY <2>1, <2>2, ContentEqual
<1>8. ASSUME type # "Boot" PROVE Seen(b) = b
  <2>1. b.fence.epoch = HighWater(b)
    BY <1>1, <1>3, <1>4, <1>8
  <2>2. Seen(b) = [b EXCEPT !.fence.epoch = b.fence.epoch]
    BY <2>1 DEF Seen
  <2> QED BY <1>2, <2>2 DEF Content
<1>9. type = "Boot" => Seen(a) = [a EXCEPT !.fence.epoch = body]
  BY <1>4 DEF Seen
<1> QED BY <1>5, <1>7, <1>8, <1>9 DEF e

-----------------------------------------------------------------------------
(* The invariant of the store                                              *)

\* A file the next open accepts, with a document that fits the limits.
Good(f) == f \in Seq(Frames) /\ f # << >> /\ WellFormed(f) /\ Sound(Replay(f))

\* The file is good up to a torn tail, which only a store that is not open
\* has; the counters continue the file; the memory is the document, with the
\* epoch in the fence that its readers see, and knows what the caller holds.
StoreInv ==
    /\ FreshInv
    /\ file # << >> => Good(Whole(file))
    /\ open => /\ Whole(file) = file
               /\ gen = file[1].gen /\ next = Len(file) + 1
               /\ mem = Seen(Replay(file))
               /\ \A key \in held : Known(mem, key)

\* A sound document makes a good file.
LEMMA GoodSnapshot ==
    ASSUME Undisturbed, NEW d, Sound(d), NEW generation \in Nat
    PROVE  LET f == <<Snapshot(d, generation)>>
           IN  /\ Good(f) /\ Whole(f) = f /\ Replay(f) = d
               /\ f[1].gen = generation /\ Len(f) = 1
<1> DEFINE x == Frame("Snapshot", 1, generation, d)
<1>1. /\ x \in Frames /\ x.type = "Snapshot" /\ x.body = d /\ x.seq = 1
      /\ x.gen = generation
  <2>1. "Snapshot" \in Type /\ d \in BodyOf("Snapshot")
    BY DEF Type, BodyOf, Sound
  <2> QED BY <2>1, FrameTyped
<1>2. Snapshot(d, generation) = x
  BY DEF Snapshot
<1> HIDE DEF x
<1>3. Whole(<<x>>) = <<x>>
  BY <1>1, WholeOne
<1>4. Replay(<<x>>) = d /\ <<x>> \in Seq(Frames) /\ <<x>> # << >>
      /\ <<x>>[1] = x /\ Len(<<x>>) = 1
  BY <1>1, ReplayOne
<1>5. WellFormed(<<x>>)
  BY <1>1, SoundDecodes, WellFormedOne
<1> QED BY <1>1, <1>2, <1>3, <1>4, <1>5 DEF Good

\* A file to which a change that fits is appended, with the next number.
LEMMA GoodAppend ==
    ASSUME Undisturbed, NEW f, Good(f), NEW type \in Change, NEW body \in BodyOf(type),
           Applicable(Replay(f), type, body),
           type = "Boot" => body > HighWater(Replay(f)) /\ body <= MaxBoots,
           type = "Fence" => body.epoch >= HighWater(Replay(f)) /\ body.epoch <= MaxBoots
    PROVE  LET x == Frame(type, Len(f) + 1, f[1].gen, body)
               g == Append(f, x)
           IN  /\ Good(g) /\ Whole(g) = g
               /\ Replay(g) = Applied(Replay(f), type, body)
               /\ g[1].gen = f[1].gen /\ Len(g) = Len(f) + 1
               /\ x \in Frames /\ x.type # "Torn"
<1> DEFINE n == Len(f)
           x == Frame(type, n + 1, f[1].gen, body)
           g == Append(f, x)
           d == Replay(f)
<1>1. f \in Seq(Frames) /\ f # << >> /\ WellFormed(f) /\ Sound(d)
  BY DEF Good
<1>2. n \in Nat \ {0} /\ f[1] \in Frames
  BY <1>1, ReplaysSteps, ElementOfSeq
<1>3. f[1].gen \in Nat
  BY <1>2, FrameFields
<1> HIDE DEF n
<1>4. /\ x \in Frames /\ x.type = type /\ x.body = body /\ x.seq = n + 1
      /\ x.gen = f[1].gen /\ x.type # "Torn"
  <2>1. type \in Type /\ type # "Torn"
    BY DEF Type, Change
  <2>2. n + 1 \in Nat
    BY <1>2
  <2> QED BY <1>3, <2>1, <2>2, FrameTyped
<1> HIDE DEF x
<1>5. /\ g \in Seq(Frames) /\ g # << >> /\ Len(g) = n + 1
      /\ \A i \in 1..n : g[i] = f[i]
  BY <1>1, <1>4, AppendProperties DEF n
<1>6. g[1] = f[1]
  BY <1>2, <1>5
<1>7. Whole(g) = g
  BY <1>1, <1>4, WholeFacts
<1>8. Replay(g) = Applied(d, type, body)
  BY <1>1, <1>4, ReplayAppend
<1>9. WellFormed(g)
  BY <1>1, <1>4, WellFormedAppend DEF n
<1>10. Sound(Applied(d, type, body))
  <2> HIDE DEF d
  <2>1. /\ Applicable(d, type, body)
        /\ type = "Boot" => body > HighWater(d) /\ body <= MaxBoots
        /\ type = "Fence" => body.epoch >= HighWater(d) /\ body.epoch <= MaxBoots
    BY DEF d
  <2> QED BY <1>1, <2>1, SoundApplied DEF Applicable
<1>11. Good(g)
  BY <1>5, <1>8, <1>9, <1>10 DEF Good
<1> QED BY <1>4, <1>5, <1>6, <1>7, <1>8, <1>11 DEF x, n

\* Whatever an append leaves is good, and holds the change or does not.
LEMMA GoodRemnants ==
    ASSUME NEW f, NEW x \in Frames, x.type # "Torn", Good(f), Good(Append(f, x)),
           NEW g \in Remnants(f, x)
    PROVE  /\ g # << >> /\ Good(Whole(g))
           /\ \/ Replay(Whole(g)) = Replay(f)
              \/ Replay(Whole(g)) = Replay(Append(f, x))
<1>1. f \in Seq(Frames) /\ f # << >> /\ WellFormed(f)
  BY DEF Good
<1>2. Whole(f) = f /\ Whole(Append(f, Torn)) = f /\ Whole(Append(f, x)) = Append(f, x)
  BY <1>1, WholeFacts
<1>3. Append(f, Torn) # << >> /\ Append(f, x) # << >>
  BY <1>1, TornTyped, AppendProperties
<1> QED BY <1>1, <1>2, <1>3 DEF Remnants

\* What the next append continues is good, and the memory is its document.
LEMMA TargetGood ==
    ASSUME Undisturbed, StoreInv, open
    PROVE  /\ Good(Target.file) /\ Target.gen = Target.file[1].gen
           /\ Target.next = Len(Target.file) + 1
           /\ mem = Seen(Replay(Target.file))
           /\ Sound(mem) /\ Seen(mem) = mem /\ HighWater(mem) = mem.fence.epoch
           /\ file # << >> /\ Good(file)
<1>1. /\ file # << >> /\ Good(file) /\ mem = Seen(Replay(file)) /\ gen \in Nat
      /\ gen = file[1].gen /\ next = Len(file) + 1
  BY DEF StoreInv, FreshInv, TypeInv
<1>2. Sound(mem) /\ Seen(mem) = mem /\ HighWater(mem) = mem.fence.epoch
  <2> DEFINE d == Replay(file)
  <2>1. Sound(d) /\ d \in Content
    BY <1>1 DEF Good, Sound
  <2> HIDE DEF d
  <2>2. Sound(Seen(d)) /\ Seen(Seen(d)) = Seen(d) /\ HighWater(Seen(d)) = Seen(d).fence.epoch
    BY <2>1, SeenSound, SeenFields
  <2> QED BY <1>1, <2>2 DEF d
<1>3. CASE Compacting
  <2>1. /\ Target.file = <<Snapshot(mem, gen + 1)>> /\ Target.gen = gen + 1
        /\ Target.next = 2
    BY <1>3 DEF Target
  <2> DEFINE f == <<Snapshot(mem, gen + 1)>>
  <2>2. gen + 1 \in Nat
    BY <1>1
  <2>3. Good(f) /\ Replay(f) = mem /\ f[1].gen = gen + 1 /\ Len(f) = 1
    BY <1>2, <2>2, GoodSnapshot
  <2> HIDE DEF f
  <2> QED BY <1>1, <1>2, <2>1, <2>3 DEF f
<1>4. CASE ~ Compacting
  BY <1>1, <1>2, <1>4 DEF Target
<1> QED BY <1>3, <1>4

\* What the runtime found or published is known until the process ends.
LEMMA KnownApplied ==
    ASSUME NEW d \in Content, NEW type \in Change, NEW body \in BodyOf(type), NEW key
    PROVE  /\ Known(d, key) => Known(Applied(d, type, body), key)
           /\ type = "Upsert" => Known(Applied(d, type, body), body)
<1> DEFINE a == Applied(d, type, body)
<1>1. a.findings = IF type = "Upsert" THEN Upsert(d.findings, body)
                   ELSE IF type = "Withdraw" THEN Withdraw(d.findings, body)
                   ELSE d.findings
  BY DEF Applied, Change, Content
<1>2. d.findings \in Seq(Entry)
  BY ContentFields
<1> DEFINE s == d.findings
<1> HIDE DEF a, s
<1>3. CASE type = "Upsert"
  <2> DEFINE entry == [key |-> body, withdrawn |-> FALSE]
             n == Len(s)
  <2>1. body \in Key /\ entry \in Entry /\ entry.key = body
    BY <1>3 DEF BodyOf, Entry
  <2>2. n \in Nat /\ DOMAIN s = 1..n
    BY <1>2, LenProperties DEF s
  <2>3. CASE \E i \in DOMAIN s : s[i].key = body
    <3> DEFINE t == [i \in DOMAIN s |-> IF s[i].key = body THEN entry ELSE s[i]]
    <3>1. a.findings = t
      BY <1>1, <1>3, <2>3 DEF Upsert, s
    <3>2. DOMAIN t = DOMAIN s /\ \A i \in DOMAIN s : t[i].key = s[i].key
      BY <2>1
    <3> HIDE DEF t
    <3>3. (Known(d, key) => Known(a, key)) /\ Known(a, body)
      BY <2>3, <3>1, <3>2 DEF Known, s
    <3> QED BY <3>3 DEF a
  <2>4. CASE ~ \E i \in DOMAIN s : s[i].key = body
    <3> DEFINE t == Append(s, entry)
    <3>1. a.findings = t
      BY <1>1, <1>3, <2>4 DEF Upsert, s
    <3>2. /\ t \in Seq(Entry) /\ Len(t) = n + 1
          /\ \A i \in 1..n : t[i] = s[i]
          /\ t[n + 1] = entry
      BY <1>2, <2>1, AppendProperties DEF s
    <3>3. DOMAIN t = 1..(n + 1)
      BY <3>2, LenProperties
    <3> HIDE DEF t, n, entry
    <3>4. /\ \A i \in DOMAIN s : i \in DOMAIN t /\ t[i] = s[i]
          /\ n + 1 \in DOMAIN t /\ t[n + 1].key = body
      BY <2>1, <2>2, <3>2, <3>3
    <3>5. (Known(d, key) => Known(a, key)) /\ Known(a, body)
      BY <3>1, <3>4 DEF Known, s
    <3> QED BY <3>5 DEF a
  <2> QED BY <2>3, <2>4
<1>4. CASE type = "Withdraw"
  <2>1. body \in Key /\ a.findings = Withdraw(s, body)
    BY <1>1, <1>4 DEF BodyOf, s
  <2>2. /\ DOMAIN a.findings = DOMAIN s
        /\ \A i \in DOMAIN s : a.findings[i].key = s[i].key
    BY <1>2, <2>1, WithdrawTyped DEF s
  <2>3. Known(d, key) => Known(a, key)
    BY <2>2 DEF Known, s
  <2> QED BY <1>4, <2>3 DEF a
<1>5. CASE type \notin {"Upsert", "Withdraw"}
  <2>1. Known(d, key) => Known(a, key)
    BY <1>1, <1>5 DEF Known
  <2> QED BY <1>5, <2>1 DEF a
<1> QED BY <1>3, <1>4, <1>5

\* The store remembers all of a change that leaves no finding too many.
LEMMA RememberedAll ==
    ASSUME NEW d, NEW type, NEW body, Decodes(Applied(d, type, body)),
           Applied(d, type, body) \in Content
    PROVE  Remembered(d, type, body) = Applied(d, type, body)
<1> DEFINE a == Applied(d, type, body)
           l == Len(a.findings)
<1>1. l \in Nat /\ l <= MaxFindings /\ MaxFindings \in Nat
  BY ContentFields, LenProperties, JournalAssumption DEF Decodes
<1> HIDE DEF l
<1>2. ~ (l - MaxFindings > 0)
  BY <1>1
<1> QED BY <1>2 DEF Remembered, l

\* An append that the caller asks for keeps the invariant, however it ends,
\* and to a reader nothing happened or the whole change did.
LEMMA AppendStores ==
    ASSUME Undisturbed, StoreInv, NEW type, NEW body, Asked(type, body),
           AppendPayload(type, body, Holding(type, body))
    PROVE  /\ StoreInv' /\ file # << >> /\ file' # << >>
           /\ mem = Seen(Replay(Whole(file))) /\ mem \in Content
           /\ \/ Seen(Replay(Whole(file'))) = mem
              \/ Seen(Replay(Whole(file'))) = Applied(mem, type, body)
<1>1. /\ type \in Change /\ type \notin {"Boot", "Note"} /\ body \in BodyOf(type)
      /\ open /\ FreshInv'
  BY AppendFresh DEF Asked, AppendPayload, StoreInv
<1>2. /\ Good(Target.file) /\ Target.gen = Target.file[1].gen
      /\ Target.next = Len(Target.file) + 1
      /\ mem = Seen(Replay(Target.file))
      /\ Sound(mem) /\ HighWater(mem) = mem.fence.epoch
      /\ file # << >>
  BY <1>1, TargetGood
<1>3. mem = Seen(Replay(Whole(file))) /\ mem \in Content
  BY <1>1, <1>2 DEF StoreInv, Sound
<1> DEFINE f == Target.file
           d == Replay(f)
           x == Frame(type, Target.next, Target.gen, body)
           g == Append(f, x)
<1>4. d \in Content /\ Sound(d)
  BY <1>2 DEF Good, Sound
<1>5. /\ mem.findings = d.findings /\ mem.boots = d.boots /\ mem.lineage = d.lineage
      /\ HighWater(d) = mem.fence.epoch
  <2>1. mem = Seen(d)
    BY <1>2
  <2> HIDE DEF d
  <2> QED BY <1>4, <2>1, SeenFields
<1>6. Applicable(d, type, body)
  BY <1>1, <1>5 DEF Asked, Applicable, StoreInv, Known
<1>7. type = "Fence" => body.epoch >= HighWater(d) /\ body.epoch <= MaxBoots
  <2> SUFFICES ASSUME type = "Fence"
               PROVE  body.epoch >= mem.fence.epoch /\ body.epoch <= MaxBoots
    BY <1>5
  <2>1. body.epoch \in Nat
    BY <1>1 DEF BodyOf, Fence
  <2>2. body.epoch >= mem.fence.epoch /\ body.epoch <= MaxEpoch
    BY DEF Asked
  <2>3. MaxEpoch \in Nat /\ MaxBoots \in Nat /\ MaxEpoch <= MaxBoots
    BY JournalAssumption DEF Undisturbed
  <2> QED BY <2>1, <2>2, <2>3
<1>8. /\ Good(g) /\ Whole(g) = g /\ Replay(g) = Applied(d, type, body)
      /\ g[1].gen = f[1].gen /\ Len(g) = Len(f) + 1
      /\ x \in Frames /\ x.type # "Torn"
  <2>1. x = Frame(type, Len(f) + 1, f[1].gen, body) /\ Good(f)
    BY <1>2
  <2> HIDE DEF f, x
  <2> QED BY <1>1, <1>6, <1>7, <2>1, GoodAppend
<1>9. /\ Seen(Replay(g)) = Applied(mem, type, body)
      /\ Sound(Replay(g))
  <2>1. mem = Seen(d)
    BY <1>2
  <2>2. Seen(Applied(d, type, body)) = Applied(Seen(d), type, body)
    <3> HIDE DEF d
    <3> QED BY <1>1, <1>4, <1>7, SeenApplied
  <2>3. Sound(Replay(g))
    BY <1>8 DEF Good
  <2> QED BY <1>8, <2>1, <2>2, <2>3
<1>10. Remembered(mem, type, body) = Applied(mem, type, body)
  <2>1. Sound(Seen(Replay(g)))
    BY <1>9, SeenSound
  <2>2. Sound(Applied(mem, type, body))
    BY <1>9, <2>1
  <2> QED BY <2>2, SoundDecodes, RememberedAll DEF Sound
<1> HIDE DEF f, x, d
<1>11. ASSUME file' \in Remnants(f, x)
       PROVE  /\ file' # << >> /\ Good(Whole(file'))
              /\ \/ Seen(Replay(Whole(file'))) = mem
                 \/ Seen(Replay(Whole(file'))) = Applied(mem, type, body)
  <2>1. /\ file' # << >> /\ Good(Whole(file'))
        /\ \/ Replay(Whole(file')) = Replay(f)
           \/ Replay(Whole(file')) = Replay(Append(f, x))
    BY <1>2, <1>8, <1>11, GoodRemnants DEF f
  <2> QED BY <1>2, <1>9, <2>1 DEF f
<1>12. CASE file' \in Remnants(f, x) /\ Ended
  <2>1. StoreInv'
    BY <1>1, <1>11, <1>12 DEF StoreInv, Ended
  <2> QED BY <1>2, <1>3, <1>11, <1>12, <2>1
<1>13. CASE /\ file' = g /\ gen' = Target.gen /\ next' = Target.next + 1
            /\ mem' = Remembered(mem, type, body)
            /\ held' = Holding(type, body)
            /\ UNCHANGED open
  <2>1. Whole(file') = file' /\ Good(file') /\ file' # << >>
    BY <1>8, <1>13 DEF Good
  <2>2. gen' = file'[1].gen
    BY <1>2, <1>8, <1>13 DEF f
  <2>3. next' = Len(file') + 1
    BY <1>2, <1>8, <1>13 DEF f
  <2>4. mem' = Seen(Replay(file')) /\ mem' = Applied(mem, type, body)
    BY <1>9, <1>10, <1>13
  <2>5. \A key \in held' : Known(mem', key)
    <3> TAKE key \in held'
    <3>1. key \in held \/ (type = "Upsert" /\ key = body)
      BY <1>13 DEF Holding
    <3>2. key \in held => Known(mem, key)
      BY <1>1 DEF StoreInv
    <3>3. Known(Applied(mem, type, body), key)
      BY <1>1, <1>3, <3>1, <3>2, KnownApplied
    <3> QED BY <2>4, <3>3
  <2>6. StoreInv'
    BY <1>1, <2>1, <2>2, <2>3, <2>4, <2>5 DEF StoreInv
  <2>7. Seen(Replay(Whole(file'))) = Applied(mem, type, body)
    BY <2>1, <2>4
  <2> QED BY <1>2, <1>3, <2>1, <2>6, <2>7
<1> QED BY <1>12, <1>13 DEF AppendPayload, Undisturbed, f, x

\* A boot leaves a reader the document, or the document with the new boot.
LEMMA OpenStores ==
    ASSUME Undisturbed, StoreInv, Open
    PROVE  /\ StoreInv' /\ file # << >> /\ file' # << >>
           /\ LET doc == Replay(Whole(file))
                  epoch == HighWater(doc) + 1
              IN  /\ doc \in Content /\ epoch \in Nat
                  /\ \/ Seen(Replay(Whole(file'))) = Seen(doc)
                     \/ Seen(Replay(Whole(file'))) = Seen(Applied(doc, "Boot", epoch))
<1> DEFINE whole == Whole(file)
           doc == Replay(whole)
           epoch == HighWater(doc) + 1
           boot == Frame("Boot", Len(whole) + 1, whole[1].gen, epoch)
           g == Append(whole, boot)
           new == Applied(doc, "Boot", epoch)
<1>1. /\ file # << >> /\ epoch <= MaxEpoch
      /\ \/ /\ file' = g
            /\ open' = TRUE
            /\ mem' = [new EXCEPT !.fence.epoch = epoch]
            /\ gen' = whole[1].gen
            /\ next' = Len(whole) + 2
            /\ held' = {doc.findings[i].key : i \in DOMAIN doc.findings}
         \/ file' \in Remnants(whole, boot) /\ Ended
  BY DEF Open, Minted
<1>2. FreshInv'
  BY OpenFresh DEF StoreInv
<1>3. Good(whole)
  BY <1>1 DEF StoreInv
<1>4. doc \in Content /\ Sound(doc) /\ whole \in Seq(Frames) /\ whole # << >>
  BY <1>3 DEF Good, Sound
<1> HIDE DEF doc, whole
<1>5. HighWater(doc) \in Nat
  BY <1>4, HighWaterBounds
<1>6. epoch \in Nat /\ epoch > HighWater(doc) /\ epoch <= MaxBoots
  <2>1. MaxEpoch \in Nat /\ MaxBoots \in Nat /\ MaxEpoch <= MaxBoots
    BY JournalAssumption DEF Undisturbed
  <2> QED BY <1>1, <1>5, <2>1
<1> HIDE DEF epoch
<1>7. "Boot" \in Change /\ epoch \in BodyOf("Boot") /\ Applicable(doc, "Boot", epoch)
  BY <1>6, Bodies DEF Applicable
<1>8. /\ Good(g) /\ Whole(g) = g /\ Replay(g) = new
      /\ g[1].gen = whole[1].gen /\ Len(g) = Len(whole) + 1
      /\ boot \in Frames /\ boot.type # "Torn"
  BY <1>3, <1>6, <1>7, GoodAppend DEF doc
<1>9. Seen(new) = [new EXCEPT !.fence.epoch = epoch]
  BY <1>4, <1>6, <1>7, SeenApplied
<1>10. new.findings = doc.findings
  BY <1>4 DEF Applied, Content
<1>11. new \in Content
  BY <1>4, <1>7, AppliedTyped
<1> HIDE DEF new, boot
<1>12. CASE file' \in Remnants(whole, boot) /\ Ended
  <2>1. /\ file' # << >> /\ Good(Whole(file'))
        /\ Replay(Whole(file')) = doc \/ Replay(Whole(file')) = new
    BY <1>3, <1>8, <1>12, GoodRemnants DEF doc
  <2>2. StoreInv'
    BY <1>2, <1>12, <2>1 DEF StoreInv, Ended
  <2> QED BY <1>1, <1>4, <1>6, <2>1, <2>2 DEF doc, whole, epoch, new
<1>13. CASE /\ file' = g
            /\ mem' = [new EXCEPT !.fence.epoch = epoch]
            /\ gen' = whole[1].gen
            /\ next' = Len(whole) + 2
            /\ held' = {doc.findings[i].key : i \in DOMAIN doc.findings}
  <2>1. Whole(file') = file' /\ Good(file') /\ file' # << >> /\ gen' = file'[1].gen
    BY <1>8, <1>13 DEF Good
  <2>2. next' = Len(file') + 1
    <3> DEFINE n == Len(whole)
    <3>1. n \in Nat
      BY <1>4, LenProperties
    <3>2. next' = n + 2 /\ Len(file') = n + 1
      BY <1>8, <1>13
    <3> HIDE DEF n
    <3> QED BY <3>1, <3>2
  <2>3. mem' = Seen(Replay(file')) /\ mem' = Seen(new)
    BY <1>8, <1>9, <1>13
  <2>4. mem'.findings = doc.findings
    BY <1>10, <1>11, <2>3, SeenFields
  <2>5. \A key \in held' : Known(mem', key)
    BY <1>13, <2>4 DEF Known
  <2>6. StoreInv'
    BY <1>2, <2>1, <2>2, <2>3, <2>5 DEF StoreInv
  <2>7. Seen(Replay(Whole(file'))) = Seen(new)
    BY <2>1, <2>3
  <2> QED BY <1>1, <1>4, <1>6, <2>1, <2>6, <2>7 DEF doc, whole, epoch, new
<1> QED BY <1>1, <1>12, <1>13

\* The first snapshot is a good file.
LEMMA CreateStores ==
    ASSUME Undisturbed, StoreInv, Create
    PROVE  /\ StoreInv' /\ file = << >> /\ file' # << >>
           /\ Seen(Replay(Whole(file'))) = FirstContent
<1> DEFINE boots == <<[epoch |-> 1, clean |-> FALSE]>>
           d == FirstContent
           f == <<Snapshot(d, 1)>>
<1>1. d \in Content /\ d.boots = boots /\ d.findings = << >> /\ d.fence.epoch = 1
  <2>1. boots \in Seq(Boot)
    BY DEF Boot
  <2>2. << >> \in Seq(Entry)
    OBVIOUS
  <2> QED BY <2>1, <2>2 DEF FirstContent, Content
<1>2. boots # << >> /\ DOMAIN boots = {1} /\ boots[1].epoch = 1
  OBVIOUS
<1> HIDE DEF boots, d
<1>3. HighWater(d) = 1
  <2>1. Largest(1, d.fence.epoch, d.boots)
    BY <1>1, <1>2 DEF Largest
  <2> QED BY <1>1, <2>1, HighWaterIs
<1>4. Sound(d)
  <2>1. \A i, j \in DOMAIN d.findings : d.findings[i].key = d.findings[j].key => i = j
    BY <1>1
  <2>2. \A i \in DOMAIN d.boots : i <= d.boots[i].epoch
    BY <1>1, <1>2
  <2>3. 1 <= MaxBoots
    BY JournalAssumption
  <2> QED BY <1>1, <1>2, <1>3, <2>1, <2>2, <2>3 DEF Sound
<1>5. Seen(d) = d
  <2>1. Seen(d) = [d EXCEPT !.fence.epoch = d.fence.epoch]
    BY <1>1, <1>3 DEF Seen
  <2> QED BY <1>1, <2>1 DEF Content
<1>6. Good(f) /\ Whole(f) = f /\ Replay(f) = d /\ f[1].gen = 1 /\ Len(f) = 1
  BY <1>4, GoodSnapshot
<1>7. file = << >> /\ file' = f
  BY DEF Create, d
<1> HIDE DEF f
<1>8. file' # << >> /\ Good(Whole(file')) /\ Seen(Replay(Whole(file'))) = d
  BY <1>5, <1>6, <1>7 DEF Good
<1>9. FreshInv'
  BY CreateFresh DEF StoreInv
<1>10. CASE Ended
  BY <1>7, <1>8, <1>9, <1>10 DEF Ended, StoreInv, d
<1>11. CASE mem' = d /\ gen' = 1 /\ next' = 2 /\ held' = {}
  <2>1. Whole(file') = file' /\ gen' = file'[1].gen
    BY <1>6, <1>7, <1>11
  <2>2. next' = Len(file') + 1
    <3>1. Len(file') = 1 /\ next' = 2
      BY <1>6, <1>7, <1>11
    <3> QED BY <3>1
  <2>3. mem' = Seen(Replay(file')) /\ \A key \in held' : Known(mem', key)
    BY <1>5, <1>6, <1>7, <1>11
  <2>4. StoreInv'
    BY <1>8, <1>9, <2>1, <2>2, <2>3 DEF StoreInv
  <2> QED BY <1>7, <1>8, <2>4 DEF d
<1> QED BY <1>10, <1>11 DEF Create, d

\* A compaction is not seen.
LEMMA CompactStores ==
    ASSUME Undisturbed, StoreInv, Compact
    PROVE  /\ StoreInv' /\ file # << >> /\ file' # << >>
           /\ Seen(Replay(Whole(file'))) = Seen(Replay(Whole(file)))
<1> DEFINE f == <<Snapshot(mem, gen + 1)>>
<1>1. /\ open /\ file' = f
      /\ \/ gen' = gen + 1 /\ next' = 2 /\ UNCHANGED <<open, mem, held>>
         \/ Ended
  BY DEF Compact, Undisturbed
<1>2. FreshInv'
  BY CompactFresh DEF StoreInv
<1>3. /\ file # << >> /\ Whole(file) = file /\ mem = Seen(Replay(file))
      /\ Sound(mem) /\ Seen(mem) = mem
  BY <1>1, TargetGood DEF StoreInv
<1>4. gen + 1 \in Nat
  BY DEF StoreInv, FreshInv, TypeInv
<1>5. Good(f) /\ Whole(f) = f /\ Replay(f) = mem /\ f[1].gen = gen + 1 /\ Len(f) = 1
  BY <1>3, <1>4, GoodSnapshot
<1> HIDE DEF f
<1>6. /\ file' # << >> /\ Good(Whole(file')) /\ Whole(file') = file'
      /\ Replay(file') = mem /\ file'[1].gen = gen + 1 /\ Len(file') = 1
  BY <1>1, <1>5 DEF Good
<1>7. Seen(Replay(Whole(file'))) = Seen(Replay(Whole(file)))
  BY <1>3, <1>6
<1>8. CASE Ended
  BY <1>2, <1>3, <1>6, <1>7, <1>8 DEF StoreInv, Ended
<1>9. CASE gen' = gen + 1 /\ next' = 2 /\ UNCHANGED <<open, mem, held>>
  <2>1. \A key \in held' : Known(mem', key)
    BY <1>1, <1>9 DEF StoreInv
  <2>2. mem' = Seen(Replay(file')) /\ gen' = file'[1].gen /\ next' = Len(file') + 1
    BY <1>3, <1>6, <1>9
  <2> QED BY <1>2, <1>3, <1>6, <1>7, <2>1, <2>2 DEF StoreInv
<1> QED BY <1>1, <1>8, <1>9

\* A clean end marks the last boot, or nothing.
LEMMA CloseStores ==
    ASSUME Undisturbed, StoreInv, Close
    PROVE  /\ StoreInv' /\ file # << >> /\ file' # << >>
           /\ mem = Seen(Replay(Whole(file))) /\ mem \in Content
           /\ \/ Seen(Replay(Whole(file'))) = mem
              \/ Seen(Replay(Whole(file'))) = Applied(mem, "Note", Len(mem.boots))
<1>1. open /\ Ended /\ file' \in
          Remnants(Target.file, Frame("Note", Target.next, Target.gen, Len(mem.boots)))
  BY DEF Close, Undisturbed
<1>2. FreshInv'
  BY CloseFresh DEF StoreInv
<1>3. /\ Good(Target.file) /\ Target.gen = Target.file[1].gen
      /\ Target.next = Len(Target.file) + 1
      /\ mem = Seen(Replay(Target.file))
      /\ Sound(mem) /\ file # << >>
  BY <1>1, TargetGood
<1>4. mem = Seen(Replay(Whole(file))) /\ mem \in Content
  BY <1>1, <1>3 DEF StoreInv, Sound
<1> DEFINE f == Target.file
           d == Replay(f)
           n == Len(mem.boots)
           x == Frame("Note", Len(f) + 1, f[1].gen, n)
           g == Append(f, x)
<1>5. d \in Content /\ Sound(d) /\ mem = Seen(d) /\ Good(f)
  BY <1>3 DEF Good, Sound
<1>6. file' \in Remnants(f, x)
  BY <1>1, <1>3
<1> HIDE DEF f
<1>7. mem.boots = d.boots
  <2> HIDE DEF d
  <2> QED BY <1>5, SeenFields
<1>8. n \in DOMAIN d.boots /\ n \in Nat
  <2>1. n \in DOMAIN mem.boots
    BY <1>3, SoundDecodes
  <2>2. n \in Nat
    BY <1>4, ContentFields, LenProperties
  <2> QED BY <1>7, <2>1, <2>2
<1>9. "Note" \in Change /\ n \in BodyOf("Note") /\ Applicable(d, "Note", n)
  BY <1>8, Bodies DEF Applicable
<1> HIDE DEF n
<1>10. /\ Good(g) /\ Whole(g) = g /\ Replay(g) = Applied(d, "Note", n)
       /\ x \in Frames /\ x.type # "Torn"
  BY <1>5, <1>9, GoodAppend
<1>11. Seen(Applied(d, "Note", n)) = Applied(mem, "Note", n)
  <2> HIDE DEF d
  <2> QED BY <1>5, <1>8, <1>9, SeenApplied
<1> HIDE DEF x
<1>12. /\ file' # << >> /\ Good(Whole(file'))
       /\ Replay(Whole(file')) = Replay(f) \/ Replay(Whole(file')) = Replay(g)
  BY <1>5, <1>6, <1>10, GoodRemnants
<1>13. \/ Seen(Replay(Whole(file'))) = mem
       \/ Seen(Replay(Whole(file'))) = Applied(mem, "Note", n)
  BY <1>5, <1>10, <1>11, <1>12
<1>14. StoreInv'
  BY <1>1, <1>2, <1>12 DEF StoreInv, Ended
<1> QED BY <1>3, <1>4, <1>12, <1>13, <1>14 DEF n

\* Every step keeps the invariant of the store.
LEMMA StepsAreStored ==
    ASSUME Undisturbed, StoreInv, [Next]_vars
    PROVE  StoreInv'
<1>1. CASE Calls
  <2>1. PICK type, body : /\ Asked(type, body)
                          /\ AppendPayload(type, body, Holding(type, body))
    BY <1>1, CallsAreAppends DEF StoreInv, FreshInv, TypeInv
  <2> QED BY <2>1, AppendStores
<1>2. CASE Create
  BY <1>2, CreateStores
<1>3. CASE Open
  BY <1>3, OpenStores
<1>4. CASE Compact
  BY <1>4, CompactStores
<1>5. CASE Close
  BY <1>5, CloseStores
<1>6. CASE Crash
  <2>1. FreshInv'
    BY <1>6, StepsAreFresh DEF StoreInv, Next
  <2> QED BY <1>6, <2>1 DEF Crash, Ended, StoreInv
<1>7. CASE UNCHANGED vars
  <2>1. FreshInv'
    BY <1>7, StepsAreFresh DEF StoreInv
  <2> QED BY <1>7, <2>1 DEF vars, StoreInv
<1> QED BY <1>1, <1>2, <1>3, <1>4, <1>5, <1>6, <1>7 DEF Next, Calls

\* The invariant of the store holds.
THEOREM StoreInvariance == ASSUME Undisturbed PROVE Spec => []StoreInv
<1>1. Init => StoreInv
  BY InitIsFresh DEF Init, StoreInv
<1>2. StoreInv /\ [Next]_vars => StoreInv'
  BY StepsAreStored
<1> QED BY <1>1, <1>2, PTL DEF Spec

\* What is on disk is accepted by the next open, whatever operations,
\* compactions, torn writes and crashes came before.
THEOREM DocumentIsAlwaysWellFormed ==
    ASSUME Undisturbed PROVE Spec => []DocumentIsWellFormed
<1>1. StoreInv => DocumentIsWellFormed
  BY DEF StoreInv, Good, DocumentIsWellFormed
<1> QED BY <1>1, StoreInvariance, PTL

\* What an open store has in memory is what a reader of its file would find.
THEOREM MemoryIsAlwaysTheDocument ==
    ASSUME Undisturbed PROVE Spec => []MemoryIsTheDocument
<1>1. StoreInv => MemoryIsTheDocument
  <2> SUFFICES ASSUME StoreInv, open PROVE /\ file[Len(file)].type # "Torn"
                                           /\ Seen(mem) = Seen(Replay(file))
    BY DEF MemoryIsTheDocument
  <2>1. Good(file) /\ mem = Seen(Replay(file)) /\ Seen(mem) = mem
    BY TargetGood DEF StoreInv
  <2> DEFINE n == Len(file)
  <2>2. n \in Nat \ {0}
    BY <2>1, ReplaysSteps DEF Good
  <2> HIDE DEF n
  <2>3. n = 1 \/ n \in 2..n
    BY <2>2
  <2>4. file[n].type # "Torn"
    BY <2>1, <2>3 DEF Good, WellFormed, Continuous, Change, n
  <2> QED BY <2>1, <2>4 DEF n
<1> QED BY <1>1, StoreInvariance, PTL

-----------------------------------------------------------------------------
(* The journal is one document                                             *)

\* The contract speaks of the same documents.
LEMMA SameDocument ==
    /\ \A d, type, body : Abstract!Applied(d, type, body) = Applied(d, type, body)
    /\ \A d : Abstract!HighWater(d) = HighWater(d)
    /\ \A d : Abstract!Seen(d) = Seen(d)
    /\ \A d, key : Abstract!Known(d, key) = Known(d, key)
    /\ Abstract!FirstContent = FirstContent
<1>1. \A s, key : /\ Abstract!Upsert(s, key) = Upsert(s, key)
                  /\ Abstract!Withdraw(s, key) = Withdraw(s, key)
  BY DEF Abstract!Upsert, Upsert, Abstract!Withdraw, Withdraw
<1>2. \A d, type, body : Abstract!Applied(d, type, body) = Applied(d, type, body)
  BY <1>1 DEF Abstract!Applied, Applied
<1>3. \A d : Abstract!HighWater(d) = HighWater(d)
  BY DEF Abstract!HighWater, HighWater, Abstract!Max, Max
<1>4. \A d : Abstract!Seen(d) = Seen(d)
  BY <1>3 DEF Abstract!Seen, Seen
<1>5. \A d, key : Abstract!Known(d, key) = Known(d, key)
  BY DEF Abstract!Known, Known
<1>6. Abstract!FirstContent = FirstContent
  BY DEF Abstract!FirstContent, FirstContent
<1> QED BY <1>2, <1>3, <1>4, <1>5, <1>6

\* What a step of the contract makes of document d.
Changes(d, e) ==
    \/ e.topology > d.topology /\ e = Applied(d, "Topology", e.topology)
    \/ e.policy >= d.policy /\ e = Applied(d, "Policy", e.policy)
    \/ /\ e.fence.generation >= d.fence.generation /\ e.fence.epoch >= HighWater(d)
       /\ e = Seen(Applied(d, "Fence", e.fence))
    \/ e.lineage > d.lineage /\ e = Applied(d, "Lineage", e.lineage)
    \/ \E key \in Key : e = Applied(d, "Upsert", key)
    \/ \E key \in Key : Known(d, key) /\ e = Applied(d, "Withdraw", key)
    \/ e.fence.epoch > HighWater(d) /\ e = Seen(Applied(d, "Boot", e.fence.epoch))
    \/ e = Applied(d, "Note", Len(d.boots))

\* A change of what readers see is a step of the contract.
LEMMA ChangesAreSteps ==
    ASSUME file # << >>, file' # << >>,
           NEW d \in Content, Seen(Replay(Whole(file))) = d,
           NEW e, Seen(Replay(Whole(file'))) = e, Changes(d, e)
    PROVE  Abstract!ContractNext
<1> DEFINE doc == IF file = << >> THEN NoDocument ELSE Seen(Replay(Whole(file)))
<1>1. doc = d /\ doc' = e /\ d # NoDocument
  BY JournalAssumption
<1> HIDE DEF doc
<1>2. CASE e.topology > d.topology /\ e = Applied(d, "Topology", e.topology)
  BY <1>1, <1>2, SameDocument
     DEF doc, Abstract!ContractNext, Abstract!DefineTopology
<1>3. CASE e.policy >= d.policy /\ e = Applied(d, "Policy", e.policy)
  BY <1>1, <1>3, SameDocument
     DEF doc, Abstract!ContractNext, Abstract!DefinePolicy
<1>4. CASE /\ e.fence.generation >= d.fence.generation /\ e.fence.epoch >= HighWater(d)
           /\ e = Seen(Applied(d, "Fence", e.fence))
  BY <1>1, <1>4, SameDocument DEF doc, Abstract!ContractNext, Abstract!Commit
<1>5. CASE e.lineage > d.lineage /\ e = Applied(d, "Lineage", e.lineage)
  BY <1>1, <1>5, SameDocument DEF doc, Abstract!ContractNext, Abstract!Trace
<1>6. CASE \E key \in Key : e = Applied(d, "Upsert", key)
  BY <1>1, <1>6, SameDocument DEF doc, Abstract!ContractNext, Abstract!Publish
<1>7. CASE \E key \in Key : Known(d, key) /\ e = Applied(d, "Withdraw", key)
  BY <1>1, <1>7, SameDocument DEF doc, Abstract!ContractNext, Abstract!Retract
<1>8. CASE e.fence.epoch > HighWater(d) /\ e = Seen(Applied(d, "Boot", e.fence.epoch))
  BY <1>1, <1>8, SameDocument DEF doc, Abstract!ContractNext, Abstract!Restart
<1>9. CASE e = Applied(d, "Note", Len(d.boots))
  BY <1>1, <1>9, SameDocument DEF doc, Abstract!ContractNext, Abstract!Shutdown
<1> QED BY <1>2, <1>3, <1>4, <1>5, <1>6, <1>7, <1>8, <1>9 DEF Changes

\* What a caller asks for is such a change.
LEMMA AskedChanges ==
    ASSUME NEW type, NEW body, Asked(type, body), mem \in Content,
           HighWater(mem) = mem.fence.epoch, \A key \in held : Known(mem, key),
           Seen(Applied(mem, type, body)) = Applied(mem, type, body)
    PROVE  Changes(mem, Applied(mem, type, body))
<1> DEFINE e == Applied(mem, type, body)
<1>1. /\ type \in {"Topology", "Policy", "Lineage", "Upsert", "Withdraw", "Fence"}
      /\ type \in Change /\ body \in BodyOf(type)
  BY DEF Asked, Change
<1>2. /\ type = "Topology" => e.topology = body /\ body > mem.topology
      /\ type = "Policy" => e.policy = body /\ body >= mem.policy
      /\ type = "Lineage" => e.lineage = body /\ body > mem.lineage
      /\ type = "Fence" => /\ e.fence = body /\ body.epoch >= mem.fence.epoch
                           /\ body.generation >= mem.fence.generation
  <2>1. CASE type = "Topology"
    BY <2>1 DEF Asked, Applied, Content
  <2>2. CASE type = "Policy"
    BY <2>2 DEF Asked, Applied, Content
  <2>3. CASE type = "Lineage"
    BY <2>3 DEF Asked, Applied, Content
  <2>4. CASE type = "Fence"
    BY <2>4 DEF Asked, Applied, Content
  <2> HIDE DEF e
  <2> QED BY <1>1, <2>1, <2>2, <2>3, <2>4
<1>3. e = Applied(mem, type, body) /\ Seen(e) = e
  OBVIOUS
<1> HIDE DEF e
<1>4. CASE type = "Topology"
  BY <1>2, <1>3, <1>4 DEF Changes
<1>5. CASE type = "Policy"
  BY <1>2, <1>3, <1>5 DEF Changes
<1>6. CASE type = "Lineage"
  BY <1>2, <1>3, <1>6 DEF Changes
<1>7. CASE type = "Fence"
  <2>1. e = Seen(Applied(mem, "Fence", e.fence))
    BY <1>2, <1>3, <1>7
  <2>2. e.fence.generation >= mem.fence.generation /\ e.fence.epoch >= HighWater(mem)
    BY <1>2, <1>7
  <2> QED BY <1>3, <2>1, <2>2 DEF Changes
<1>8. CASE type = "Upsert"
  <2>1. body \in Key
    BY <1>1, <1>8 DEF BodyOf
  <2> QED BY <1>3, <1>8, <2>1 DEF Changes
<1>9. CASE type = "Withdraw"
  <2>1. body \in Key /\ Known(mem, body)
    BY <1>1, <1>9 DEF BodyOf, Asked
  <2> QED BY <1>3, <1>9, <2>1 DEF Changes
<1> QED BY <1>1, <1>3, <1>4, <1>5, <1>6, <1>7, <1>8, <1>9

\* Each step of the store is one of the contract, or is not seen.
LEMMA StepsKeepContract ==
    ASSUME Undisturbed, StoreInv, [Next]_vars
    PROVE  \/ Abstract!ContractNext
           \/ UNCHANGED IF file = << >> THEN NoDocument ELSE Seen(Replay(Whole(file)))
<1>1. CASE Calls
  <2>1. PICK type, body : /\ Asked(type, body)
                          /\ AppendPayload(type, body, Holding(type, body))
    BY <1>1, CallsAreAppends DEF StoreInv, FreshInv, TypeInv
  <2>2. /\ StoreInv' /\ file # << >> /\ file' # << >>
        /\ mem = Seen(Replay(Whole(file))) /\ mem \in Content
        /\ \/ Seen(Replay(Whole(file'))) = mem
           \/ Seen(Replay(Whole(file'))) = Applied(mem, type, body)
    BY <2>1, AppendStores
  <2>3. CASE Seen(Replay(Whole(file'))) = mem
    BY <2>2, <2>3
  <2>4. CASE Seen(Replay(Whole(file'))) = Applied(mem, type, body)
    <3>1. Good(Whole(file'))
      BY <2>2 DEF StoreInv
    <3>2. PICK w : w = Whole(file')
      OBVIOUS
    <3>3. Seen(Applied(mem, type, body)) = Applied(mem, type, body)
      <4>1. Replay(w) \in Content
        BY <3>1, <3>2 DEF Good, Sound
      <4>2. Seen(Seen(Replay(w))) = Seen(Replay(w))
        BY <4>1, SeenFields
      <4> QED BY <2>4, <3>2, <4>2
    <3>4. open
      BY <2>1 DEF AppendPayload
    <3>5. HighWater(mem) = mem.fence.epoch
      BY <3>4, TargetGood
    <3>6. Changes(mem, Applied(mem, type, body))
      BY <2>1, <2>2, <3>3, <3>4, <3>5, AskedChanges DEF StoreInv
    <3> QED BY <2>2, <2>4, <3>6, ChangesAreSteps
  <2> QED BY <2>2, <2>3, <2>4
<1>2. CASE Create
  <2>1. file = << >> /\ file' # << >> /\ Seen(Replay(Whole(file'))) = FirstContent
    BY <1>2, CreateStores
  <2> QED BY <2>1, SameDocument DEF Abstract!ContractNext, Abstract!Create
<1>3. CASE Open
  <2> DEFINE doc == Replay(Whole(file))
             epoch == HighWater(doc) + 1
  <2>1. /\ file # << >> /\ file' # << >> /\ doc \in Content /\ epoch \in Nat
        /\ \/ Seen(Replay(Whole(file'))) = Seen(doc)
           \/ Seen(Replay(Whole(file'))) = Seen(Applied(doc, "Boot", epoch))
    BY <1>3, OpenStores
  <2>2. CASE Seen(Replay(Whole(file'))) = Seen(doc)
    BY <2>1, <2>2
  <2>3. CASE Seen(Replay(Whole(file'))) = Seen(Applied(doc, "Boot", epoch))
    <3>1. PICK d, n : d = doc /\ n = epoch
      OBVIOUS
    <3>2. d \in Content /\ n \in Nat /\ n > HighWater(d)
      <4>1. HighWater(d) \in Nat
        BY <2>1, <3>1, HighWaterBounds
      <4> QED BY <2>1, <3>1, <4>1
    <3>3. "Boot" \in Change /\ n \in BodyOf("Boot")
      BY <3>2, Bodies
    <3> DEFINE e == Seen(Applied(d, "Boot", n))
    <3>4. e = Seen(Applied(Seen(d), "Boot", n))
      BY <3>2, <3>3, SeenApplied
    <3>5. e.fence.epoch = n
      <4>1. Applied(d, "Boot", n) \in Content
        BY <3>2, <3>3, AppliedTyped
      <4>2. HighWater(Applied(d, "Boot", n)) = n
        BY <3>2, <3>3, HighWaterApplied
      <4> QED BY <4>1, <4>2, SeenFields
    <3>6. Seen(d) \in Content /\ HighWater(Seen(d)) = HighWater(d)
      BY <3>2, SeenFields
    <3>7. Seen(Replay(Whole(file'))) = e /\ Seen(Replay(Whole(file))) = Seen(d)
      BY <2>3, <3>1
    <3> HIDE DEF e, doc, epoch
    <3>8. Changes(Seen(d), e)
      BY <3>2, <3>4, <3>5, <3>6 DEF Changes
    <3> QED BY <2>1, <3>6, <3>7, <3>8, ChangesAreSteps
  <2> QED BY <2>1, <2>2, <2>3
<1>4. CASE Compact
  <2>1. /\ file # << >> /\ file' # << >>
        /\ Seen(Replay(Whole(file'))) = Seen(Replay(Whole(file)))
    BY <1>4, CompactStores
  <2> QED BY <2>1
<1>5. CASE Close
  <2>1. /\ file # << >> /\ file' # << >>
        /\ mem = Seen(Replay(Whole(file))) /\ mem \in Content
        /\ \/ Seen(Replay(Whole(file'))) = mem
           \/ Seen(Replay(Whole(file'))) = Applied(mem, "Note", Len(mem.boots))
    BY <1>5, CloseStores
  <2>2. CASE Seen(Replay(Whole(file'))) = mem
    BY <2>1, <2>2
  <2>3. CASE Seen(Replay(Whole(file'))) = Applied(mem, "Note", Len(mem.boots))
    <3>1. Changes(mem, Applied(mem, "Note", Len(mem.boots)))
      BY DEF Changes
    <3> QED BY <2>1, <2>3, <3>1, ChangesAreSteps
  <2> QED BY <2>1, <2>2, <2>3
<1>6. CASE Crash \/ UNCHANGED vars
  <2>1. file' = file
    BY <1>6 DEF Crash, vars
  <2> QED BY <2>1
<1> QED BY <1>1, <1>2, <1>3, <1>4, <1>5, <1>6 DEF Next, Calls

\* The journal implements the document the runtime relies on: appends,
\* compactions, torn tails, crashes at any instant and recoveries are each one
\* change of the contract, or none.
THEOREM JournalIsOneDocument ==
    ASSUME Undisturbed PROVE Spec => ImplementsDurableDocument
<1> DEFINE doc == IF file = << >> THEN NoDocument ELSE Seen(Replay(Whole(file)))
<1>1. Init => doc = NoDocument
  BY DEF Init
<1>2. StoreInv /\ [Next]_vars => [Abstract!ContractNext]_doc
  BY StepsKeepContract
<1> QED
  BY <1>1, <1>2, StoreInvariance, PTL DEF Spec, ImplementsDurableDocument, Abstract!Contract

=============================================================================
