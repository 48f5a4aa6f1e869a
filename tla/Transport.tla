------------------------------ MODULE Transport ------------------------------
(***************************************************************************)
(* One direction of a FramedConnection: a thread that sends frames with a  *)
(* deadline, the bytes the kernel holds between the two sockets, and a     *)
(* thread that receives with a FrameDecoder.  A frame is cut into units:   *)
(* the header first, then payload and digest; the kernel accepts and       *)
(* returns any number of units at a time.  Frames are numbered in the      *)
(* order in which they were handed to send_frame.  A digest never matches  *)
(* bytes it was not computed over.                                         *)
(***************************************************************************)
EXTENDS Naturals, Sequences, FiniteSets, SequencesExt

CONSTANTS
    Size,           \* Size[f]: the units of frame f
    HeaderUnits,    \* the units of a header
    Ceiling,        \* the units of the largest frame: Maxima::kFramePayload
    Capacity        \* the units the kernel holds before a send blocks

Frame == DOMAIN Size

ASSUME SizeAssumption ==
    /\ Size \in Seq(Nat)
    /\ HeaderUnits \in Nat \ {0}
    /\ Ceiling \in Nat /\ HeaderUnits < Ceiling
    /\ \A f \in Frame : HeaderUnits < Size[f] /\ Size[f] <= Ceiling
ASSUME CapacityAssumption == Capacity \in Nat \ {0}

VARIABLES
    handed,         \* frames handed to send_frame
    sending,        \* units of the frame in send_all that are not yet sent
    abandoned,      \* frames whose send ended in "send deadline expired"
    sender,         \* the sending side has its socket open
    wire,           \* units in the kernel
    receiver,       \* the receiving side has its socket open
    buffer,         \* decoder_.buffer_ from consumed_ on
    failed,         \* decoder_failed_
    pending,        \* pending_
    delivered       \* frames receive_frame returned

vars == <<handed, sending, abandoned, sender, wire, receiver, buffer, failed,
          pending, delivered>>
sendVars == <<handed, sending, abandoned, sender>>
receiveVars == <<receiver, buffer, failed, pending, delivered>>

-----------------------------------------------------------------------------
(* Frames on the wire *)

Unit == [frame : Frame, at : Nat]

\* encode_frame
Units(f) == [i \in 1..Size[f] |-> [frame |-> f, at |-> i]]

\* The size of the frame a header declares; a header that is mixed from two
\* frames declares anything.
Declared(units, mixed) ==
    LET f == units[1].frame IN
    IF SubSeq(units, 1, HeaderUnits) = SubSeq(Units(f), 1, HeaderUnits)
    THEN Size[f]
    ELSE mixed

Mixed == (HeaderUnits + 1)..(Ceiling + 1)

-----------------------------------------------------------------------------
(* FrameDecoder::feed and drain, on the units a read returned *)

\* Mutant: the incomplete frame of the read before is forgotten.
UndecodedAnew == [frames |-> <<>>, rest |-> <<>>, bad |-> FALSE]

Undecoded == [frames |-> <<>>, rest |-> buffer, bad |-> FALSE]

\* decode_frame: the digest is that of the units before it.
Decoded(state, units) ==
    IF units = Units(Last(units).frame)
    THEN [state EXCEPT !.frames = Append(@, Last(units).frame), !.rest = <<>>]
    ELSE [state EXCEPT !.bad = TRUE]

\* Mutant: a declared length above the ceiling is not refused.
TakeUnitUnbounded(state, unit, mixed) ==
    LET units == Append(state.rest, unit) IN
    IF state.bad THEN state
    ELSE IF Len(units) < HeaderUnits \/ Len(units) < Declared(units, mixed)
         THEN [state EXCEPT !.rest = units]
         ELSE Decoded(state, units)

\* A header is judged when it is whole; the frame is decoded when as many units
\* are there as it declares, unless they are more than a frame may have.
TakeUnit(state, unit, mixed) ==
    LET units == Append(state.rest, unit)
        size == Declared(units, mixed)
    IN  IF state.bad THEN state
        ELSE IF Len(units) < HeaderUnits THEN [state EXCEPT !.rest = units]
        ELSE IF size > Ceiling THEN [state EXCEPT !.bad = TRUE]
        ELSE IF Len(units) < size THEN [state EXCEPT !.rest = units]
        ELSE Decoded(state, units)

Drained(units, mixed) ==
    LET state[n \in 0..Len(units)] ==
            IF n = 0 THEN Undecoded ELSE TakeUnit(state[n - 1], units[n], mixed)
    IN  state[Len(units)]

-----------------------------------------------------------------------------
(* The sending thread *)

Init ==
    /\ handed = 0 /\ sending = <<>> /\ abandoned = {} /\ sender = TRUE
    /\ wire = <<>>
    /\ receiver = TRUE /\ buffer = <<>> /\ failed = FALSE /\ pending = <<>>
    /\ delivered = <<>>

SendFrame ==
    /\ sender /\ sending = <<>>
    /\ handed + 1 \in Frame
    /\ handed' = handed + 1
    /\ sending' = Units(handed + 1)
    /\ UNCHANGED <<abandoned, sender, wire>>
    /\ UNCHANGED receiveVars

\* send: the kernel takes what it has room for.
Send ==
    /\ sender /\ receiver /\ sending # <<>>
    /\ \E n \in 1..Len(sending) :
          /\ Len(wire) + n <= Capacity
          /\ wire' = wire \o SubSeq(sending, 1, n)
          /\ sending' = SubSeq(sending, n + 1, Len(sending))
    /\ UNCHANGED <<handed, abandoned, sender>>
    /\ UNCHANGED receiveVars

\* The kernel has no room until the deadline; what was sent stays sent.  The
\* coordinator ignores the status of a reply and keeps the connection.
SendExpires ==
    /\ sender /\ receiver /\ sending # <<>>
    /\ Len(wire) = Capacity
    /\ abandoned' = abandoned \cup {handed}
    /\ sending' = <<>>
    /\ UNCHANGED <<handed, sender, wire>>
    /\ UNCHANGED receiveVars

\* "send failed": the other side has closed its socket.
SendFails ==
    /\ sender /\ ~receiver /\ sending # <<>>
    /\ sending' = <<>>
    /\ UNCHANGED <<handed, abandoned, sender, wire>>
    /\ UNCHANGED receiveVars

\* The sending side closes its socket or its process ends.  Closing with unread
\* input resets the connection: what is in flight may be lost from the end.
CloseSender ==
    /\ sender
    /\ sender' = FALSE
    /\ sending' = <<>>
    /\ \E n \in 0..Len(wire) : wire' = SubSeq(wire, 1, n)
    /\ UNCHANGED <<handed, abandoned>>
    /\ UNCHANGED receiveVars

-----------------------------------------------------------------------------
(* The receiving thread *)

\* Mutant: only the first frame of a read is kept.
ReturnOnly(frames) ==
    /\ delivered' = Append(delivered, frames[1])
    /\ pending' = <<>>

\* Mutant: the newest decoded frame is returned first.
ReturnNewest(frames) ==
    /\ delivered' = Append(delivered, Last(frames))
    /\ pending' = Front(frames)

\* The first decoded frame is returned, the others wait in pending_.
Return(frames) ==
    /\ delivered' = Append(delivered, frames[1])
    /\ pending' = Tail(frames)

ReceivePending ==
    /\ receiver /\ ~failed /\ pending # <<>>
    /\ Return(pending)
    /\ UNCHANGED <<receiver, buffer, failed, wire>>
    /\ UNCHANGED sendVars

\* recv, feed: a read may end anywhere.  When the decoder fails, the frames it
\* completed in the same call are lost with it.
Receive ==
    /\ receiver /\ ~failed /\ pending = <<>>
    /\ \E n \in 1..Len(wire), mixed \in Mixed :
          LET outcome == Drained(SubSeq(wire, 1, n), mixed) IN
          /\ wire' = SubSeq(wire, n + 1, Len(wire))
          /\ buffer' = outcome.rest
          /\ failed' = outcome.bad
          /\ IF outcome.bad \/ outcome.frames = <<>>
             THEN UNCHANGED <<pending, delivered>>
             ELSE Return(outcome.frames)
    /\ UNCHANGED receiver
    /\ UNCHANGED sendVars

\* "peer closed the connection", a decoder that failed, or a decision of the
\* owner; units of an incomplete frame are dropped unreported.  A deadline that
\* expires in receive_frame changes nothing.
CloseReceiver ==
    /\ receiver
    /\ receiver' = FALSE
    /\ UNCHANGED <<buffer, failed, pending, delivered, wire>>
    /\ UNCHANGED sendVars

Next ==
    \/ SendFrame \/ Send \/ SendExpires \/ SendFails \/ CloseSender
    \/ ReceivePending \/ Receive \/ CloseReceiver

\* send_all loops until all is sent or the deadline ends it; the owner of a
\* connection calls receive_frame again and again.
Fairness ==
    /\ WF_vars(Send)
    /\ WF_vars(ReceivePending)
    /\ WF_vars(Receive)

Spec == Init /\ [][Next]_vars /\ Fairness

-----------------------------------------------------------------------------
(* Properties *)

\* Type invariant: the units on their way are units of frames; the decoder, too,
\* holds less than one frame of the largest size, whatever a header declares.
TypeOK ==
    /\ handed \in 0..Len(Size)
    /\ sending \in Seq(Unit) /\ wire \in Seq(Unit) /\ buffer \in Seq(Unit)
    /\ Len(wire) <= Capacity /\ Len(buffer) < Ceiling
    /\ abandoned \subseteq 1..handed
    /\ {sender, receiver, failed} \subseteq BOOLEAN
    /\ pending \in Seq(Frame) /\ delivered \in Seq(Frame)

\* However the stream is cut into reads and wherever a send was given up, the
\* frames received are those sent whole, each once and in order, without a gap:
\* nothing that follows a frame left unfinished in the stream is ever taken for
\* a frame (drain, receive_frame, send_all).
DeliveredInOrder ==
    LET known == delivered \o pending
    IN  /\ \A i, j \in DOMAIN known : i < j => known[i] < known[j]
        /\ \A f \in Range(known) :
              /\ f <= handed /\ f \notin abandoned
              /\ \A g \in 1..f : g \in abandoned \cup Range(known)

\* The decoder never fails on a connection on which every send ran to its end:
\* a read that stops inside a header, a payload or a digest is no violation of
\* the protocol.
FailureHasACause == failed => abandoned # {}

\* While both sides stay open and no send is given up, every frame handed to
\* send_frame is received: none is left in the decoder or among the frames of
\* an earlier read.
FramesArrive ==
    \A f \in Frame :
        handed = f ~> \/ f \in Range(delivered)
                      \/ abandoned # {} \/ ~sender \/ ~receiver
==============================================================================
