-------------------------- MODULE OutputPumpProofs --------------------------
(***************************************************************************)
(* What the application's output pump guarantees however long the tail     *)
(* stage sends, checked by TLAPS.                                          *)
(***************************************************************************)
EXTENDS OutputPump, LinkProofs

-----------------------------------------------------------------------------
(***************************************************************************)
(* What a step does to the frames the pump holds and to the tail link.     *)
(***************************************************************************)

\* The tail stage sends a frame or leaves.
TailArrival == pump' = pump /\ Sent(output, output')

\* An Interrupt, taken off the tail link, is applied.
Interrupted ==
    /\ output.sys /= <<>>
    /\ Head(output.sys).kind = "interrupt"
    /\ pump'.pc = "recv" /\ pump'.taken = <<>> /\ pump'.discard
    /\ pump'.cut = Head(output.sys).seq /\ pump'.heard = Head(output.sys).ep
    /\ pump'.pending = Durables(pump.pending) \o FlushedData(output.data, Head(output.sys).seq)
    /\ UNCHANGED <<pump.chunk, pump.ring>>
    /\ output'.data = <<>> /\ output'.sys = Tail(output.sys)
    /\ UNCHANGED <<output.next, output.ep>>

\* Any other system frame is printed, or, during a push, set aside.
TakenSystem ==
    /\ output.sys /= <<>>
    /\ output'.sys = Tail(output.sys)
    /\ UNCHANGED <<output.data, output.next, output.ep>>
    /\ pump'.pc /= "playing" => pump'.taken = <<>>
    /\ UNCHANGED <<pump.pc, pump.pending, pump.chunk, pump.ring, pump.discard, pump.cut, pump.heard>>

LEMMA ApplyEffect ==
    ASSUME NEW l \in PumpType, NEW frame \in SysFrame, output \in LinkType, output.sys /= <<>>,
           ApplySystem(frame, l)
    PROVE  /\ TypeOK'
           /\ output'.sys = Tail(output.sys)
           /\ UNCHANGED <<output.next, output.ep>>
           /\ pump'.pc = l.pc /\ pump'.taken = l.taken
           /\ pump'.chunk = l.chunk /\ pump'.ring = l.ring
           /\ frame.kind = "interrupt" =>
                /\ output'.data = <<>> /\ pump'.discard
                /\ pump'.cut = frame.seq /\ pump'.heard = frame.ep
                /\ pump'.pending = Durables(l.pending) \o FlushedData(output.data, l.floor)
           /\ frame.kind /= "interrupt" => pump' = l /\ output'.data = output.data
  <1>1. CASE frame.kind = "interrupt"
    <2>1. /\ pump' = [l EXCEPT !.discard = TRUE,
                        !.pending = Durables(@) \o FlushedData(output.data, l.floor),
                        !.cut = frame.seq, !.heard = frame.ep]
          /\ output' = [PopSys(output) EXCEPT !.data = <<>>]
      BY <1>1 DEF ApplySystem
    <2>. DEFINE q == Durables(l.pending) \o FlushedData(output.data, l.floor)
    <2>2. pump' = [l EXCEPT !.discard = TRUE, !.pending = q, !.cut = frame.seq, !.heard = frame.ep]
      BY <2>1
    <2>5. q \in Seq(DataFrame)
      <3>1. l.pending \in Seq(DataFrame) /\ output.data \in Seq(DataFrame)
        BY DEF PumpType, LinkType
      <3>2. Durables(l.pending) \in Seq(DataFrame) /\ FlushedData(output.data, l.floor) \in Seq(DataFrame)
        BY <3>1, RetainEffect DEF Durables, FlushedData
      <3>. QED  BY <3>2
    <2>. HIDE DEF q
    <2>6. pump' \in PumpType
      BY <2>2, <2>5 DEF PumpType, SysFrame
    <2>7. output' \in LinkType
      <3>1. PopSys(output) \in LinkType /\ <<>> \in Seq(DataFrame)
        BY PopSysType
      <3>. QED  BY <2>1, <3>1 DEF LinkType
    <2>3. /\ pump'.pc = l.pc /\ pump'.taken = l.taken
          /\ pump'.chunk = l.chunk /\ pump'.ring = l.ring
          /\ pump'.cut = frame.seq /\ pump'.heard = frame.ep
          /\ pump'.pending = q /\ pump'.discard = TRUE
      BY <2>2 DEF PumpType
    <2>4. output'.sys = Tail(output.sys) /\ output'.data = <<>> /\ UNCHANGED <<output.next, output.ep>>
      BY <2>1 DEF PopSys, LinkType
    <2>. QED  BY <1>1, <2>3, <2>4, <2>6, <2>7 DEF q, TypeOK
  <1>2. CASE frame.kind /= "interrupt"
    BY <1>2, PopSysType, PopEffect DEF ApplySystem, TypeOK
  <1>. QED  BY <1>1, <1>2

LEMMA SystemFrames ==
    ASSUME TypeOK, Ordered, TakeSystem \/ RaceTakesSystem
    PROVE  TypeOK' /\ (Interrupted \/ TakenSystem)
  <1>. DEFINE frame == Head(output.sys)
              l == [pump EXCEPT !.floor = frame.seq]
              m == [pump EXCEPT !.pc = "recv", !.taken = <<>>, !.floor = frame.seq]
  <1>1. pump \in PumpType /\ output \in LinkType
    BY DEF TypeOK
  <1>2. output.sys /= <<>> /\ frame \in SysFrame
    BY <1>1, PopSysType DEF TakeSystem, RaceTakesSystem
  <1>. HIDE DEF frame
  <1>3. frame.seq \in Nat
    BY <1>2 DEF SysFrame
  <1>4. /\ l \in PumpType /\ l.floor = frame.seq /\ l.pc = pump.pc /\ l.pending = pump.pending
        /\ l.taken = pump.taken /\ l.chunk = pump.chunk /\ l.ring = pump.ring
        /\ l.discard = pump.discard /\ l.cut = pump.cut /\ l.heard = pump.heard
    BY <1>1, <1>3 DEF PumpType
  <1>5. /\ m \in PumpType /\ m.floor = frame.seq /\ m.pc = "recv" /\ m.taken = <<>>
        /\ m.pending = pump.pending /\ m.chunk = pump.chunk /\ m.ring = pump.ring
    <2>1. <<>> \in Seq(SysFrame)
      OBVIOUS
    <2>. QED  BY <1>1, <1>3, <2>1 DEF PumpType
  <1>6. CASE TakeSystem
    <2>1. ApplySystem(frame, l) /\ pump.pc = "recv" /\ pump.taken = <<>>
      BY <1>6 DEF TakeSystem, frame, Ordered
    <2>. HIDE DEF l
    <2>2. CASE frame.kind = "interrupt"
      BY <1>1, <1>2, <1>4, <2>1, <2>2, ApplyEffect DEF Interrupted, frame
    <2>3. CASE frame.kind /= "interrupt"
      BY <1>1, <1>2, <1>4, <2>1, <2>3, ApplyEffect DEF TakenSystem
    <2>. QED  BY <2>2, <2>3
  <1>7. CASE RaceTakesSystem
    <2>1. CASE frame.kind = "interrupt"
      <3>1. ApplySystem(frame, m)
        BY <1>7, <2>1 DEF RaceTakesSystem, frame
      <3>. HIDE DEF m
      <3>. QED  BY <1>1, <1>2, <1>5, <2>1, <3>1, ApplyEffect DEF Interrupted, frame
    <2>2. CASE frame.kind /= "interrupt"
      <3>1. /\ pump' = [pump EXCEPT !.floor = frame.seq, !.taken = Append(pump.taken, frame)]
            /\ output' = PopSys(output) /\ pump.pc = "playing"
        BY <1>7, <2>2 DEF RaceTakesSystem, frame
      <3>2. /\ pump'.pc = "playing" /\ pump'.pending = pump.pending /\ pump'.chunk = pump.chunk
            /\ pump'.ring = pump.ring /\ pump'.discard = pump.discard /\ pump'.cut = pump.cut
            /\ pump'.heard = pump.heard
        BY <1>1, <3>1 DEF PumpType
      <3>3. pump' \in PumpType
        <4>1. Append(pump.taken, frame) \in Seq(SysFrame)
          BY <1>1, <1>2 DEF PumpType
        <4>. QED  BY <1>1, <1>3, <3>1, <4>1 DEF PumpType
      <3>. QED  BY <1>1, <1>2, <3>1, <3>2, <3>3, PopSysType, PopEffect DEF TakenSystem, TypeOK
    <2>. QED  BY <2>1, <2>2
  <1>. QED  BY <1>6, <1>7

\* The next data frame, a keeper or from the tail link: audio becomes the chunk to play.
Begun ==
    \E frame \in DataFrame :
      /\ pump.pc = "recv"
      /\ \/ /\ pump.pending /= <<>> /\ frame = Head(pump.pending)
            /\ pump'.pending = Tail(pump.pending) /\ output'.data = output.data
         \/ /\ pump.pending = <<>> /\ pump'.pending = <<>>
            /\ output.data /= <<>> /\ frame = Head(output.data)
            /\ output'.data = Tail(output.data)
      /\ \/ frame.kind = "media" /\ pump'.pc = "playing" /\ pump'.chunk = frame
         \/ pump'.pc = "recv" /\ pump'.chunk = pump.chunk
      /\ UNCHANGED <<pump.taken, pump.ring, pump.discard, pump.cut, pump.heard,
                     output.sys, output.next, output.ep>>

\* Some of the chunk, or its end, is in the ring, or the closed system lane is noticed.
Pushed ==
    /\ output' = output
    /\ pump.pc = "playing"
    /\ \/ pump'.pc = "playing" /\ pump'.taken = pump.taken
       \/ pump'.pc = "recv" /\ pump'.taken = <<>>
    /\ pump'.ring = pump.ring \/ pump'.ring = pump.ring \cup {pump.chunk}
    /\ UNCHANGED <<pump.pending, pump.chunk, pump.discard, pump.cut, pump.heard>>

Left ==
    /\ pump'.pc = "done" /\ pump'.pending = <<>> /\ pump'.taken = <<>>
    /\ output'.sys = <<>> /\ output'.data = <<>>
    /\ UNCHANGED <<pump.chunk, pump.ring, pump.discard, pump.cut, pump.heard,
                   output.next, output.ep>>

\* The device's callback took from the ring; only when it found a discard is that withdrawn.
Called ==
    /\ output' = output
    /\ pump'.ring = {} \/ (pump'.ring \subseteq pump.ring /\ pump'.discard = pump.discard)
    /\ UNCHANGED <<pump.pc, pump.pending, pump.taken, pump.chunk, pump.cut, pump.heard>>

LEMMA BeginEffect ==
    ASSUME NEW frame \in DataFrame, NEW l \in PumpType, Begin(frame, l)
    PROVE  /\ pump' \in PumpType
           /\ pump'.pending = l.pending /\ pump'.taken = l.taken /\ pump'.ring = l.ring
           /\ pump'.discard = l.discard /\ pump'.cut = l.cut /\ pump'.heard = l.heard
           /\ \/ frame.kind = "media" /\ pump'.pc = "playing" /\ pump'.chunk = frame
              \/ pump'.pc = l.pc /\ pump'.chunk = l.chunk
  BY DEF Begin, PumpType

LEMMA DataFrames ==
    ASSUME TypeOK, TakePending \/ TakeData
    PROVE  TypeOK' /\ Begun
  <1>1. pump \in PumpType /\ output \in LinkType /\ pump.pending \in Seq(DataFrame)
    BY DEF TypeOK, PumpType
  <1>2. CASE TakePending
    <2>. DEFINE l == [pump EXCEPT !.pending = Tail(pump.pending)]
    <2>1. /\ pump.pending /= <<>> /\ pump.pc = "recv" /\ output' = output
          /\ Begin(Head(pump.pending), l)
      BY <1>2 DEF TakePending
    <2>2. Head(pump.pending) \in DataFrame /\ Tail(pump.pending) \in Seq(DataFrame)
      BY <1>1, <2>1
    <2>3. /\ l \in PumpType /\ l.pending = Tail(pump.pending) /\ l.taken = pump.taken
          /\ l.ring = pump.ring /\ l.discard = pump.discard /\ l.cut = pump.cut
          /\ l.heard = pump.heard /\ l.pc = pump.pc /\ l.chunk = pump.chunk
      BY <1>1, <2>2 DEF PumpType
    <2>. HIDE DEF l
    <2>. QED  BY <1>1, <2>1, <2>2, <2>3, BeginEffect DEF TypeOK, Begun
  <1>3. CASE TakeData
    <2>1. /\ pump.pending = <<>> /\ pump.pc = "recv" /\ output.data /= <<>>
          /\ Begin(Head(output.data), pump) /\ output' = PopData(output)
      BY <1>3 DEF TakeData
    <2>2. Head(output.data) \in DataFrame /\ output' \in LinkType
      BY <1>1, <2>1, PopDataType
    <2>. QED  BY <1>1, <2>1, <2>2, BeginEffect, PopEffect DEF TypeOK, Begun
  <1>. QED  BY <1>2, <1>3

LEMMA Pushes ==
    ASSUME TypeOK, Push \/ PlayDone \/ RaceSeesClose
    PROVE  TypeOK' /\ Pushed
  <1>1. pump \in PumpType /\ output \in LinkType /\ pump.chunk \in DataFrame
    BY DEF TypeOK, PumpType, NoChunk, DataFrame, DataKinds
  <1>2. <<>> \in Seq(SysFrame)
    OBVIOUS
  <1>3. CASE Push
    BY <1>1, <1>3 DEF Push, Pushing, PumpType, TypeOK, Pushed
  <1>4. CASE PlayDone
    BY <1>1, <1>2, <1>4 DEF PlayDone, Pushing, PumpType, TypeOK, Pushed
  <1>5. CASE RaceSeesClose
    BY <1>1, <1>5 DEF RaceSeesClose, PumpType, TypeOK, Pushed
  <1>. QED  BY <1>3, <1>4, <1>5

LEMMA Leaves ==
    ASSUME TypeOK, PlayFails \/ Finish
    PROVE  TypeOK' /\ Left
  <1>1. pump \in PumpType /\ output \in LinkType
    BY DEF TypeOK
  <1>2. Leave
    BY DEF PlayFails, Finish
  <1>3. <<>> \in Seq(SysFrame) /\ <<>> \in Seq(DataFrame)
    OBVIOUS
  <1>4. pump' \in PumpType
    BY <1>1, <1>2, <1>3 DEF Leave, PumpType
  <1>5. output' \in LinkType
    BY <1>1, <1>2, DropType DEF Leave
  <1>6. /\ pump'.pc = "done" /\ pump'.pending = <<>> /\ pump'.taken = <<>>
        /\ UNCHANGED <<pump.chunk, pump.ring, pump.discard, pump.cut, pump.heard>>
    BY <1>1, <1>2 DEF Leave, PumpType
  <1>7. output'.sys = <<>> /\ output'.data = <<>> /\ UNCHANGED <<output.next, output.ep>>
    BY <1>1, <1>2 DEF Leave, DropInbound, LinkType
  <1>. QED  BY <1>4, <1>5, <1>6, <1>7 DEF TypeOK, Left

LEMMA Calls ==
    ASSUME TypeOK, DeviceDiscards \/ DevicePlays
    PROVE  TypeOK' /\ Called
  <1>1. pump \in PumpType /\ output \in LinkType
    BY DEF TypeOK
  <1>2. CASE DeviceDiscards
    BY <1>1, <1>2 DEF DeviceDiscards, PumpType, TypeOK, Called
  <1>3. CASE DevicePlays
    BY <1>1, <1>3 DEF DevicePlays, PumpType, TypeOK, Called
  <1>. QED  BY <1>2, <1>3

LEMMA TailArrives ==
    ASSUME TypeOK, TailSends \/ TailReturns
    PROVE  TypeOK' /\ TailArrival
  <1>1. pump \in PumpType /\ output \in LinkType /\ output.ep \in Nat /\ pump' = pump
    BY DEF TypeOK, LinkType, TailSends, TailReturns
  <1>2. ASSUME NEW kind \in SentData, output' = SendData(output, kind, output.ep)
        PROVE  TypeOK' /\ TailArrival
    BY <1>1, <1>2, SendDataType, SendDataSent, TailAssumption DEF TypeOK, TailArrival
  <1>3. ASSUME NEW kind \in SentSystem,
               output' = SendSystem(output, kind,
                                    IF kind = "interrupt" THEN output.ep + 1 ELSE output.ep)
        PROVE  TypeOK' /\ TailArrival
    <2>. DEFINE ep == IF kind = "interrupt" THEN output.ep + 1 ELSE output.ep
    <2>1. kind \in SysKinds /\ ep \in Nat /\ ep >= output.ep
      BY <1>1, TailAssumption
    <2>. QED  BY <1>1, <1>3, <2>1, SendSystemType, SendSystemSent DEF TypeOK, TailArrival
  <1>4. CASE TailReturns
    BY <1>1, <1>4, DropType, CloseSent DEF TailReturns, TypeOK, TailArrival
  <1>. QED  BY <1>2, <1>3, <1>4 DEF TailSends

\* The pump only receives.
LEMMA PumpDraws ==
    ASSUME TypeOK, PumpNext
    PROVE  Drawn(output, output')
  <1>1. output \in LinkType
    BY DEF TypeOK
  <1>2. \/ output' = output \/ output' = DropInbound(output)
        \/ output.sys /= <<>> /\ output' = PopSys(output)
        \/ output.sys /= <<>> /\ output' = [PopSys(output) EXCEPT !.data = <<>>]
        \/ output.data /= <<>> /\ output' = PopData(output)
    BY DEF PumpNext, Pumping, Device, TakePending, TakeSystem, TakeData, RaceTakesSystem,
         RaceSeesClose, Finish, Push, PlayDone, PlayFails, Leave, DeviceDiscards, DevicePlays,
         ApplySystem
  <1>. QED  BY <1>1, <1>2, ReceiverDraws

-----------------------------------------------------------------------------
(***************************************************************************)
(* Each kind of step keeps the parts of the invariant.                     *)
(***************************************************************************)
\* The parts beside the types, and all that they speak of.
Parts == Ordered /\ NothingStaleAudible /\ NothingStaleHeld /\ CausesInOrder

LEMMA TypedFields ==
    ASSUME TypeOK
    PROVE  /\ pump.pending \in Seq(DataFrame) /\ output.data \in Seq(DataFrame)
           /\ output.sys \in Seq(SysFrame) /\ output.next \in Nat /\ output.ep \in Nat
           /\ pump.chunk \in DataFrame /\ pump.cut \in Nat /\ pump.heard \in Nat
           /\ pump.discard \in BOOLEAN
           /\ \A f \in Frames(pump.pending) \cup Frames(output.data) \cup Frames(output.sys)
                       \cup pump.ring : f.seq \in Nat /\ f.ep \in Nat
           /\ pump.chunk.seq \in Nat /\ pump.chunk.ep \in Nat
  <1>1. /\ pump.pending \in Seq(DataFrame) /\ output.data \in Seq(DataFrame)
        /\ output.sys \in Seq(SysFrame) /\ output.next \in Nat /\ output.ep \in Nat
        /\ pump.chunk \in DataFrame /\ pump.cut \in Nat /\ pump.heard \in Nat
        /\ pump.discard \in BOOLEAN /\ pump.ring \subseteq DataFrame
    BY DEF TypeOK, LinkType, PumpType, NoChunk, DataFrame, DataKinds
  <1>2. /\ Frames(pump.pending) \subseteq DataFrame /\ Frames(output.data) \subseteq DataFrame
        /\ Frames(output.sys) \subseteq SysFrame
    BY <1>1, FramesType
  <1>3. \A f \in DataFrame \cup SysFrame : f.seq \in Nat /\ f.ep \in Nat
    BY DEF DataFrame, SysFrame
  <1>. QED  BY <1>1, <1>2, <1>3

LEMMA InterruptedKeeps ==
    ASSUME PumpInv, TypeOK', Interrupted
    PROVE  Parts'
  <1>. DEFINE frame == Head(output.sys)
              kept == Durables(pump.pending)
              left == FlushedData(output.data, frame.seq)
  <1>0. /\ TypeOK /\ Ordered /\ NothingStaleHeld /\ CausesInOrder
    BY DEF PumpInv
  <1>1. /\ pump.pending \in Seq(DataFrame) /\ output.data \in Seq(DataFrame)
        /\ output.sys \in Seq(SysFrame) /\ output.next \in Nat /\ output.ep \in Nat
        /\ pump.chunk.seq \in Nat
        /\ \A f \in Frames(pump.pending) \cup Frames(output.data) \cup Frames(output.sys) :
             f.seq \in Nat /\ f.ep \in Nat
    BY <1>0, TypedFields
  <1>2. /\ output.sys /= <<>> /\ frame.kind = "interrupt"
        /\ pump'.pc = "recv" /\ pump'.taken = <<>> /\ pump'.discard
        /\ pump'.cut = frame.seq /\ pump'.heard = frame.ep
        /\ pump'.pending = kept \o left
        /\ pump'.chunk = pump.chunk
        /\ output'.data = <<>> /\ output'.sys = Tail(output.sys)
        /\ output'.next = output.next /\ output'.ep = output.ep
    BY DEF Interrupted
  <1>3. /\ kept \in Seq(DataFrame) /\ left \in Seq(DataFrame)
        /\ Ascending(kept) /\ Ascending(left)
        /\ Frames(kept) = {f \in Frames(pump.pending) : SurvivesFlush(f)}
        /\ Frames(left) = {f \in Frames(output.data) : Kept(f, frame.seq)}
    BY <1>0, <1>1, RetainEffect, AscendingRetain DEF Durables, FlushedData, Ordered
  <1>4. /\ Frames(output.sys) = {frame} \cup Frames(Tail(output.sys))
        /\ Ascending(Tail(output.sys))
        /\ \A f \in Frames(Tail(output.sys)) : frame.seq < f.seq
    BY <1>0, <1>1, <1>2, FramesOfTail, AscendingTail DEF Ordered
  <1>. HIDE DEF frame, kept, left
  <1>5. Precede(kept, left)
    BY <1>0, <1>3 DEF Ordered, Precede
  <1>6. /\ Ascending(pump'.pending)
        /\ Frames(pump'.pending) = Frames(kept) \cup Frames(left)
    BY <1>2, <1>3, <1>5, FramesOfConcat
  <1>7. Frames(output'.data) = {} /\ Ascending(output'.data)
    BY <1>2, FramesOfEmpty
  <1>8. /\ frame \in Interrupts /\ Interrupts' \subseteq Interrupts
        /\ \A g \in Interrupts' : frame.seq < g.seq
        /\ Interrupts \subseteq Frames(output.sys)
    BY <1>2, <1>4 DEF Interrupts
  <1>9. Frames(pump'.pending) \subseteq Frames(pump.pending) \cup Frames(output.data)
    BY <1>3, <1>6
  <1>10. Ordered'
    <2>1. Precede(pump'.pending, output'.data)
      BY <1>7 DEF Precede
    <2>. QED  BY <1>0, <1>1, <1>2, <1>4, <1>6, <1>7, <1>9, <2>1 DEF Ordered
  <1>11. NothingStaleAudible'
    BY <1>2 DEF NothingStaleAudible
  <1>12. NothingStaleHeld'
    BY <1>2, <1>3, <1>6, <1>7 DEF NothingStaleHeld, Kept
  <1>13. CausesInOrder'
    <2>1. ASSUME NEW g \in Interrupts'
          PROVE  /\ pump'.heard <= g.ep /\ g.ep <= output'.ep
                 /\ \A f \in Frames(pump'.pending) \cup Frames(output'.data) \cup Interrupts' :
                      g.seq <= f.seq => g.ep <= f.ep
      <3>1. frame.seq <= g.seq
        BY <1>1, <1>8, <2>1
      <3>. QED  BY <1>0, <1>2, <1>7, <1>8, <1>9, <2>1, <3>1 DEF CausesInOrder
    <2>2. pump'.heard <= output'.ep
      BY <1>0, <1>2, <1>8 DEF CausesInOrder
    <2>3. ASSUME NEW f \in Frames(pump'.pending) \cup Frames(output'.data), pump'.cut <= f.seq
          PROVE  pump'.heard <= f.ep
      BY <1>0, <1>2, <1>7, <1>8, <1>9, <2>3 DEF CausesInOrder
    <2>. QED  BY <1>2, <2>1, <2>2, <2>3 DEF CausesInOrder
  <1>. QED  BY <1>10, <1>11, <1>12, <1>13 DEF Parts

LEMMA TakenKeeps ==
    ASSUME PumpInv, TypeOK', TakenSystem
    PROVE  Parts'
  <1>0. /\ TypeOK /\ Ordered /\ NothingStaleAudible /\ NothingStaleHeld /\ CausesInOrder
    BY DEF PumpInv
  <1>1. output.sys \in Seq(SysFrame) /\ output.sys /= <<>>
    BY <1>0, TypedFields DEF TakenSystem
  <1>2. /\ Frames(Tail(output.sys)) \subseteq Frames(output.sys)
        /\ Ascending(Tail(output.sys))
    BY <1>0, <1>1, FramesOfTail, AscendingTail DEF Ordered
  <1>3. /\ output'.sys = Tail(output.sys) /\ output'.data = output.data
        /\ output'.next = output.next /\ output'.ep = output.ep
        /\ pump'.pc = pump.pc /\ pump'.pending = pump.pending /\ pump'.chunk = pump.chunk
        /\ pump'.ring = pump.ring /\ pump'.discard = pump.discard /\ pump'.cut = pump.cut
        /\ pump'.heard = pump.heard /\ (pump'.pc /= "playing" => pump'.taken = <<>>)
    BY DEF TakenSystem
  <1>4. Interrupts' \subseteq Interrupts
    BY <1>2, <1>3 DEF Interrupts
  <1>5. Ordered'
    BY <1>0, <1>2, <1>3 DEF Ordered
  <1>6. NothingStaleAudible' /\ NothingStaleHeld'
    BY <1>0, <1>3 DEF NothingStaleAudible, NothingStaleHeld
  <1>7. CausesInOrder'
    BY <1>0, <1>3, <1>4 DEF CausesInOrder
  <1>. QED  BY <1>5, <1>6, <1>7 DEF Parts

LEMMA BegunKeeps ==
    ASSUME PumpInv, TypeOK', Begun
    PROVE  Parts'
  <1>0. /\ TypeOK /\ Ordered /\ NothingStaleAudible /\ NothingStaleHeld /\ CausesInOrder
    BY DEF PumpInv
  <1>. PICK frame \in DataFrame :
          /\ pump.pc = "recv"
          /\ \/ /\ pump.pending /= <<>> /\ frame = Head(pump.pending)
                /\ pump'.pending = Tail(pump.pending) /\ output'.data = output.data
             \/ /\ pump.pending = <<>> /\ pump'.pending = <<>>
                /\ output.data /= <<>> /\ frame = Head(output.data)
                /\ output'.data = Tail(output.data)
          /\ \/ frame.kind = "media" /\ pump'.pc = "playing" /\ pump'.chunk = frame
             \/ pump'.pc = "recv" /\ pump'.chunk = pump.chunk
          /\ UNCHANGED <<pump.taken, pump.ring, pump.discard, pump.cut, pump.heard,
                         output.sys, output.next, output.ep>>
    BY DEF Begun
  <1>. DEFINE Held == Frames(pump.pending) \cup Frames(output.data)
  <1>1. /\ pump.pending \in Seq(DataFrame) /\ output.data \in Seq(DataFrame)
        /\ output.sys \in Seq(SysFrame) /\ output.next \in Nat /\ output.ep \in Nat
        /\ pump.chunk.seq \in Nat /\ pump.cut \in Nat /\ pump.heard \in Nat
        /\ \A f \in Held : f.seq \in Nat /\ f.ep \in Nat
    BY <1>0, TypedFields
  <1>2. /\ frame \in Held /\ Held' \subseteq Held
        /\ \A f \in Held' : frame.seq < f.seq
        /\ Ascending(pump'.pending) /\ Ascending(output'.data)
        /\ Precede(pump'.pending, output'.data)
    <2>1. CASE /\ pump.pending /= <<>> /\ frame = Head(pump.pending)
               /\ pump'.pending = Tail(pump.pending) /\ output'.data = output.data
      <3>1. /\ Frames(pump.pending) = {frame} \cup Frames(pump'.pending)
            /\ Ascending(pump'.pending)
            /\ \A f \in Frames(pump'.pending) : frame.seq < f.seq
        BY <1>0, <1>1, <2>1, FramesOfTail, AscendingTail DEF Ordered
      <3>2. \A f \in Frames(output.data) : frame.seq < f.seq
        BY <1>0, <3>1 DEF Ordered, Precede
      <3>. QED  BY <1>0, <2>1, <3>1, <3>2 DEF Ordered, Precede
    <2>2. CASE /\ pump.pending = <<>> /\ pump'.pending = <<>>
               /\ output.data /= <<>> /\ frame = Head(output.data)
               /\ output'.data = Tail(output.data)
      <3>1. /\ Frames(output.data) = {frame} \cup Frames(output'.data)
            /\ Ascending(output'.data)
            /\ \A f \in Frames(output'.data) : frame.seq < f.seq
        BY <1>0, <1>1, <2>2, FramesOfTail, AscendingTail DEF Ordered
      <3>2. Frames(pump'.pending) = {} /\ Ascending(pump'.pending)
        BY <2>2, FramesOfEmpty
      <3>. QED  BY <3>1, <3>2 DEF Precede
    <2>. QED  BY <2>1, <2>2
  <1>. HIDE DEF Held
  <1>3. /\ \A f \in Held : pump.chunk.seq < f.seq /\ f.seq < output.next /\ Kept(f, pump.cut)
        /\ \A f \in Held : pump.cut <= f.seq => pump.heard <= f.ep
    BY <1>0 DEF Held, Ordered, NothingStaleHeld, CausesInOrder
  <1>4. Interrupts' = Interrupts
    BY DEF Interrupts
  <1>5. pump'.chunk.seq < output.next /\ \A f \in Held' : pump'.chunk.seq < f.seq
    BY <1>0, <1>1, <1>2, <1>3 DEF Ordered
  <1>6. pump'.pc = "playing" => pump'.chunk = frame /\ frame.kind = "media"
    OBVIOUS
  <1>7. Ordered'
    <2>1. pump'.taken = <<>>
      BY <1>0 DEF Ordered
    <2>2. \A f \in Held' : pump'.chunk.seq < f.seq /\ f.seq < output'.next
      BY <1>2, <1>3, <1>5
    <2>. QED  BY <1>0, <1>2, <1>5, <2>1, <2>2 DEF Ordered, Held
  <1>8. NothingStaleAudible'
    <2>1. frame.kind = "media" => frame.seq >= pump.cut
      BY <1>2, <1>3 DEF Kept, SurvivesFlush
    <2>. QED  BY <1>0, <1>6, <2>1 DEF NothingStaleAudible
  <1>9. NothingStaleHeld'
    BY <1>2, <1>3 DEF NothingStaleHeld, Held
  <1>10. CausesInOrder'
    <2>1. frame.kind = "media" => pump.heard <= frame.ep
      BY <1>1, <1>2, <1>3 DEF Kept, SurvivesFlush
    <2>2. ASSUME NEW g \in Interrupts'
          PROVE  /\ pump'.heard <= g.ep /\ g.ep <= output'.ep
                 /\ \A f \in Held' \cup Interrupts' : g.seq <= f.seq => g.ep <= f.ep
      BY <1>0, <1>2, <1>4, <2>2 DEF CausesInOrder, Held
    <2>3. pump'.heard <= output'.ep
      BY <1>0 DEF CausesInOrder
    <2>4. \A f \in Held' : pump'.cut <= f.seq => pump'.heard <= f.ep
      BY <1>2, <1>3
    <2>5. pump'.pc = "playing" => pump'.heard <= pump'.chunk.ep
      BY <1>6, <2>1
    <2>6. ~pump'.discard => \A chunk \in pump'.ring : pump'.heard <= chunk.ep
      BY <1>0 DEF CausesInOrder
    <2>. QED  BY <2>2, <2>3, <2>4, <2>5, <2>6 DEF CausesInOrder, Held
  <1>. QED  BY <1>7, <1>8, <1>9, <1>10 DEF Parts

LEMMA DeviceKeeps ==
    ASSUME PumpInv, TypeOK', Pushed \/ Called
    PROVE  Parts'
  <1>0. /\ TypeOK /\ Ordered /\ NothingStaleAudible /\ NothingStaleHeld /\ CausesInOrder
    BY DEF PumpInv
  <1>1. /\ output' = output /\ pump'.pending = pump.pending /\ pump'.chunk = pump.chunk
        /\ pump'.cut = pump.cut /\ pump'.heard = pump.heard
        /\ pump'.pc = "playing" => pump.pc = "playing"
        /\ pump'.pc /= "playing" => pump'.taken = <<>>
    BY <1>0 DEF Pushed, Called, Ordered
  <1>2. \/ pump'.ring = {}
        \/ /\ pump'.discard = pump.discard
           /\ \A chunk \in pump'.ring : chunk \in pump.ring \/ (chunk = pump.chunk /\ pump.pc = "playing")
    BY DEF Pushed, Called
  <1>3. Interrupts' = Interrupts
    BY <1>1 DEF Interrupts
  <1>4. Ordered' /\ NothingStaleHeld'
    BY <1>0, <1>1 DEF Ordered, NothingStaleHeld
  <1>5. NothingStaleAudible'
    BY <1>0, <1>1, <1>2 DEF NothingStaleAudible
  <1>6. CausesInOrder'
    BY <1>0, <1>1, <1>2, <1>3 DEF CausesInOrder
  <1>. QED  BY <1>4, <1>5, <1>6 DEF Parts

LEMMA LeftKeeps ==
    ASSUME PumpInv, TypeOK', Left
    PROVE  Parts'
  <1>0. /\ TypeOK /\ Ordered /\ NothingStaleAudible /\ CausesInOrder
    BY DEF PumpInv
  <1>1. /\ pump'.pc = "done" /\ pump'.pending = <<>> /\ pump'.taken = <<>>
        /\ output'.sys = <<>> /\ output'.data = <<>>
        /\ pump'.chunk = pump.chunk /\ pump'.ring = pump.ring /\ pump'.discard = pump.discard
        /\ pump'.cut = pump.cut /\ pump'.heard = pump.heard
        /\ output'.next = output.next /\ output'.ep = output.ep
    BY DEF Left
  <1>2. /\ Frames(pump'.pending) = {} /\ Frames(output'.data) = {} /\ Frames(output'.sys) = {}
        /\ Ascending(pump'.pending) /\ Ascending(output'.data) /\ Ascending(output'.sys)
    BY <1>1, FramesOfEmpty
  <1>3. Interrupts' = {}
    BY <1>2 DEF Interrupts
  <1>4. Ordered'
    BY <1>0, <1>1, <1>2 DEF Ordered, Precede
  <1>5. NothingStaleAudible' /\ NothingStaleHeld'
    BY <1>0, <1>1, <1>2 DEF NothingStaleAudible, NothingStaleHeld
  <1>6. CausesInOrder'
    BY <1>0, <1>1, <1>2, <1>3 DEF CausesInOrder
  <1>. QED  BY <1>4, <1>5, <1>6 DEF Parts

LEMMA TailArrivalKeeps ==
    ASSUME PumpInv, TypeOK', TailArrival
    PROVE  PumpInv'
  <1>0. /\ TypeOK /\ Ordered /\ NothingStaleAudible /\ NothingStaleHeld /\ CausesInOrder
    BY DEF PumpInv
  <1>1. /\ pump.pending \in Seq(DataFrame) /\ output.data \in Seq(DataFrame)
        /\ output.sys \in Seq(SysFrame) /\ output.next \in Nat /\ output.ep \in Nat
        /\ pump.chunk.seq \in Nat /\ pump.cut \in Nat /\ pump.heard \in Nat
        /\ \A f \in Frames(pump.pending) \cup Frames(output.data) \cup Frames(output.sys) :
             f.seq \in Nat /\ f.ep \in Nat
    BY <1>0, TypedFields
  <1>2. pump' = pump
    BY DEF TailArrival
  <1>3. output'.ep \in Nat
    BY DEF TypeOK, LinkType
  <1>4. NothingStaleAudible'
    BY <1>0, <1>2 DEF NothingStaleAudible
  <1>5. pump.cut < output.next /\ pump.heard <= output.ep
    BY <1>0 DEF Ordered, CausesInOrder
  <1>6. CASE /\ output'.next = output.next \/ output'.next = output.next + 1
             /\ output'.ep >= output.ep
             /\ output'.sys = output.sys /\ output'.data = output.data
    <2>1. Interrupts' = Interrupts /\ Interrupts \subseteq Frames(output.sys)
      BY <1>6 DEF Interrupts
    <2>2. Ordered' /\ NothingStaleHeld'
      BY <1>0, <1>1, <1>2, <1>6 DEF Ordered, NothingStaleHeld
    <2>3. CausesInOrder'
      BY <1>0, <1>1, <1>2, <1>3, <1>6, <2>1 DEF CausesInOrder
    <2>. QED  BY <1>4, <2>2, <2>3 DEF PumpInv
  <1>7. CASE /\ output'.next = output.next + 1 /\ output'.data = output.data
             /\ \E frame \in SysFrame :
                  /\ frame.seq = output.next /\ frame.ep >= output.ep
                  /\ output'.ep = IF frame.kind = "interrupt" THEN frame.ep ELSE output.ep
                  /\ output'.sys = Append(output.sys, frame)
    <2>. PICK frame \in SysFrame :
            /\ frame.seq = output.next /\ frame.ep >= output.ep
            /\ output'.ep = IF frame.kind = "interrupt" THEN frame.ep ELSE output.ep
            /\ output'.sys = Append(output.sys, frame)
      BY <1>7
    <2>0. frame.ep \in Nat
      BY DEF SysFrame
    <2>1. /\ Frames(output'.sys) = Frames(output.sys) \cup {frame}
          /\ Ascending(output'.sys)
      BY <1>0, <1>1, FramesOfAppend, AscendingAppend DEF Ordered
    <2>2. Ordered'
      BY <1>0, <1>1, <1>2, <1>5, <1>7, <2>1 DEF Ordered
    <2>3. NothingStaleHeld'
      BY <1>0, <1>2, <1>7 DEF NothingStaleHeld
    <2>4. /\ Interrupts \subseteq Interrupts' /\ Interrupts' \subseteq Interrupts \cup {frame}
          /\ frame \in Interrupts' => frame.kind = "interrupt"
          /\ Interrupts \subseteq Frames(output.sys)
      BY <2>1 DEF Interrupts
    <2>5. \A g \in Interrupts : pump.heard <= g.ep /\ g.ep <= output.ep /\ g.ep <= output'.ep
      BY <1>0, <1>1, <1>3, <2>0, <2>4 DEF CausesInOrder
    <2>6. ASSUME NEW g \in Interrupts'
          PROVE  /\ pump'.heard <= g.ep /\ g.ep <= output'.ep
                 /\ \A f \in Frames(pump'.pending) \cup Frames(output'.data) \cup Interrupts' :
                      g.seq <= f.seq => g.ep <= f.ep
      <3>1. CASE g \in Interrupts
        <4>1. \A f \in Frames(pump'.pending) \cup Frames(output'.data) \cup Interrupts :
                g.seq <= f.seq => g.ep <= f.ep
          BY <1>0, <1>2, <1>7, <3>1 DEF CausesInOrder
        <4>2. g.ep <= frame.ep
          BY <1>1, <2>0, <2>4, <2>5, <3>1
        <4>. QED  BY <1>2, <2>4, <2>5, <3>1, <4>1, <4>2
      <3>2. CASE g = frame
        <4>1. \A f \in Frames(pump'.pending) \cup Frames(output'.data) \cup Interrupts :
                f.seq < output.next /\ f.seq \in Nat
          BY <1>0, <1>1, <1>2, <1>7, <2>4 DEF Ordered
        <4>2. g.ep = output'.ep
          BY <2>4, <2>6, <3>2
        <4>. QED  BY <1>1, <1>2, <1>5, <2>0, <2>4, <3>2, <4>1, <4>2
      <3>. QED  BY <2>4, <3>1, <3>2
    <2>7. pump'.heard <= output'.ep
      BY <1>1, <1>2, <1>5, <2>0
    <2>8. CausesInOrder'
      BY <1>0, <1>2, <1>7, <2>6, <2>7 DEF CausesInOrder
    <2>. QED  BY <1>4, <2>2, <2>3, <2>8 DEF PumpInv
  <1>8. CASE /\ output'.next = output.next + 1 /\ output'.ep = output.ep
             /\ output'.sys = output.sys
             /\ \E frame \in DataFrame :
                  /\ frame.seq = output.next /\ frame.ep >= output.ep
                  /\ output'.data = Append(output.data, frame)
    <2>. PICK frame \in DataFrame :
            /\ frame.seq = output.next /\ frame.ep >= output.ep
            /\ output'.data = Append(output.data, frame)
      BY <1>8
    <2>0. frame.ep \in Nat
      BY DEF DataFrame
    <2>1. /\ Frames(output'.data) = Frames(output.data) \cup {frame}
          /\ Ascending(output'.data)
      BY <1>0, <1>1, FramesOfAppend, AscendingAppend DEF Ordered
    <2>2. Precede(pump'.pending, output'.data)
      BY <1>0, <1>2, <2>1 DEF Ordered, Precede
    <2>3. Ordered'
      BY <1>0, <1>1, <1>2, <1>5, <1>8, <2>1, <2>2 DEF Ordered
    <2>4. NothingStaleHeld'
      BY <1>0, <1>1, <1>2, <1>5, <2>1 DEF NothingStaleHeld, Kept
    <2>5. Interrupts' = Interrupts /\ Interrupts \subseteq Frames(output.sys)
      BY <1>8 DEF Interrupts
    <2>6. ASSUME NEW g \in Interrupts
          PROVE  /\ pump'.heard <= g.ep /\ g.ep <= output'.ep
                 /\ \A f \in Frames(pump'.pending) \cup Frames(output'.data) \cup Interrupts :
                      g.seq <= f.seq => g.ep <= f.ep
      <3>1. g.ep <= frame.ep
        BY <1>0, <1>1, <2>0, <2>5, <2>6 DEF CausesInOrder
      <3>. QED  BY <1>0, <1>2, <1>8, <2>1, <2>6, <3>1 DEF CausesInOrder
    <2>7. \A f \in Frames(pump'.pending) \cup Frames(output'.data) :
            pump'.cut <= f.seq => pump'.heard <= f.ep
      <3>1. pump.heard <= frame.ep
        BY <1>1, <1>5, <2>0
      <3>. QED  BY <1>0, <1>2, <2>1, <3>1 DEF CausesInOrder
    <2>8. CausesInOrder'
      BY <1>0, <1>2, <1>8, <2>5, <2>6, <2>7 DEF CausesInOrder
    <2>. QED  BY <1>4, <2>3, <2>4, <2>8 DEF PumpInv
  <1>. QED  BY <1>1, <1>6, <1>7, <1>8 DEF TailArrival, Sent

-----------------------------------------------------------------------------
(***************************************************************************)
(* The invariant.                                                          *)
(***************************************************************************)
LEMMA PumpInit ==
    ASSUME Init
    PROVE  PumpInv
  <1>1. /\ output = NewLink /\ pump = NewPump
    BY DEF Init
  <1>2. /\ output.sys = <<>> /\ output.data = <<>> /\ output.next = 1 /\ output.ep = 0
        /\ pump.pc = "recv" /\ pump.pending = <<>> /\ pump.taken = <<>> /\ pump.chunk = NoChunk
        /\ pump.ring = {} /\ pump.cut = 0 /\ pump.heard = 0
    BY <1>1 DEF NewLink, NewPump
  <1>3. /\ Frames(pump.pending) = {} /\ Frames(output.data) = {} /\ Frames(output.sys) = {}
        /\ Ascending(pump.pending) /\ Ascending(output.data) /\ Ascending(output.sys)
    BY <1>2, FramesOfEmpty
  <1>4. <<>> \in Seq(DataFrame) /\ <<>> \in Seq(SysFrame)
    OBVIOUS
  <1>5. TypeOK
    BY <1>1, <1>4 DEF TypeOK, NewLink, NewPump, LinkType, PumpType
  <1>6. Interrupts = {}
    BY <1>3 DEF Interrupts
  <1>7. Ordered
    BY <1>2, <1>3 DEF Ordered, Precede, NoChunk
  <1>8. NothingStaleAudible /\ NothingStaleHeld
    BY <1>2, <1>3 DEF NothingStaleAudible, NothingStaleHeld
  <1>9. CausesInOrder
    BY <1>2, <1>3, <1>6 DEF CausesInOrder
  <1>. QED  BY <1>5, <1>7, <1>8, <1>9 DEF PumpInv

\* Every step of the pump and of the device, whoever else uses the tail link.
LEMMA PumpStep ==
    ASSUME PumpInv, PumpNext
    PROVE  PumpInv'
  <1>1. TypeOK /\ Ordered
    BY DEF PumpInv
  <1>2. CASE TakeSystem \/ RaceTakesSystem
    BY <1>1, <1>2, SystemFrames, InterruptedKeeps, TakenKeeps DEF PumpInv, Parts
  <1>3. CASE TakePending \/ TakeData
    BY <1>1, <1>3, DataFrames, BegunKeeps DEF PumpInv, Parts
  <1>4. CASE Push \/ PlayDone \/ RaceSeesClose
    BY <1>1, <1>4, Pushes, DeviceKeeps DEF PumpInv, Parts
  <1>5. CASE PlayFails \/ Finish
    BY <1>1, <1>5, Leaves, LeftKeeps DEF PumpInv, Parts
  <1>6. CASE DeviceDiscards \/ DevicePlays
    BY <1>1, <1>6, Calls, DeviceKeeps DEF PumpInv, Parts
  <1>. QED  BY <1>2, <1>3, <1>4, <1>5, <1>6 DEF PumpNext, Pumping, Device

LEMMA PumpRests ==
    ASSUME PumpInv, UNCHANGED vars
    PROVE  PumpInv'
  <1>1. output' = output /\ pump' = pump
    BY DEF vars
  <1>. QED  BY <1>1 DEF PumpInv, TypeOK, Ordered, NothingStaleAudible, NothingStaleHeld,
                        CausesInOrder, Interrupts

\* Whatever the tail stage sends and however long a chunk takes to play, what is heard, held
\* and queued after an Interrupt was applied is from after it (but for the durable frames).
THEOREM PumpInvariant == Spec => []PumpInv
  <1>1. Init => PumpInv
    BY PumpInit
  <1>2. PumpInv /\ [Next]_vars => PumpInv'
    <2>. SUFFICES ASSUME PumpInv, [Next]_vars PROVE PumpInv'
      OBVIOUS
    <2>1. CASE PumpNext
      BY <2>1, PumpStep
    <2>2. CASE TailSends \/ TailReturns
      BY <2>2, TailArrives, TailArrivalKeeps DEF PumpInv
    <2>3. CASE UNCHANGED vars
      BY <2>3, PumpRests
    <2>. QED  BY <2>1, <2>2, <2>3 DEF Next
  <1>. QED  BY <1>1, <1>2, PTL DEF Spec
=============================================================================
