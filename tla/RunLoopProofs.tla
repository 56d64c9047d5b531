--------------------------- MODULE RunLoopProofs ---------------------------
(***************************************************************************)
(* What the run loop guarantees for every stage, every capacity and inputs *)
(* of every length, checked by TLAPS.                                      *)
(***************************************************************************)
EXTENDS RunLoop, LinkProofs

-----------------------------------------------------------------------------
(***************************************************************************)
(* Type correctness, branch by branch.                                     *)
(***************************************************************************)

LEMMA HandleSystemType ==
    ASSUME TypeOK, NEW frame \in SysFrame, NEW l \in LoopType, HandleSystem(frame, l)
    PROVE  loop' \in LoopType /\ out' \in LinkType
  <1>1. PICK d \in OnSystem[frame.kind] : HandleSystem(frame, l)!(d)
    BY DEF HandleSystem
  <1>2. d \in Decision
    BY DecisionAssumption DEF SysFrame
  <1>. DEFINE epoch == IF frame.kind = "interrupt" THEN Later(l.epoch + 1, frame.ep)
                       ELSE l.epoch
              cause == Later(frame.ep, epoch)
  <1>3. epoch \in Nat /\ cause \in Nat
    BY DEF Later, SysFrame, LoopType
  <1>. HIDE DEF epoch, cause
  <1>4. SendSystem(out, frame.kind, cause) \in LinkType
    BY <1>3, SendSystemType DEF TypeOK, SysFrame
  <1>5. out' \in LinkType
    BY <1>1, <1>4 DEF epoch, cause, TypeOK
  <1>. DEFINE cur == [frame EXCEPT !.ep = cause]
              wait == IF d.forward THEN "sys" ELSE "none"
              stop == l.stop \/ frame.kind = "stop"
              cut == IF frame.kind = "interrupt" THEN frame.seq ELSE l.cut
  <1>6. /\ cur \in InHand /\ wait \in {"none", "sys", "data"} /\ stop \in BOOLEAN
        /\ cut \in Nat /\ d.effects \in Seq(EffectKinds)
    BY <1>2, <1>3 DEF SysFrame, InHand, LoopType, Decision
  <1>7. loop' = [l EXCEPT !.pc = "system", !.cur = cur, !.effects = d.effects,
                          !.wait = wait, !.stop = stop, !.cut = cut, !.epoch = epoch]
    BY <1>1 DEF epoch, cause
  <1>. HIDE DEF cur, wait, stop, cut
  <1>8. loop' \in LoopType
    BY <1>3, <1>6, <1>7 DEF LoopType, PCs
  <1>. QED  BY <1>5, <1>8

LEMMA HandleDataType ==
    ASSUME TypeOK, NEW frame \in DataFrame, NEW l \in LoopType, HandleData(frame, l)
    PROVE  loop' \in LoopType /\ out' \in LinkType
  <1>1. PICK d \in OnData[frame.kind] : HandleData(frame, l)!(d)
    BY DEF HandleData
  <1>2. d \in Decision
    BY DecisionAssumption DEF DataFrame
  <1>. DEFINE cause == Later(frame.ep, l.epoch)
  <1>3. cause \in Nat
    BY DEF Later, DataFrame, LoopType
  <1>. HIDE DEF cause
  <1>4. SendData(out, frame.kind, cause) \in LinkType
    BY <1>3, SendDataType DEF TypeOK, DataFrame
  <1>5. out' \in LinkType
    BY <1>1, <1>4 DEF cause, TypeOK
  <1>6. [frame EXCEPT !.ep = cause] \in InHand
    BY <1>3 DEF DataFrame, InHand
  <1>7. loop' \in LoopType
    BY <1>1, <1>2, <1>3, <1>6 DEF cause, LoopType, Decision, PCs
  <1>. QED  BY <1>5, <1>7

LEMMA PerformNextType ==
    ASSUME TypeOK, loop.effects /= <<>>, PerformNext
    PROVE  loop' \in LoopType /\ out' \in LinkType
  <1>. DEFINE effect == Head(loop.effects)
              raised == Later(loop.epoch, loop.cur.ep) + 1
              rest == Tail(loop.effects)
              l == [loop EXCEPT !.effects = rest]
  <1>a. loop.cur.ep \in Nat /\ loop.epoch \in Nat
    BY DEF TypeOK, LoopType, InHand
  <1>1. effect \in EffectKinds /\ rest \in Seq(EffectKinds) /\ raised \in Nat
    <2>1. raised \in Nat
      BY <1>a DEF Later
    <2>. QED  BY <2>1 DEF TypeOK, LoopType
  <1>2. l \in LoopType /\ l.cur = loop.cur /\ l.epoch = loop.epoch
    BY <1>1 DEF TypeOK, LoopType
  <1>3. \/ effect \in DataKinds /\ out' = SendData(out, effect, loop.cur.ep)
                               /\ loop' = [l EXCEPT !.wait = "data"]
        \/ effect = "other" /\ out' = SendSystem(out, effect, loop.cur.ep)
                            /\ loop' = [l EXCEPT !.wait = "sys"]
        \/ effect = "interrupt" /\ out' = SendSystem(out, effect, raised)
             /\ loop' = [l EXCEPT !.wait = "sys", !.cur.ep = raised, !.epoch = raised]
        \/ effect = "io" /\ out' = out /\ loop' = [l EXCEPT !.wait = "none"]
    BY DEF PerformNext
  <1>. HIDE DEF l, rest, raised, effect
  <1>4. out' \in LinkType
    <2>1. CASE effect \in DataKinds /\ out' = SendData(out, effect, loop.cur.ep)
      BY <2>1, <1>a, SendDataType DEF TypeOK
    <2>2. ASSUME NEW kind \in {"other", "interrupt"}, NEW ep \in Nat,
                 out' = SendSystem(out, kind, ep)
          PROVE  out' \in LinkType
      BY <2>2, SendSystemType DEF TypeOK, SysKinds
    <2>. QED  BY <1>1, <1>3, <1>a, <2>1, <2>2 DEF TypeOK
  <1>5. loop' \in LoopType
    <2>1. CASE loop' = [l EXCEPT !.wait = "sys", !.cur.ep = raised, !.epoch = raised]
      <3>1. [l.cur EXCEPT !.ep = raised] \in InHand
        BY <1>1, <1>2 DEF InHand, TypeOK, LoopType
      <3>2. [l EXCEPT !.wait = "sys", !.cur = [@ EXCEPT !.ep = raised], !.epoch = raised]
              \in LoopType
        BY <1>1, <1>2, <3>1 DEF LoopType
      <3>. QED  BY <2>1, <3>2
    <2>2. CASE \E w \in {"none", "sys", "data"} : loop' = [l EXCEPT !.wait = w]
      BY <2>2, <1>2 DEF LoopType
    <2>. QED  BY <1>3, <2>1, <2>2
  <1>. QED  BY <1>4, <1>5

LEMMA ReturnType ==
    ASSUME TypeOK, Return
    PROVE  TypeOK'
  <1>1. <<>> \in Seq(DataFrame)
    OBVIOUS
  <1>2. loop' \in LoopType
    BY <1>1 DEF Return, TypeOK, LoopType, PCs
  <1>. QED  BY <1>2, DropType DEF Return, TypeOK

LEMMA EmitErrorType ==
    ASSUME TypeOK, NEW l \in LoopType, EmitError(l)
    PROVE  loop' \in LoopType /\ out' \in LinkType
  <1>1. loop' \in LoopType
    BY DEF EmitError, LoopType
  <1>2. loop.cur.ep \in Nat /\ "other" \in SysKinds
    BY DEF TypeOK, LoopType, InHand, SysKinds
  <1>. QED  BY <1>1, <1>2, SendSystemType DEF EmitError, TypeOK

\* The neighbours' steps.
LEMMA NeighboursType ==
    ASSUME TypeOK, Neighbours
    PROVE  TypeOK'
  <1>1. CASE UpstreamSendsData
    <2>1. PICK kind \in UpData : inb' = SendData(inb, kind, inb.ep)
      BY <1>1 DEF UpstreamSendsData
    <2>2. kind \in DataKinds /\ inb.ep \in Nat
      BY EnvironmentAssumption DEF TypeOK, LinkType
    <2>. QED  BY <1>1, <2>1, <2>2, SendDataType DEF UpstreamSendsData, TypeOK
  <1>2. CASE UpstreamSendsSystem
    <2>1. PICK kind \in UpSystem :
            inb' = SendSystem(inb, kind, IF kind = "interrupt" THEN inb.ep + 1 ELSE inb.ep)
      BY <1>2 DEF UpstreamSendsSystem
    <2>2. kind \in SysKinds /\ (IF kind = "interrupt" THEN inb.ep + 1 ELSE inb.ep) \in Nat
      BY EnvironmentAssumption DEF TypeOK, LinkType
    <2>. QED  BY <1>2, <2>1, <2>2, SendSystemType DEF UpstreamSendsSystem, TypeOK
  <1>3. CASE UpstreamCloses \/ DownstreamCloses
    BY <1>3, DropType DEF UpstreamCloses, DownstreamCloses, TypeOK
  <1>4. CASE DownstreamTakesSystem \/ DownstreamTakesData
    BY <1>4, PopSysType, PopDataType DEF DownstreamTakesSystem, DownstreamTakesData, TypeOK
  <1>. QED  BY <1>1, <1>2, <1>3, <1>4 DEF Neighbours

LEMMA TypeStep ==
    ASSUME TypeOK, [Next]_vars
    PROVE  TypeOK'
  <1>. USE DEF PCs
  <1>1. CASE TakeSystem
    <2>. DEFINE frame == Head(inb.sys)
                l == [loop EXCEPT !.floor = frame.seq]
    <2>1. frame \in SysFrame /\ inb' \in LinkType
      BY <1>1, PopSysType DEF TakeSystem, TypeOK
    <2>2. l \in LoopType
      BY <2>1 DEF TypeOK, LoopType, SysFrame
    <2>3. HandleSystem(frame, l)
      BY <1>1 DEF TakeSystem
    <2>. HIDE DEF frame, l
    <2>. QED  BY <2>1, <2>2, <2>3, HandleSystemType DEF TypeOK
  <1>2. CASE TakePending
    <2>. DEFINE frame == Head(loop.pending)
                rest == Tail(loop.pending)
                l == [loop EXCEPT !.pending = rest]
    <2>1. frame \in DataFrame /\ rest \in Seq(DataFrame)
      BY <1>2 DEF TakePending, TypeOK, LoopType
    <2>2. HandleData(frame, l)
      BY <1>2 DEF TakePending
    <2>3. l \in LoopType
      BY <2>1 DEF TypeOK, LoopType
    <2>. HIDE DEF frame, l
    <2>. QED  BY <1>2, <2>1, <2>2, <2>3, HandleDataType DEF TypeOK, TakePending
  <1>3. CASE TakeData
    BY <1>3, PopDataType, HandleDataType DEF TakeData, TypeOK
  <1>4. CASE Finish \/ Break
    BY <1>4, ReturnType DEF Finish, Break
  <1>5. CASE Forwarded \/ PerformDone \/ ErrorSent \/ SystemHandled \/ Continue
    <2>1. CASE Forwarded
      BY <2>1 DEF Forwarded, TypeOK, LoopType
    <2>2. CASE PerformDone
      BY <2>2 DEF PerformDone, TypeOK, LoopType
    <2>3. CASE ErrorSent
      BY <2>3 DEF ErrorSent, TypeOK, LoopType
    <2>4. CASE SystemHandled
      BY <2>4 DEF SystemHandled, TypeOK, LoopType
    <2>5. CASE Continue
      BY <2>5 DEF Continue, TypeOK, LoopType
    <2>. QED  BY <1>5, <2>1, <2>2, <2>3, <2>4, <2>5
  <1>6. CASE Perform \/ SystemPerform
    BY <1>6, PerformNextType DEF Perform, SystemPerform, TypeOK
  <1>7. CASE PerformFails
    <2>1. PICK fatal \in Failures :
            EmitError([loop EXCEPT !.pc = "error", !.effects = <<>>, !.stop = fatal])
      BY <1>7 DEF PerformFails
    <2>2. fatal \in BOOLEAN /\ <<>> \in Seq(EffectKinds)
      BY EnvironmentAssumption
    <2>3. [loop EXCEPT !.pc = "error", !.effects = <<>>, !.stop = fatal] \in LoopType
      BY <2>2 DEF TypeOK, LoopType
    <2>. QED  BY <1>7, <2>1, <2>3, EmitErrorType DEF PerformFails, TypeOK
  <1>8. CASE SystemPerformFails
    <2>. DEFINE rest == Tail(loop.effects)
    <2>1. PICK fatal \in Failures :
            EmitError([loop EXCEPT !.effects = rest, !.stop = @ \/ fatal])
      BY <1>8 DEF SystemPerformFails
    <2>. DEFINE stop == loop.stop \/ fatal
    <2>2. stop \in BOOLEAN /\ rest \in Seq(EffectKinds)
      BY <1>8, EnvironmentAssumption DEF SystemPerformFails, TypeOK, LoopType
    <2>3. EmitError([loop EXCEPT !.effects = rest, !.stop = stop])
      BY <2>1
    <2>. HIDE DEF rest, stop
    <2>4. [loop EXCEPT !.effects = rest, !.stop = stop] \in LoopType
      BY <2>2 DEF TypeOK, LoopType
    <2>. QED  BY <1>8, <2>3, <2>4, EmitErrorType DEF SystemPerformFails, TypeOK
  <1>9. CASE Preempt
    <2>. DEFINE frame == Head(inb.sys)
                count == IF Ready THEN loop.abandoned ELSE loop.abandoned + 1
    <2>1. frame \in SysFrame \cup {NoFrame} /\ inb' \in LinkType /\ count \in Nat
          /\ <<>> \in Seq(EffectKinds)
      BY <1>9, PopSysType DEF Preempt, TypeOK, LoopType
    <2>2. loop' = [loop EXCEPT !.pc = "settle", !.intr = frame, !.effects = <<>>,
                               !.wait = "none", !.abandoned = count]
      BY <1>9 DEF Preempt
    <2>. HIDE DEF frame, count
    <2>3. loop' \in LoopType
      BY <2>1, <2>2 DEF TypeOK, LoopType, PCs
    <2>. QED  BY <1>9, <2>1, <2>3 DEF Preempt, TypeOK
  <1>10. CASE Stash
    <2>. DEFINE stash == Append(loop.stash, Head(inb.sys))
    <2>1. stash \in Seq(SysFrame) /\ inb' \in LinkType
      BY <1>10, PopSysType DEF Stash, TypeOK, LoopType
    <2>2. loop' = [loop EXCEPT !.stash = stash]
      BY <1>10 DEF Stash
    <2>. HIDE DEF stash
    <2>. QED  BY <1>10, <2>1, <2>2 DEF Stash, TypeOK, LoopType
  <1>11. CASE RetainPending
    <2>. DEFINE frame == Head(loop.pending)
                rest == Tail(loop.pending)
                kept == IF Kept(frame, loop.floor) THEN Append(loop.kept, frame) ELSE loop.kept
    <2>1. frame \in DataFrame /\ rest \in Seq(DataFrame)
      BY <1>11 DEF RetainPending, TypeOK, LoopType
    <2>2. kept \in Seq(DataFrame)
      BY <2>1 DEF TypeOK, LoopType
    <2>3. loop' = [loop EXCEPT !.pending = rest, !.kept = kept]
      BY <1>11 DEF RetainPending, Judge
    <2>. HIDE DEF rest, kept
    <2>. QED  BY <1>11, <2>1, <2>2, <2>3 DEF RetainPending, TypeOK, LoopType
  <1>12. CASE FlushData
    <2>. DEFINE frame == Head(inb.data)
                kept == IF Kept(frame, loop.floor) THEN Append(loop.kept, frame) ELSE loop.kept
    <2>1. frame \in DataFrame /\ inb' \in LinkType
      BY <1>12, PopDataType DEF FlushData, TypeOK
    <2>2. kept \in Seq(DataFrame)
      BY <2>1 DEF TypeOK, LoopType
    <2>3. loop' = [loop EXCEPT !.kept = kept]
      BY <1>12 DEF FlushData, Judge
    <2>. HIDE DEF kept
    <2>. QED  BY <1>12, <2>1, <2>2, <2>3 DEF FlushData, TypeOK, LoopType
  <1>13. CASE FlushEnds
    <2>1. <<>> \in Seq(DataFrame)
      OBVIOUS
    <2>. QED  BY <1>13, <2>1 DEF FlushEnds, TypeOK, LoopType
  <1>14. CASE SettleStashed
    <2>. DEFINE frame == Head(loop.stash)
                rest == Tail(loop.stash)
                l == [loop EXCEPT !.stash = rest]
    <2>1. frame \in SysFrame /\ rest \in Seq(SysFrame)
      BY <1>14 DEF SettleStashed, TypeOK, LoopType
    <2>2. HandleSystem(frame, l)
      BY <1>14 DEF SettleStashed
    <2>3. l \in LoopType
      BY <2>1 DEF TypeOK, LoopType
    <2>. HIDE DEF frame, l
    <2>. QED  BY <1>14, <2>1, <2>2, <2>3, HandleSystemType DEF TypeOK, SettleStashed
  <1>15. CASE SettleInterrupt
    <2>. DEFINE l == [loop EXCEPT !.intr = NoFrame, !.floor = loop.intr.seq]
    <2>1. loop.intr \in SysFrame /\ loop.intr.seq \in Nat
      BY <1>15 DEF SettleInterrupt, TypeOK, LoopType, SysFrame
    <2>2. HandleSystem(loop.intr, l)
      BY <1>15 DEF SettleInterrupt
    <2>3. l \in LoopType
      BY <2>1 DEF TypeOK, LoopType
    <2>. HIDE DEF l
    <2>. QED  BY <1>15, <2>1, <2>2, <2>3, HandleSystemType DEF TypeOK, SettleInterrupt
  <1>16. CASE Neighbours
    BY <1>16, NeighboursType
  <1>17. CASE Ended \/ UNCHANGED vars
    BY <1>17 DEF Ended, vars, TypeOK
  <1>. QED
    BY <1>1, <1>2, <1>3, <1>4, <1>5, <1>6, <1>7, <1>8, <1>9, <1>10, <1>11, <1>12, <1>13,
       <1>14, <1>15, <1>16, <1>17 DEF Next, LoopNext, Looping, Performing

LEMMA TypeInit == Init => TypeOK
  <1>1. <<>> \in Seq(SysFrame) /\ <<>> \in Seq(DataFrame) /\ <<>> \in Seq(EffectKinds)
    OBVIOUS
  <1>. QED  BY <1>1 DEF Init, NewLink, NewLoop, NoFrame, InHand, PCs, TypeOK, LinkType, LoopType

\* Type correctness of the loop and its two links.
THEOREM TypeCorrect == Spec => []TypeOK
  <1>. QED  BY TypeInit, TypeStep, PTL DEF Spec

-----------------------------------------------------------------------------
(***************************************************************************)
(* What the shared parts of the branches leave in the loop's locals and in *)
(* the outbound link.                                                      *)
(***************************************************************************)

LEMMA HandleSystemEffect ==
    ASSUME TypeOK, NEW frame \in SysFrame, NEW l \in LoopType, HandleSystem(frame, l)
    PROVE  /\ loop'.pc = "system" /\ loop'.cur.kind = frame.kind
           /\ loop'.pending = l.pending /\ loop'.kept = l.kept /\ loop'.floor = l.floor
           /\ loop'.stash = l.stash /\ loop'.intr = l.intr
           /\ loop'.stop = (l.stop \/ frame.kind = "stop")
           /\ loop'.cut = IF frame.kind = "interrupt" THEN frame.seq ELSE l.cut
           /\ loop'.abandoned = l.abandoned
           /\ loop'.epoch >= l.epoch /\ loop'.cur.ep >= loop'.epoch
           /\ frame.kind = "interrupt" => loop'.cur.ep = loop'.epoch
           /\ \/ loop'.wait = "none" /\ out' = out
              \/ loop'.wait = "sys" /\ out' = SendSystem(out, frame.kind, loop'.cur.ep)
  <1>1. PICK d \in OnSystem[frame.kind] : HandleSystem(frame, l)!(d)
    BY DEF HandleSystem
  <1>. DEFINE epoch == IF frame.kind = "interrupt" THEN Later(l.epoch + 1, frame.ep)
                       ELSE l.epoch
              cause == Later(frame.ep, epoch)
              cur == [frame EXCEPT !.ep = cause]
              wait == IF d.forward THEN "sys" ELSE "none"
              stop == l.stop \/ frame.kind = "stop"
              cut == IF frame.kind = "interrupt" THEN frame.seq ELSE l.cut
  <1>2. frame.ep \in Nat /\ l.epoch \in Nat
    BY DEF SysFrame, LoopType
  <1>3. epoch >= l.epoch /\ cause >= epoch /\ (frame.kind = "interrupt" => cause = epoch)
    BY <1>2 DEF Later
  <1>4. cur.kind = frame.kind /\ cur.ep = cause
    BY DEF SysFrame
  <1>5. out' = IF d.forward THEN SendSystem(out, frame.kind, cause) ELSE out
    BY <1>1
  <1>6. loop' = [l EXCEPT !.pc = "system", !.cur = cur, !.effects = d.effects,
                          !.wait = wait, !.stop = stop, !.cut = cut, !.epoch = epoch]
    BY <1>1
  <1>0. d.forward \in BOOLEAN
    BY DecisionAssumption DEF SysFrame, Decision
  <1>7. (wait = "none" /\ ~d.forward) \/ (wait = "sys" /\ d.forward)
    BY <1>0
  <1>. HIDE DEF cause, cur, epoch, wait
  <1>8. /\ loop'.pc = "system" /\ loop'.cur = cur /\ loop'.wait = wait
        /\ loop'.pending = l.pending /\ loop'.kept = l.kept /\ loop'.floor = l.floor
        /\ loop'.stash = l.stash /\ loop'.intr = l.intr
        /\ loop'.stop = stop /\ loop'.cut = cut /\ loop'.epoch = epoch
        /\ loop'.abandoned = l.abandoned
    BY <1>6 DEF LoopType
  <1>. QED  BY <1>3, <1>4, <1>5, <1>7, <1>8

LEMMA HandleDataEffect ==
    ASSUME TypeOK, NEW frame \in DataFrame, NEW l \in LoopType, HandleData(frame, l)
    PROVE  /\ loop'.pc = "forward" /\ loop'.cur.kind = frame.kind
           /\ loop'.pending = l.pending /\ loop'.kept = l.kept /\ loop'.floor = l.floor
           /\ loop'.stash = l.stash /\ loop'.intr = l.intr /\ loop'.stop = l.stop
           /\ loop'.cut = l.cut /\ loop'.abandoned = l.abandoned
           /\ loop'.epoch = l.epoch /\ loop'.cur.ep >= loop'.epoch
           /\ \/ loop'.wait = "none" /\ out' = out
              \/ loop'.wait = "data" /\ out' = SendData(out, frame.kind, loop'.cur.ep)
  <1>1. PICK d \in OnData[frame.kind] : HandleData(frame, l)!(d)
    BY DEF HandleData
  <1>. DEFINE cause == Later(frame.ep, l.epoch)
              cur == [frame EXCEPT !.ep = cause]
              wait == IF d.forward THEN "data" ELSE "none"
  <1>2. frame.ep \in Nat /\ l.epoch \in Nat
    BY DEF DataFrame, LoopType
  <1>3. cause >= l.epoch
    BY <1>2 DEF Later
  <1>4. cur.kind = frame.kind /\ cur.ep = cause
    BY DEF DataFrame
  <1>5. out' = IF d.forward THEN SendData(out, frame.kind, cause) ELSE out
    BY <1>1
  <1>6. loop' = [l EXCEPT !.pc = "forward", !.cur = cur, !.effects = d.effects, !.wait = wait]
    BY <1>1
  <1>0. d.forward \in BOOLEAN
    BY DecisionAssumption DEF DataFrame, Decision
  <1>7. (wait = "none" /\ ~d.forward) \/ (wait = "data" /\ d.forward)
    BY <1>0
  <1>. HIDE DEF cause, cur, wait
  <1>8. /\ loop'.pc = "forward" /\ loop'.cur = cur /\ loop'.wait = wait
        /\ loop'.pending = l.pending /\ loop'.kept = l.kept /\ loop'.floor = l.floor
        /\ loop'.stash = l.stash /\ loop'.intr = l.intr
        /\ loop'.stop = l.stop /\ loop'.cut = l.cut /\ loop'.epoch = l.epoch
        /\ loop'.abandoned = l.abandoned
    BY <1>6 DEF LoopType
  <1>. QED  BY <1>3, <1>4, <1>5, <1>7, <1>8

LEMMA PerformNextEffect ==
    ASSUME TypeOK, loop.effects /= <<>>, PerformNext
    PROVE  /\ loop'.pc = loop.pc /\ loop'.cur.kind = loop.cur.kind
           /\ loop'.pending = loop.pending /\ loop'.kept = loop.kept
           /\ loop'.floor = loop.floor /\ loop'.stash = loop.stash
           /\ loop'.intr = loop.intr /\ loop'.stop = loop.stop
           /\ loop'.cut = loop.cut /\ loop'.abandoned = loop.abandoned
           /\ \/ /\ loop'.cur.ep = loop.cur.ep /\ loop'.epoch = loop.epoch
                 /\ \/ loop'.wait = "none" /\ out' = out
                    \/ loop'.wait = "sys" /\ out' = SendSystem(out, "other", loop.cur.ep)
                    \/ /\ loop'.wait = "data"
                       /\ \E kind \in DataKinds : out' = SendData(out, kind, loop.cur.ep)
              \/ /\ loop'.cur.ep = loop'.epoch /\ loop'.epoch > loop.epoch
                 /\ loop'.wait = "sys"
                 /\ out' = SendSystem(out, "interrupt", loop'.epoch)
  <1>. DEFINE effect == Head(loop.effects)
              raised == Later(loop.epoch, loop.cur.ep) + 1
              rest == Tail(loop.effects)
              raisedCur == [loop.cur EXCEPT !.ep = raised]
  <1>1. loop.cur \in InHand /\ loop.cur.ep \in Nat /\ loop.epoch \in Nat
    BY DEF TypeOK, LoopType, InHand
  <1>2. raised \in Nat /\ raised > loop.epoch
    BY <1>1 DEF Later
  <1>3. raisedCur.ep = raised /\ raisedCur.kind = loop.cur.kind
    BY <1>1 DEF InHand
  <1>4. \/ effect \in DataKinds /\ out' = SendData(out, effect, loop.cur.ep)
                               /\ loop' = [loop EXCEPT !.effects = rest, !.wait = "data"]
        \/ effect = "other" /\ out' = SendSystem(out, "other", loop.cur.ep)
                            /\ loop' = [loop EXCEPT !.effects = rest, !.wait = "sys"]
        \/ effect = "interrupt" /\ out' = SendSystem(out, "interrupt", raised)
             /\ loop' = [loop EXCEPT !.effects = rest, !.wait = "sys",
                                     !.cur = raisedCur, !.epoch = raised]
        \/ effect = "io" /\ out' = out
                         /\ loop' = [loop EXCEPT !.effects = rest, !.wait = "none"]
    BY DEF PerformNext, TypeOK, LoopType
  <1>. HIDE DEF effect, raised, rest, raisedCur
  <1>5. CASE loop' = [loop EXCEPT !.effects = rest, !.wait = "sys",
                                  !.cur = raisedCur, !.epoch = raised]
             /\ out' = SendSystem(out, "interrupt", raised)
    <2>1. /\ loop'.pc = loop.pc /\ loop'.cur = raisedCur /\ loop'.epoch = raised
          /\ loop'.pending = loop.pending /\ loop'.kept = loop.kept
          /\ loop'.floor = loop.floor /\ loop'.stash = loop.stash
          /\ loop'.intr = loop.intr /\ loop'.stop = loop.stop
          /\ loop'.cut = loop.cut /\ loop'.abandoned = loop.abandoned
          /\ loop'.wait = "sys"
      BY <1>5 DEF TypeOK, LoopType
    <2>. QED  BY <1>2, <1>3, <1>5, <2>1
  <1>6. ASSUME NEW w \in {"none", "sys", "data"},
               loop' = [loop EXCEPT !.effects = rest, !.wait = w]
        PROVE  /\ loop'.pc = loop.pc /\ loop'.cur = loop.cur /\ loop'.epoch = loop.epoch
               /\ loop'.pending = loop.pending /\ loop'.kept = loop.kept
               /\ loop'.floor = loop.floor /\ loop'.stash = loop.stash
               /\ loop'.intr = loop.intr /\ loop'.stop = loop.stop
               /\ loop'.cut = loop.cut /\ loop'.abandoned = loop.abandoned
               /\ loop'.wait = w
    BY <1>6 DEF TypeOK, LoopType
  <1>7. CASE effect \in DataKinds /\ out' = SendData(out, effect, loop.cur.ep)
             /\ loop' = [loop EXCEPT !.effects = rest, !.wait = "data"]
    BY <1>6, <1>7
  <1>8. CASE out' = SendSystem(out, "other", loop.cur.ep)
             /\ loop' = [loop EXCEPT !.effects = rest, !.wait = "sys"]
    BY <1>6, <1>8
  <1>9. CASE out' = out /\ loop' = [loop EXCEPT !.effects = rest, !.wait = "none"]
    BY <1>6, <1>9
  <1>. QED  BY <1>4, <1>5, <1>7, <1>8, <1>9

-----------------------------------------------------------------------------
(***************************************************************************)
(* The inductive invariant.  Most steps move no queued frame.              *)
(***************************************************************************)

Quiet == Forwarded \/ Perform \/ PerformDone \/ PerformFails \/ ErrorSent
         \/ SystemPerform \/ SystemPerformFails \/ SystemHandled \/ Continue

LEMMA EmitErrorEffect ==
    ASSUME TypeOK, NEW l \in LoopType, EmitError(l)
    PROVE  /\ loop' = [l EXCEPT !.wait = "sys"]
           /\ out'.data = out.data /\ out'.rx = out.rx /\ out'.ep = out.ep
           /\ out'.sys = out.sys \/ out.rx
           /\ out' = SendSystem(out, "other", loop.cur.ep)
  <1>1. loop.cur.ep \in Nat /\ "other" \in SysKinds
    BY DEF TypeOK, LoopType, InHand, SysKinds
  <1>. QED  BY <1>1, SendSystemEffect DEF EmitError, TypeOK

LEMMA PerformFailsEffect ==
    ASSUME TypeOK, PerformFails
    PROVE  /\ loop'.pc = "error" /\ loop'.cur = loop.cur /\ loop'.wait = "sys"
           /\ loop'.pending = loop.pending /\ loop'.kept = loop.kept
           /\ loop'.floor = loop.floor /\ loop'.stash = loop.stash
           /\ loop'.intr = loop.intr /\ loop'.cut = loop.cut /\ loop'.epoch = loop.epoch
           /\ loop'.abandoned = loop.abandoned
           /\ out' = SendSystem(out, "other", loop.cur.ep)
  <1>1. PICK fatal \in Failures :
          EmitError([loop EXCEPT !.pc = "error", !.effects = <<>>, !.stop = fatal])
    BY DEF PerformFails
  <1>2. loop' = [loop EXCEPT !.pc = "error", !.effects = <<>>, !.stop = fatal, !.wait = "sys"]
    BY <1>1 DEF EmitError, TypeOK, LoopType
  <1>3. out' = SendSystem(out, "other", loop.cur.ep)
    BY <1>1 DEF EmitError
  <1>. QED  BY <1>2, <1>3 DEF TypeOK, LoopType

LEMMA SystemPerformFailsEffect ==
    ASSUME TypeOK, SystemPerformFails
    PROVE  /\ loop'.pc = "system" /\ loop'.cur = loop.cur /\ loop'.wait = "sys"
           /\ loop'.pending = loop.pending /\ loop'.kept = loop.kept
           /\ loop'.floor = loop.floor /\ loop'.stash = loop.stash
           /\ loop'.intr = loop.intr /\ loop'.cut = loop.cut /\ loop'.epoch = loop.epoch
           /\ loop'.abandoned = loop.abandoned
           /\ loop.stop => loop'.stop
           /\ out' = SendSystem(out, "other", loop.cur.ep)
  <1>. DEFINE rest == Tail(loop.effects)
  <1>1. PICK fatal \in Failures :
          EmitError([loop EXCEPT !.effects = rest, !.stop = @ \/ fatal])
    BY DEF SystemPerformFails
  <1>. DEFINE stop == loop.stop \/ fatal
  <1>2. loop' = [[loop EXCEPT !.effects = rest, !.stop = stop] EXCEPT !.wait = "sys"]
    BY <1>1 DEF EmitError
  <1>3. out' = SendSystem(out, "other", loop.cur.ep) /\ loop.pc = "system"
    BY <1>1 DEF EmitError, SystemPerformFails
  <1>4. loop.stop => stop
    OBVIOUS
  <1>. HIDE DEF rest, stop
  <1>. QED  BY <1>2, <1>3, <1>4 DEF TypeOK, LoopType

LEMMA QuietEffect ==
    ASSUME TypeOK, Quiet
    PROVE  /\ inb' = inb
           /\ loop'.pending = loop.pending /\ loop'.kept = loop.kept
           /\ loop'.floor = loop.floor /\ loop'.stash = loop.stash
           /\ loop'.intr = loop.intr /\ loop'.cut = loop.cut
           /\ loop'.abandoned = loop.abandoned
           /\ loop'.cur.kind = loop.cur.kind
           /\ loop.pc /= "done" /\ loop'.pc /= "done"
  <1>1. CASE Forwarded
    BY <1>1 DEF Forwarded, TypeOK, LoopType
  <1>2. CASE PerformDone
    BY <1>2 DEF PerformDone, TypeOK, LoopType
  <1>3. CASE ErrorSent
    BY <1>3 DEF ErrorSent, TypeOK, LoopType
  <1>4. CASE SystemHandled
    BY <1>4 DEF SystemHandled, TypeOK, LoopType
  <1>5. CASE Continue
    BY <1>5 DEF Continue, Settled, TypeOK, LoopType
  <1>6. CASE Perform \/ SystemPerform
    BY <1>6, PerformNextEffect DEF Perform, SystemPerform
  <1>7. CASE PerformFails
    BY <1>7, PerformFailsEffect DEF PerformFails
  <1>8. CASE SystemPerformFails
    BY <1>8, SystemPerformFailsEffect DEF SystemPerformFails
  <1>. QED  BY <1>1, <1>2, <1>3, <1>4, <1>5, <1>6, <1>7, <1>8 DEF Quiet

LEMMA ReturnEffect ==
    ASSUME TypeOK, Return
    PROVE  /\ loop'.pc = "done" /\ loop'.pending = <<>> /\ loop'.kept = loop.kept
           /\ loop'.floor = loop.floor /\ loop'.stash = loop.stash
           /\ loop'.intr = loop.intr /\ loop'.cut = loop.cut /\ loop'.epoch = loop.epoch
           /\ loop'.cur = loop.cur /\ loop'.stop = loop.stop /\ loop'.wait = loop.wait
           /\ loop'.abandoned = loop.abandoned
           /\ inb'.sys = <<>> /\ inb'.data = <<>> /\ inb'.next = inb.next /\ ~inb'.rx
           /\ out'.sys = out.sys /\ out'.data = out.data /\ out'.rx = out.rx
           /\ out'.ep = out.ep /\ out'.next = out.next
  <1>1. /\ loop'.pc = "done" /\ loop'.pending = <<>> /\ loop'.kept = loop.kept
        /\ loop'.floor = loop.floor /\ loop'.stash = loop.stash
        /\ loop'.intr = loop.intr /\ loop'.cut = loop.cut /\ loop'.epoch = loop.epoch
        /\ loop'.cur = loop.cur /\ loop'.stop = loop.stop /\ loop'.wait = loop.wait
        /\ loop'.abandoned = loop.abandoned
    BY DEF Return, TypeOK, LoopType
  <1>2. inb'.sys = <<>> /\ inb'.data = <<>> /\ inb'.next = inb.next /\ ~inb'.rx
    BY DEF Return, DropInbound, TypeOK, LinkType
  <1>3. /\ out'.sys = out.sys /\ out'.data = out.data /\ out'.rx = out.rx
        /\ out'.ep = out.ep /\ out'.next = out.next
    BY DEF Return, DropOutbound, TypeOK, LinkType
  <1>. QED  BY <1>1, <1>2, <1>3

-----------------------------------------------------------------------------
(***************************************************************************)
(* What each step that moves a queued frame does to the queues.            *)
(***************************************************************************)

LEMMA TakeSystemEffect ==
    ASSUME TypeOK, TakeSystem
    PROVE  /\ Head(inb.sys) \in SysFrame
           /\ inb'.sys = Tail(inb.sys) /\ inb'.data = inb.data
           /\ inb'.next = inb.next /\ inb'.rx = inb.rx
           /\ loop'.pc = "system" /\ loop'.cur.kind = Head(inb.sys).kind
           /\ loop'.pending = loop.pending /\ loop'.kept = loop.kept
           /\ loop'.floor = Head(inb.sys).seq
           /\ loop'.stash = loop.stash /\ loop'.intr = loop.intr
           /\ loop'.cut = IF Head(inb.sys).kind = "interrupt" THEN Head(inb.sys).seq
                          ELSE loop.cut
           /\ loop'.stop = (loop.stop \/ Head(inb.sys).kind = "stop")
           /\ loop'.abandoned = loop.abandoned
           /\ loop'.epoch >= loop.epoch /\ loop'.cur.ep >= loop'.epoch
           /\ Head(inb.sys).kind = "interrupt" => loop'.cur.ep = loop'.epoch
           /\ \/ loop'.wait = "none" /\ out' = out
              \/ loop'.wait = "sys"
                 /\ out' = SendSystem(out, Head(inb.sys).kind, loop'.cur.ep)
  <1>. DEFINE frame == Head(inb.sys)
              l == [loop EXCEPT !.floor = frame.seq]
  <1>1. frame \in SysFrame /\ frame.seq \in Nat
    BY PopSysType DEF TakeSystem, TypeOK, SysFrame
  <1>2. HandleSystem(frame, l)
    BY DEF TakeSystem
  <1>3. inb' = PopSys(inb)
    BY DEF TakeSystem
  <1>. HIDE DEF frame
  <1>4. /\ l \in LoopType /\ l.pending = loop.pending /\ l.kept = loop.kept
        /\ l.floor = frame.seq /\ l.stash = loop.stash /\ l.intr = loop.intr
        /\ l.cut = loop.cut /\ l.stop = loop.stop /\ l.epoch = loop.epoch
        /\ l.abandoned = loop.abandoned
    BY <1>1 DEF TypeOK, LoopType
  <1>. HIDE DEF l
  <1>5. /\ inb'.sys = Tail(inb.sys) /\ inb'.data = inb.data
        /\ inb'.next = inb.next /\ inb'.rx = inb.rx
    BY <1>3, PopEffect DEF TypeOK
  <1>6. /\ loop'.pc = "system" /\ loop'.cur.kind = frame.kind
        /\ loop'.pending = l.pending /\ loop'.kept = l.kept /\ loop'.floor = l.floor
        /\ loop'.stash = l.stash /\ loop'.intr = l.intr
        /\ loop'.stop = (l.stop \/ frame.kind = "stop")
        /\ loop'.cut = IF frame.kind = "interrupt" THEN frame.seq ELSE l.cut
        /\ loop'.abandoned = l.abandoned
        /\ loop'.epoch >= l.epoch /\ loop'.cur.ep >= loop'.epoch
        /\ frame.kind = "interrupt" => loop'.cur.ep = loop'.epoch
        /\ \/ loop'.wait = "none" /\ out' = out
           \/ loop'.wait = "sys" /\ out' = SendSystem(out, frame.kind, loop'.cur.ep)
    BY <1>1, <1>2, <1>4, HandleSystemEffect
  <1>. QED  BY <1>1, <1>4, <1>5, <1>6 DEF frame

LEMMA SettleStashedEffect ==
    ASSUME TypeOK, SettleStashed
    PROVE  /\ loop.stash /= <<>> /\ Head(loop.stash) \in SysFrame
           /\ inb' = inb
           /\ loop'.pc = "system" /\ loop'.cur.kind = Head(loop.stash).kind
           /\ loop'.pending = loop.pending /\ loop'.kept = loop.kept
           /\ loop'.floor = loop.floor
           /\ loop'.stash = Tail(loop.stash) /\ loop'.intr = loop.intr
           /\ loop'.cut = IF Head(loop.stash).kind = "interrupt" THEN Head(loop.stash).seq
                          ELSE loop.cut
           /\ loop'.stop = (loop.stop \/ Head(loop.stash).kind = "stop")
           /\ loop'.abandoned = loop.abandoned
           /\ loop'.epoch >= loop.epoch /\ loop'.cur.ep >= loop'.epoch
           /\ Head(loop.stash).kind = "interrupt" => loop'.cur.ep = loop'.epoch
           /\ \/ loop'.wait = "none" /\ out' = out
              \/ loop'.wait = "sys"
                 /\ out' = SendSystem(out, Head(loop.stash).kind, loop'.cur.ep)
  <1>. DEFINE frame == Head(loop.stash)
              rest == Tail(loop.stash)
              l == [loop EXCEPT !.stash = rest]
  <1>1. frame \in SysFrame /\ rest \in Seq(SysFrame)
    BY DEF SettleStashed, TypeOK, LoopType
  <1>2. HandleSystem(frame, l) /\ inb' = inb /\ loop.stash /= <<>>
    BY DEF SettleStashed
  <1>. HIDE DEF frame, rest
  <1>4. /\ l \in LoopType /\ l.pending = loop.pending /\ l.kept = loop.kept
        /\ l.floor = loop.floor /\ l.stash = rest /\ l.intr = loop.intr
        /\ l.cut = loop.cut /\ l.stop = loop.stop /\ l.epoch = loop.epoch
        /\ l.abandoned = loop.abandoned
    BY <1>1 DEF TypeOK, LoopType
  <1>. HIDE DEF l
  <1>6. /\ loop'.pc = "system" /\ loop'.cur.kind = frame.kind
        /\ loop'.pending = l.pending /\ loop'.kept = l.kept /\ loop'.floor = l.floor
        /\ loop'.stash = l.stash /\ loop'.intr = l.intr
        /\ loop'.stop = (l.stop \/ frame.kind = "stop")
        /\ loop'.cut = IF frame.kind = "interrupt" THEN frame.seq ELSE l.cut
        /\ loop'.abandoned = l.abandoned
        /\ loop'.epoch >= l.epoch /\ loop'.cur.ep >= loop'.epoch
        /\ frame.kind = "interrupt" => loop'.cur.ep = loop'.epoch
        /\ \/ loop'.wait = "none" /\ out' = out
           \/ loop'.wait = "sys" /\ out' = SendSystem(out, frame.kind, loop'.cur.ep)
    BY <1>1, <1>2, <1>4, HandleSystemEffect
  <1>. QED  BY <1>1, <1>2, <1>4, <1>6 DEF frame, rest

LEMMA SettleInterruptEffect ==
    ASSUME TypeOK, Locals, SettleInterrupt
    PROVE  /\ loop.intr \in SysFrame /\ loop.intr.kind = "interrupt" /\ loop.intr /= NoFrame
           /\ loop.stash = <<>> /\ inb' = inb
           /\ loop'.pc = "system" /\ loop'.cur.kind = "interrupt"
           /\ loop'.pending = loop.pending /\ loop'.kept = loop.kept
           /\ loop'.floor = loop.intr.seq /\ loop'.cut = loop.intr.seq
           /\ loop'.stash = loop.stash /\ loop'.intr = NoFrame
           /\ loop.stop => loop'.stop
           /\ loop'.stop => loop.stop
           /\ loop'.abandoned = loop.abandoned
           /\ loop'.epoch >= loop.epoch /\ loop'.cur.ep = loop'.epoch
           /\ \/ loop'.wait = "none" /\ out' = out
              \/ loop'.wait = "sys" /\ out' = SendSystem(out, "interrupt", loop'.cur.ep)
  <1>. DEFINE l == [loop EXCEPT !.intr = NoFrame, !.floor = loop.intr.seq]
  <1>1. loop.intr \in SysFrame /\ loop.intr.seq \in Nat /\ loop.intr.kind = "interrupt"
    BY DEF SettleInterrupt, TypeOK, LoopType, SysFrame, Locals
  <1>2. HandleSystem(loop.intr, l) /\ inb' = inb /\ loop.stash = <<>> /\ loop.intr /= NoFrame
    BY DEF SettleInterrupt
  <1>4. /\ l \in LoopType /\ l.pending = loop.pending /\ l.kept = loop.kept
        /\ l.floor = loop.intr.seq /\ l.stash = loop.stash /\ l.intr = NoFrame
        /\ l.cut = loop.cut /\ l.stop = loop.stop /\ l.epoch = loop.epoch
        /\ l.abandoned = loop.abandoned
    BY <1>1 DEF TypeOK, LoopType
  <1>. HIDE DEF l
  <1>6. /\ loop'.pc = "system" /\ loop'.cur.kind = loop.intr.kind
        /\ loop'.pending = l.pending /\ loop'.kept = l.kept /\ loop'.floor = l.floor
        /\ loop'.stash = l.stash /\ loop'.intr = l.intr
        /\ loop'.stop = (l.stop \/ loop.intr.kind = "stop")
        /\ loop'.cut = IF loop.intr.kind = "interrupt" THEN loop.intr.seq ELSE l.cut
        /\ loop'.abandoned = l.abandoned
        /\ loop'.epoch >= l.epoch /\ loop'.cur.ep >= loop'.epoch
        /\ loop.intr.kind = "interrupt" => loop'.cur.ep = loop'.epoch
        /\ \/ loop'.wait = "none" /\ out' = out
           \/ loop'.wait = "sys" /\ out' = SendSystem(out, loop.intr.kind, loop'.cur.ep)
    BY <1>1, <1>2, <1>4, HandleSystemEffect
  <1>. QED  BY <1>1, <1>2, <1>4, <1>6

LEMMA TakePendingEffect ==
    ASSUME TypeOK, TakePending
    PROVE  /\ loop.pending /= <<>> /\ Head(loop.pending) \in DataFrame
           /\ inb' = inb
           /\ loop'.pc = "forward" /\ loop'.cur.kind = Head(loop.pending).kind
           /\ loop'.pending = Tail(loop.pending) /\ loop'.kept = loop.kept
           /\ loop'.floor = loop.floor /\ loop'.stash = loop.stash
           /\ loop'.intr = loop.intr /\ loop'.stop = loop.stop
           /\ loop'.cut = loop.cut /\ loop'.abandoned = loop.abandoned
           /\ loop'.epoch = loop.epoch /\ loop'.cur.ep >= loop'.epoch
           /\ \/ loop'.wait = "none" /\ out' = out
              \/ loop'.wait = "data"
                 /\ out' = SendData(out, Head(loop.pending).kind, loop'.cur.ep)
  <1>. DEFINE frame == Head(loop.pending)
              rest == Tail(loop.pending)
              l == [loop EXCEPT !.pending = rest]
  <1>1. frame \in DataFrame /\ rest \in Seq(DataFrame)
    BY DEF TakePending, TypeOK, LoopType
  <1>2. HandleData(frame, l) /\ inb' = inb /\ loop.pending /= <<>>
    BY DEF TakePending
  <1>. HIDE DEF frame, rest
  <1>4. /\ l \in LoopType /\ l.pending = rest /\ l.kept = loop.kept
        /\ l.floor = loop.floor /\ l.stash = loop.stash /\ l.intr = loop.intr
        /\ l.cut = loop.cut /\ l.stop = loop.stop /\ l.epoch = loop.epoch
        /\ l.abandoned = loop.abandoned
    BY <1>1 DEF TypeOK, LoopType
  <1>. HIDE DEF l
  <1>5. /\ loop'.pc = "forward" /\ loop'.cur.kind = frame.kind
        /\ loop'.pending = l.pending /\ loop'.kept = l.kept /\ loop'.floor = l.floor
        /\ loop'.stash = l.stash /\ loop'.intr = l.intr /\ loop'.stop = l.stop
        /\ loop'.cut = l.cut /\ loop'.abandoned = l.abandoned
        /\ loop'.epoch = l.epoch /\ loop'.cur.ep >= loop'.epoch
        /\ \/ loop'.wait = "none" /\ out' = out
           \/ loop'.wait = "data" /\ out' = SendData(out, frame.kind, loop'.cur.ep)
    BY <1>1, <1>2, <1>4, HandleDataEffect
  <1>. QED  BY <1>1, <1>2, <1>4, <1>5 DEF frame, rest

LEMMA TakeDataEffect ==
    ASSUME TypeOK, TakeData
    PROVE  /\ inb.data /= <<>> /\ Head(inb.data) \in DataFrame
           /\ inb'.sys = inb.sys /\ inb'.data = Tail(inb.data)
           /\ inb'.next = inb.next /\ inb'.rx = inb.rx
           /\ loop'.pc = "forward" /\ loop'.cur.kind = Head(inb.data).kind
           /\ loop'.pending = loop.pending /\ loop'.kept = loop.kept
           /\ loop'.floor = loop.floor /\ loop'.stash = loop.stash
           /\ loop'.intr = loop.intr /\ loop'.stop = loop.stop
           /\ loop'.cut = loop.cut /\ loop'.abandoned = loop.abandoned
           /\ loop'.epoch = loop.epoch /\ loop'.cur.ep >= loop'.epoch
           /\ \/ loop'.wait = "none" /\ out' = out
              \/ loop'.wait = "data"
                 /\ out' = SendData(out, Head(inb.data).kind, loop'.cur.ep)
  <1>1. Head(inb.data) \in DataFrame /\ inb.data /= <<>> /\ loop \in LoopType
    BY PopDataType DEF TakeData, TypeOK
  <1>2. /\ inb'.sys = inb.sys /\ inb'.data = Tail(inb.data)
        /\ inb'.next = inb.next /\ inb'.rx = inb.rx
    BY PopEffect DEF TakeData, TypeOK
  <1>. QED  BY <1>1, <1>2, HandleDataEffect DEF TakeData

LEMMA PreemptEffect ==
    ASSUME TypeOK, Preempt
    PROVE  /\ loop.pc = "perform" /\ inb.sys /= <<>> /\ Head(inb.sys) \in SysFrame
           /\ Head(inb.sys).kind = "interrupt"
           /\ inb'.sys = Tail(inb.sys) /\ inb'.data = inb.data
           /\ inb'.next = inb.next /\ inb'.rx = inb.rx /\ out' = out
           /\ loop'.pc = "settle" /\ loop'.intr = Head(inb.sys) /\ loop'.wait = "none"
           /\ loop'.abandoned = IF Ready THEN loop.abandoned ELSE loop.abandoned + 1
           /\ loop'.cur = loop.cur
           /\ loop'.pending = loop.pending /\ loop'.kept = loop.kept
           /\ loop'.floor = loop.floor /\ loop'.stash = loop.stash /\ loop'.stop = loop.stop
           /\ loop'.cut = loop.cut /\ loop'.epoch = loop.epoch
  <1>. DEFINE frame == Head(inb.sys)
              count == IF Ready THEN loop.abandoned ELSE loop.abandoned + 1
  <1>1. frame \in SysFrame /\ inb' = PopSys(inb)
        /\ loop.pc = "perform" /\ inb.sys /= <<>> /\ frame.kind = "interrupt" /\ out' = out
    BY PopSysType DEF Preempt, TypeOK
  <1>2. loop' = [loop EXCEPT !.pc = "settle", !.intr = frame, !.effects = <<>>,
                             !.wait = "none", !.abandoned = count]
    BY DEF Preempt
  <1>3. /\ inb'.sys = Tail(inb.sys) /\ inb'.data = inb.data
        /\ inb'.next = inb.next /\ inb'.rx = inb.rx
    BY <1>1, PopEffect DEF TypeOK
  <1>. HIDE DEF frame, count
  <1>4. /\ loop'.pc = "settle" /\ loop'.intr = frame /\ loop'.wait = "none"
        /\ loop'.abandoned = count /\ loop'.cur = loop.cur
        /\ loop'.pending = loop.pending /\ loop'.kept = loop.kept
        /\ loop'.floor = loop.floor /\ loop'.stash = loop.stash /\ loop'.stop = loop.stop
        /\ loop'.cut = loop.cut /\ loop'.epoch = loop.epoch
    BY <1>2 DEF TypeOK, LoopType
  <1>. QED  BY <1>1, <1>3, <1>4 DEF frame, count

LEMMA StashEffect ==
    ASSUME TypeOK, Stash
    PROVE  /\ loop.pc = "perform" /\ inb.sys /= <<>> /\ Head(inb.sys) \in SysFrame
           /\ Head(inb.sys).kind /= "interrupt"
           /\ inb'.sys = Tail(inb.sys) /\ inb'.data = inb.data
           /\ inb'.next = inb.next /\ inb'.rx = inb.rx /\ out' = out
           /\ loop'.pc = loop.pc /\ loop'.stash = Append(loop.stash, Head(inb.sys))
           /\ loop'.intr = loop.intr /\ loop'.wait = loop.wait
           /\ loop'.abandoned = loop.abandoned /\ loop'.cur = loop.cur
           /\ loop'.pending = loop.pending /\ loop'.kept = loop.kept
           /\ loop'.floor = loop.floor /\ loop'.stop = loop.stop
           /\ loop'.cut = loop.cut /\ loop'.epoch = loop.epoch
  <1>. DEFINE frame == Head(inb.sys)
              stash == Append(loop.stash, frame)
  <1>1. frame \in SysFrame /\ inb' = PopSys(inb)
        /\ loop.pc = "perform" /\ inb.sys /= <<>> /\ frame.kind /= "interrupt" /\ out' = out
    BY PopSysType DEF Stash, TypeOK
  <1>2. loop' = [loop EXCEPT !.stash = stash]
    BY DEF Stash
  <1>3. /\ inb'.sys = Tail(inb.sys) /\ inb'.data = inb.data
        /\ inb'.next = inb.next /\ inb'.rx = inb.rx
    BY <1>1, PopEffect DEF TypeOK
  <1>. HIDE DEF frame, stash
  <1>4. /\ loop'.pc = loop.pc /\ loop'.stash = stash
        /\ loop'.intr = loop.intr /\ loop'.wait = loop.wait
        /\ loop'.abandoned = loop.abandoned /\ loop'.cur = loop.cur
        /\ loop'.pending = loop.pending /\ loop'.kept = loop.kept
        /\ loop'.floor = loop.floor /\ loop'.stop = loop.stop
        /\ loop'.cut = loop.cut /\ loop'.epoch = loop.epoch
    BY <1>2 DEF TypeOK, LoopType
  <1>. QED  BY <1>1, <1>3, <1>4 DEF frame, stash

LEMMA RetainPendingEffect ==
    ASSUME TypeOK, RetainPending
    PROVE  /\ loop.pc = "flush" /\ loop.pending /= <<>> /\ Head(loop.pending) \in DataFrame
           /\ UNCHANGED <<inb, out>>
           /\ loop'.pending = Tail(loop.pending)
           /\ loop'.kept = IF Kept(Head(loop.pending), loop.floor)
                           THEN Append(loop.kept, Head(loop.pending)) ELSE loop.kept
           /\ loop'.pc = loop.pc /\ loop'.stash = loop.stash
           /\ loop'.intr = loop.intr /\ loop'.wait = loop.wait
           /\ loop'.abandoned = loop.abandoned /\ loop'.cur = loop.cur
           /\ loop'.floor = loop.floor /\ loop'.stop = loop.stop
           /\ loop'.cut = loop.cut /\ loop'.epoch = loop.epoch
  <1>. DEFINE frame == Head(loop.pending)
              rest == Tail(loop.pending)
              kept == IF Kept(frame, loop.floor) THEN Append(loop.kept, frame) ELSE loop.kept
  <1>1. frame \in DataFrame /\ loop.pc = "flush" /\ loop.pending /= <<>>
        /\ inb' = inb /\ out' = out
    BY DEF RetainPending, TypeOK, LoopType
  <1>2. loop' = [loop EXCEPT !.pending = rest, !.kept = kept]
    BY DEF RetainPending, Judge
  <1>. HIDE DEF frame, rest, kept
  <1>3. /\ loop'.pending = rest /\ loop'.kept = kept
        /\ loop'.pc = loop.pc /\ loop'.stash = loop.stash
        /\ loop'.intr = loop.intr /\ loop'.wait = loop.wait
        /\ loop'.abandoned = loop.abandoned /\ loop'.cur = loop.cur
        /\ loop'.floor = loop.floor /\ loop'.stop = loop.stop
        /\ loop'.cut = loop.cut /\ loop'.epoch = loop.epoch
    BY <1>2 DEF TypeOK, LoopType
  <1>. QED  BY <1>1, <1>3 DEF frame, rest, kept

LEMMA FlushDataEffect ==
    ASSUME TypeOK, FlushData
    PROVE  /\ loop.pc = "flush" /\ loop.pending = <<>>
           /\ inb.data /= <<>> /\ Head(inb.data) \in DataFrame
           /\ inb'.sys = inb.sys /\ inb'.data = Tail(inb.data)
           /\ inb'.next = inb.next /\ inb'.rx = inb.rx /\ out' = out
           /\ loop'.pending = loop.pending
           /\ loop'.kept = IF Kept(Head(inb.data), loop.floor)
                           THEN Append(loop.kept, Head(inb.data)) ELSE loop.kept
           /\ loop'.pc = loop.pc /\ loop'.stash = loop.stash
           /\ loop'.intr = loop.intr /\ loop'.wait = loop.wait
           /\ loop'.abandoned = loop.abandoned /\ loop'.cur = loop.cur
           /\ loop'.floor = loop.floor /\ loop'.stop = loop.stop
           /\ loop'.cut = loop.cut /\ loop'.epoch = loop.epoch
  <1>. DEFINE frame == Head(inb.data)
              kept == IF Kept(frame, loop.floor) THEN Append(loop.kept, frame) ELSE loop.kept
  <1>1. frame \in DataFrame /\ loop.pc = "flush" /\ loop.pending = <<>>
        /\ inb.data /= <<>> /\ out' = out /\ inb' = PopData(inb)
    BY PopDataType DEF FlushData, TypeOK
  <1>2. loop' = [loop EXCEPT !.kept = kept]
    BY DEF FlushData, Judge
  <1>3. /\ inb'.sys = inb.sys /\ inb'.data = Tail(inb.data)
        /\ inb'.next = inb.next /\ inb'.rx = inb.rx
    BY <1>1, PopEffect DEF TypeOK
  <1>. HIDE DEF frame, kept
  <1>4. /\ loop'.pending = loop.pending /\ loop'.kept = kept
        /\ loop'.pc = loop.pc /\ loop'.stash = loop.stash
        /\ loop'.intr = loop.intr /\ loop'.wait = loop.wait
        /\ loop'.abandoned = loop.abandoned /\ loop'.cur = loop.cur
        /\ loop'.floor = loop.floor /\ loop'.stop = loop.stop
        /\ loop'.cut = loop.cut /\ loop'.epoch = loop.epoch
    BY <1>2 DEF TypeOK, LoopType
  <1>. QED  BY <1>1, <1>3, <1>4 DEF frame, kept

LEMMA FlushEndsEffect ==
    ASSUME TypeOK, FlushEnds
    PROVE  /\ loop.pc = "flush" /\ loop.pending = <<>> /\ inb.data = <<>>
           /\ UNCHANGED <<inb, out>>
           /\ loop'.pending = loop.kept /\ loop'.kept = <<>>
           /\ loop'.pc = "settle" /\ loop'.stash = loop.stash
           /\ loop'.intr = loop.intr /\ loop'.wait = loop.wait
           /\ loop'.abandoned = loop.abandoned /\ loop'.cur = loop.cur
           /\ loop'.floor = loop.floor /\ loop'.stop = loop.stop
           /\ loop'.cut = loop.cut /\ loop'.epoch = loop.epoch
  BY DEF FlushEnds, TypeOK, LoopType

\* The neighbour upstream sends a frame, whatever its kind and epoch, or leaves.
Arrival == out' = out /\ loop' = loop /\ Sent(inb, inb')

LEMMA UpstreamEffect ==
    ASSUME TypeOK, UpstreamSendsData \/ UpstreamSendsSystem \/ UpstreamCloses
    PROVE  Arrival
  <1>1. inb \in LinkType /\ inb.ep \in Nat /\ out' = out /\ loop' = loop
    BY DEF TypeOK, LinkType, UpstreamSendsData, UpstreamSendsSystem, UpstreamCloses
  <1>2. CASE UpstreamSendsData
    <2>1. PICK kind \in UpData : inb' = SendData(inb, kind, inb.ep)
      BY <1>2 DEF UpstreamSendsData
    <2>. QED  BY <1>1, <2>1, SendDataSent, EnvironmentAssumption DEF Arrival
  <1>3. CASE UpstreamSendsSystem
    <2>1. PICK kind \in UpSystem :
            inb' = SendSystem(inb, kind, IF kind = "interrupt" THEN inb.ep + 1 ELSE inb.ep)
      BY <1>3 DEF UpstreamSendsSystem
    <2>. DEFINE ep == IF kind = "interrupt" THEN inb.ep + 1 ELSE inb.ep
    <2>2. ep \in Nat /\ ep >= inb.ep
      BY <1>1
    <2>. QED  BY <1>1, <2>1, <2>2, SendSystemSent, EnvironmentAssumption DEF Arrival
  <1>4. CASE UpstreamCloses
    BY <1>1, <1>4, CloseSent DEF UpstreamCloses, Arrival
  <1>. QED  BY <1>2, <1>3, <1>4

Downstream == DownstreamTakesSystem \/ DownstreamTakesData \/ DownstreamCloses

\* The neighbour downstream takes a frame, or leaves.
Departure ==
    /\ inb' = inb /\ loop' = loop
    /\ out'.ep = out.ep /\ out'.next = out.next
    /\ \/ /\ out'.sys = Tail(out.sys) /\ out.sys /= <<>>
          /\ out'.data = out.data /\ out'.rx = out.rx
       \/ /\ out'.data = Tail(out.data) /\ out.data /= <<>>
          /\ out'.sys = out.sys /\ out'.rx = out.rx
       \/ out'.sys = <<>> /\ out'.data = <<>> /\ ~out'.rx

LEMMA DownstreamEffect ==
    ASSUME TypeOK, Downstream
    PROVE  Departure
  <1>. USE DEF Departure
  <1>1. CASE DownstreamTakesSystem
    BY <1>1, PopEffect DEF DownstreamTakesSystem, TypeOK
  <1>2. CASE DownstreamTakesData
    BY <1>2, PopEffect DEF DownstreamTakesData, TypeOK
  <1>3. CASE DownstreamCloses
    BY <1>3 DEF DownstreamCloses, DropInbound, TypeOK, LinkType
  <1>. QED  BY <1>1, <1>2, <1>3 DEF Downstream

-----------------------------------------------------------------------------
(***************************************************************************)
(* What a step of the loop sends: nothing, or one frame caused by the      *)
(* frame in hand, which it then waits for.                                 *)
(***************************************************************************)

SendsNothing == /\ out'.sys = out.sys /\ out'.data = out.data
                /\ out'.rx = out.rx /\ out'.ep = out.ep /\ out'.next = out.next

SendsSystem ==
    \E kind \in SysKinds :
      /\ out' = SendSystem(out, kind, loop'.cur.ep)
      /\ loop'.wait = "sys" /\ loop'.cur.ep >= loop'.epoch
      /\ kind = "interrupt" => loop'.cur.ep = loop'.epoch

SendsData ==
    \E kind \in DataKinds :
      /\ out' = SendData(out, kind, loop'.cur.ep)
      /\ loop'.wait = "data" /\ loop'.cur.ep >= loop'.epoch

LEMMA LoopSends ==
    ASSUME TypeOK, Locals, Causes, LoopNext
    PROVE  /\ SendsNothing \/ SendsSystem \/ SendsData
           /\ loop'.epoch >= loop.epoch
           /\ Preempt \/ loop'.abandoned = loop.abandoned
           /\ loop'.pc \in {"forward", "perform", "error", "system"}
                => loop'.cur.ep >= loop'.epoch
  <1>. USE DEF SendsNothing, SendsSystem, SendsData
  <1>0. /\ loop.epoch \in Nat /\ loop.cur.ep \in Nat /\ "other" \in SysKinds
        /\ "interrupt" \in SysKinds
    BY DEF TypeOK, LoopType, InHand, SysKinds
  <1>1. CASE TakeSystem
    <2>1. Head(inb.sys).kind \in SysKinds
      BY <1>1, TakeSystemEffect DEF SysFrame
    <2>. QED  BY <1>1, <2>1, TakeSystemEffect DEF TakeSystem
  <1>2. CASE SettleStashed
    <2>1. Head(loop.stash).kind \in SysKinds
      BY <1>2, SettleStashedEffect DEF SysFrame
    <2>. QED  BY <1>2, <2>1, SettleStashedEffect DEF SettleStashed
  <1>3. CASE SettleInterrupt
    <2>1. loop'.epoch \in Nat
      BY TypeStep DEF TypeOK, LoopType, Next, LoopNext
    <2>. QED  BY <1>0, <1>3, <2>1, SettleInterruptEffect DEF SettleInterrupt
  <1>4. CASE TakePending
    <2>1. Head(loop.pending).kind \in DataKinds
      BY <1>4, TakePendingEffect DEF DataFrame
    <2>. QED  BY <1>0, <1>4, <2>1, TakePendingEffect DEF TakePending
  <1>5. CASE TakeData
    <2>1. Head(inb.data).kind \in DataKinds
      BY <1>5, TakeDataEffect DEF DataFrame
    <2>. QED  BY <1>0, <1>5, <2>1, TakeDataEffect DEF TakeData
  <1>6. CASE Finish \/ Break
    BY <1>0, <1>6, ReturnEffect DEF Finish, Break
  <1>7. CASE Forwarded \/ PerformDone \/ ErrorSent \/ SystemHandled \/ Continue
    <2>1. /\ out' = out /\ loop'.epoch = loop.epoch /\ loop'.cur = loop.cur
          /\ loop'.abandoned = loop.abandoned
      BY <1>7 DEF Forwarded, PerformDone, ErrorSent, SystemHandled, Continue, Settled,
                  TypeOK, LoopType
    <2>2. loop'.pc \in {"forward", "perform", "error", "system"} =>
            loop.pc \in {"forward", "perform", "error", "system"}
      BY <1>7 DEF Forwarded, PerformDone, ErrorSent, SystemHandled, Continue, Settled,
                  TypeOK, LoopType
    <2>. QED  BY <1>0, <2>1, <2>2 DEF Causes
  <1>8. CASE Perform \/ SystemPerform
    <2>1. loop'.epoch \in Nat
      BY TypeStep DEF TypeOK, LoopType, Next, LoopNext
    <2>2. loop.cur.ep >= loop.epoch /\ loop.effects /= <<>> /\ PerformNext
      BY <1>8 DEF Causes, Perform, SystemPerform
    <2>. QED  BY <1>0, <2>1, <2>2, PerformNextEffect
  <1>9. CASE PerformFails
    <2>1. loop.cur.ep >= loop.epoch
      BY <1>9 DEF PerformFails, Causes
    <2>. QED  BY <1>0, <1>9, <2>1, PerformFailsEffect
  <1>10. CASE SystemPerformFails
    <2>1. loop.cur.ep >= loop.epoch
      BY <1>10 DEF SystemPerformFails, Causes
    <2>. QED  BY <1>0, <1>10, <2>1, SystemPerformFailsEffect
  <1>11. CASE Preempt
    BY <1>0, <1>11, PreemptEffect
  <1>12. CASE Stash
    BY <1>0, <1>12, StashEffect DEF Causes
  <1>13. CASE RetainPending \/ FlushData
    BY <1>0, <1>13, RetainPendingEffect, FlushDataEffect
  <1>14. CASE FlushEnds
    BY <1>0, <1>14, FlushEndsEffect
  <1>. QED
    BY <1>1, <1>2, <1>3, <1>4, <1>5, <1>6, <1>7, <1>8, <1>9, <1>10, <1>11, <1>12, <1>13,
       <1>14 DEF LoopNext, Looping, Performing

\* A step of the loop is taken with no send in its way, or it is one of the two
\* that answer the system lane while perform waits in one.
LEMMA LoopReady ==
    ASSUME TypeOK, Locals, LoopNext
    PROVE  Ready \/ Preempt \/ Stash
  <1>1. loop.wait = "none" => Ready
    BY DEF Ready, Flushed
  <1>2. loop.pc \in {"recv", "flush", "settle"} => loop.wait = "none"
    BY DEF Locals
  <1>. QED
    BY <1>1, <1>2 DEF LoopNext, Looping, Performing, TakeSystem, TakePending, TakeData,
         Finish, Forwarded, Perform, PerformDone, PerformFails, ErrorSent, SystemPerform,
         SystemPerformFails, SystemHandled, RetainPending, FlushData, FlushEnds,
         SettleStashed, SettleInterrupt, Settled, Continue, Break

\* What a send leaves of the outbound lanes.
LEMMA SentLanes ==
    ASSUME TypeOK, TypeOK', SendsNothing \/ SendsSystem \/ SendsData
    PROVE  /\ out'.rx = out.rx
           /\ ~out.rx => out'.sys = out.sys /\ out'.data = out.data
           /\ \/ out'.sys = out.sys
              \/ /\ loop'.wait = "sys" /\ out'.data = out.data
                 /\ \E frame \in SysFrame :
                      /\ out'.sys = Append(out.sys, frame)
                      /\ frame.ep = loop'.cur.ep /\ loop'.cur.ep >= loop'.epoch
           /\ \/ out'.data = out.data
              \/ /\ loop'.wait = "data" /\ out'.sys = out.sys
                 /\ \E frame \in DataFrame :
                      /\ out'.data = Append(out.data, frame)
                      /\ frame.ep = loop'.cur.ep /\ loop'.cur.ep >= loop'.epoch
           /\ out'.ep = out.ep \/ out'.ep = loop'.epoch
  <1>0. loop'.cur.ep \in Nat /\ out.rx \in BOOLEAN /\ out \in LinkType
    BY DEF TypeOK, LoopType, LinkType, InHand
  <1>1. CASE SendsNothing
    BY <1>1 DEF SendsNothing
  <1>2. CASE SendsSystem
    <2>1. PICK kind \in SysKinds :
            /\ out' = SendSystem(out, kind, loop'.cur.ep)
            /\ loop'.wait = "sys" /\ loop'.cur.ep >= loop'.epoch
            /\ kind = "interrupt" => loop'.cur.ep = loop'.epoch
      BY <1>2 DEF SendsSystem
    <2>. DEFINE frame == [seq |-> out.next, kind |-> kind, ep |-> loop'.cur.ep]
    <2>2. /\ out'.data = out.data /\ out'.rx = out.rx
          /\ out'.ep = IF kind = "interrupt" THEN loop'.cur.ep ELSE out.ep
          /\ frame \in SysFrame
          /\ out'.sys = IF out.rx THEN Append(out.sys, frame) ELSE out.sys
      BY <1>0, <2>1, SendSystemEffect
    <2>3. frame.ep = loop'.cur.ep
      OBVIOUS
    <2>. HIDE DEF frame
    <2>. QED  BY <1>0, <2>1, <2>2, <2>3
  <1>3. CASE SendsData
    <2>1. PICK kind \in DataKinds :
            /\ out' = SendData(out, kind, loop'.cur.ep)
            /\ loop'.wait = "data" /\ loop'.cur.ep >= loop'.epoch
      BY <1>3 DEF SendsData
    <2>. DEFINE frame == [seq |-> out.next, kind |-> kind, ep |-> loop'.cur.ep]
    <2>2. /\ out'.sys = out.sys /\ out'.rx = out.rx /\ out'.ep = out.ep
          /\ frame \in DataFrame
          /\ out'.data = IF out.rx THEN Append(out.data, frame) ELSE out.data
      BY <1>0, <2>1, SendDataEffect
    <2>3. frame.ep = loop'.cur.ep
      OBVIOUS
    <2>. HIDE DEF frame
    <2>. QED  BY <1>0, <2>1, <2>2, <2>3
  <1>. QED  BY <1>1, <1>2, <1>3

-----------------------------------------------------------------------------
(***************************************************************************)
(* The parts of the inductive invariant, one by one.                       *)
(***************************************************************************)

LEMMA LocalsArrival ==
    ASSUME Locals, Arrival
    PROVE  Locals'
  BY DEF Arrival, Sent, Locals, Handling

LEMMA LocalsStep ==
    ASSUME TypeOK, TypeOK', Locals, Causes, [Next]_vars
    PROVE  Locals'
  <1>0. ASSUME LoopNext
        PROVE  ~out'.rx => out'.sys = <<>> /\ out'.data = <<>>
    BY <1>0, LoopSends, SentLanes DEF Locals
  <1>1. CASE TakeSystem
    <2>1. Head(inb.sys).kind \in SysKinds /\ loop.pc = "recv"
      BY <1>1, TakeSystemEffect DEF TakeSystem, SysFrame
    <2>. QED  BY <1>0, <1>1, <2>1, TakeSystemEffect DEF Locals, Handling, LoopNext, Looping
  <1>2. CASE SettleStashed
    <2>1. loop.stash \in Seq(SysFrame) /\ loop.pc = "settle"
      BY <1>2 DEF SettleStashed, TypeOK, LoopType
    <2>2. Frames(loop.stash) = {Head(loop.stash)} \cup Frames(Tail(loop.stash))
      BY <1>2, <2>1, SettleStashedEffect, FramesOfTail
    <2>. QED  BY <1>0, <1>2, <2>1, <2>2, SettleStashedEffect DEF Locals, Handling, LoopNext, Looping
  <1>3. CASE SettleInterrupt
    <2>1. loop.pc = "settle"
      BY <1>3 DEF SettleInterrupt
    <2>. QED  BY <1>0, <1>3, <2>1, SettleInterruptEffect DEF Locals, Handling, LoopNext, Looping
  <1>4. CASE TakePending
    <2>1. loop.pc = "recv"
      BY <1>4 DEF TakePending
    <2>. QED  BY <1>0, <1>4, <2>1, TakePendingEffect DEF Locals, Handling, LoopNext, Looping
  <1>5. CASE TakeData
    <2>1. loop.pc = "recv"
      BY <1>5 DEF TakeData
    <2>. QED  BY <1>0, <1>5, <2>1, TakeDataEffect DEF Locals, Handling, LoopNext, Looping
  <1>6. CASE Finish \/ Break
    <2>1. Return /\ loop.pc \in {"recv", "settle"} /\ loop.stash = <<>> /\ loop.intr = NoFrame
      BY <1>6 DEF Finish, Break, Settled, Locals
    <2>. QED  BY <1>0, <1>6, <2>1, ReturnEffect DEF Locals, Handling, LoopNext, Looping
  <1>7. CASE Quiet
    <2>1. /\ inb' = inb /\ loop'.kept = loop.kept /\ loop'.floor = loop.floor
          /\ loop'.stash = loop.stash /\ loop'.intr = loop.intr /\ loop'.cut = loop.cut
          /\ loop'.cur.kind = loop.cur.kind /\ loop.pc /= "done" /\ loop'.pc /= "done"
      BY <1>7, QuietEffect
    <2>2. ~out'.rx => out'.sys = <<>> /\ out'.data = <<>>
      BY <1>0, <1>7 DEF Quiet, LoopNext, Looping, Performing
    <2>3. CASE Forwarded \/ PerformDone \/ ErrorSent
      <3>1. /\ loop.pc \in {"forward", "perform", "error"}
            /\ loop'.pc \in {"recv", "perform", "settle"}
            /\ loop'.wait = "none" /\ loop'.stop = loop.stop
            /\ loop'.pc \in {"recv", "perform"} => loop.pc = "forward"
        <4>1. CASE Forwarded
          BY <4>1 DEF Forwarded, TypeOK, LoopType
        <4>2. CASE PerformDone
          BY <4>2 DEF PerformDone, TypeOK, LoopType
        <4>3. CASE ErrorSent
          BY <4>3 DEF ErrorSent, TypeOK, LoopType
        <4>. QED  BY <2>3, <4>1, <4>2, <4>3
      <3>. QED  BY <2>1, <2>2, <3>1 DEF Locals, Handling
    <2>4. CASE SystemHandled
      <3>1. /\ loop.pc = "system" /\ loop'.wait = "none" /\ loop'.stop = loop.stop
            /\ \/ loop'.pc = "flush" /\ loop.cur.kind = "interrupt"
               \/ loop'.pc = "settle"
        BY <2>4 DEF SystemHandled, TypeOK, LoopType
      <3>. QED  BY <2>1, <2>2, <3>1 DEF Locals, Handling
    <2>5. CASE Continue
      <3>1. /\ loop.pc = "settle" /\ loop'.pc = "recv" /\ loop'.wait = loop.wait
            /\ loop'.stop = loop.stop /\ ~loop.stop
            /\ loop.stash = <<>> /\ loop.intr = NoFrame
        BY <2>5 DEF Continue, Settled, TypeOK, LoopType
      <3>. QED  BY <2>1, <2>2, <3>1 DEF Locals, Handling
    <2>6. CASE Perform \/ SystemPerform
      <3>1. loop.pc \in {"perform", "system"} /\ loop.effects /= <<>> /\ PerformNext
        BY <2>6 DEF Perform, SystemPerform
      <3>2. loop'.pc = loop.pc /\ loop'.stop = loop.stop
        BY <3>1, PerformNextEffect
      <3>. QED  BY <2>1, <2>2, <3>1, <3>2 DEF Locals, Handling
    <2>7. CASE PerformFails
      <3>1. loop.pc = "perform"
        BY <2>7 DEF PerformFails
      <3>. QED  BY <2>1, <2>2, <2>7, <3>1, PerformFailsEffect DEF Locals, Handling
    <2>8. CASE SystemPerformFails
      <3>1. loop.pc = "system"
        BY <2>8 DEF SystemPerformFails
      <3>. QED  BY <2>1, <2>2, <2>8, <3>1, SystemPerformFailsEffect DEF Locals, Handling
    <2>. QED  BY <1>7, <2>3, <2>4, <2>5, <2>6, <2>7, <2>8 DEF Quiet
  <1>8. CASE Preempt
    BY <1>0, <1>8, PreemptEffect DEF Locals, Handling, LoopNext, Looping
  <1>9. CASE Stash
    <2>1. loop.stash \in Seq(SysFrame)
      BY DEF TypeOK, LoopType
    <2>2. Frames(Append(loop.stash, Head(inb.sys))) = Frames(loop.stash) \cup {Head(inb.sys)}
      BY <1>9, <2>1, StashEffect, FramesOfAppend
    <2>. QED  BY <1>0, <1>9, <2>2, StashEffect DEF Locals, Handling, LoopNext, Looping
  <1>10. CASE RetainPending \/ FlushData
    BY <1>10, RetainPendingEffect, FlushDataEffect DEF Locals, Handling
  <1>11. CASE FlushEnds
    BY <1>11, FlushEndsEffect DEF Locals, Handling
  <1>12. CASE UpstreamSendsData \/ UpstreamSendsSystem \/ UpstreamCloses
    BY <1>12, UpstreamEffect, LocalsArrival
  <1>13. CASE Downstream
    BY <1>13, DownstreamEffect DEF Departure, Locals, Handling
  <1>14. CASE Ended \/ UNCHANGED vars
    BY <1>14 DEF Ended, vars, Locals, Handling
  <1>. QED
    BY <1>1, <1>2, <1>3, <1>4, <1>5, <1>6, <1>7, <1>8, <1>9, <1>10, <1>11, <1>12, <1>13, <1>14
    DEF Next, LoopNext, Looping, Performing, Neighbours, Downstream, Quiet

LEMMA CausesStep ==
    ASSUME TypeOK, TypeOK', Locals, Causes, [Next]_vars
    PROVE  Causes'
  <1>0. loop.epoch \in Nat /\ loop'.epoch \in Nat /\ out.ep \in Nat
    BY DEF TypeOK, LoopType, LinkType
  <1>1. CASE LoopNext
    <2>1. out'.ep = out.ep \/ out'.ep = loop'.epoch
      BY <1>1, LoopSends, SentLanes
    <2>. QED  BY <1>0, <1>1, <2>1, LoopSends DEF Causes
  <1>2. CASE UpstreamSendsData \/ UpstreamSendsSystem \/ UpstreamCloses
    BY <1>2, UpstreamEffect DEF Arrival, Sent, Causes
  <1>3. CASE Downstream
    BY <1>3, DownstreamEffect DEF Departure, Causes
  <1>4. CASE Ended \/ UNCHANGED vars
    BY <1>4 DEF Ended, vars, Causes
  <1>. QED  BY <1>1, <1>2, <1>3, <1>4 DEF Next, Neighbours, Downstream

LEMMA InOrderArrival ==
    ASSUME TypeOK, InOrder, Arrival
    PROVE  InOrder'
  <1>. USE FramesOfEmpty, FramesOfOne
  <1>a. /\ loop.kept \in Seq(DataFrame) /\ loop.pending \in Seq(DataFrame)
        /\ inb.data \in Seq(DataFrame) /\ inb.sys \in Seq(SysFrame)
        /\ loop.stash \in Seq(SysFrame) /\ inb.next \in Nat /\ inb.next > 0
        /\ NoFrame.seq = 0
    <2>1. loop \in LoopType /\ inb \in LinkType
      BY DEF TypeOK
    <2>2. /\ loop.kept \in Seq(DataFrame) /\ loop.pending \in Seq(DataFrame)
          /\ loop.stash \in Seq(SysFrame)
      BY <2>1 DEF LoopType
    <2>3. /\ inb.data \in Seq(DataFrame) /\ inb.sys \in Seq(SysFrame)
          /\ inb.next \in Nat /\ inb.next > 0
      BY <2>1 DEF LinkType
    <2>. QED  BY <2>2, <2>3 DEF NoFrame
  <1>1. \A f \in Frames(inb.data) \cup Frames(loop.pending) \cup Frames(loop.kept)
              \cup Frames(inb.sys) \cup Frames(loop.stash) \cup {loop.intr} :
          f.seq \in Nat /\ f.seq < inb.next
    <2>1. loop.intr.seq \in Nat
      BY <1>a DEF TypeOK, LoopType, SysFrame
    <2>2. \A f \in Frames(inb.data) \cup Frames(loop.pending) \cup Frames(loop.kept) :
            f.seq \in Nat
      <3>1. /\ Frames(inb.data) \subseteq DataFrame /\ Frames(loop.pending) \subseteq DataFrame
            /\ Frames(loop.kept) \subseteq DataFrame
        BY <1>a, FramesType
      <3>. QED  BY <3>1 DEF DataFrame
    <2>3. \A f \in Frames(inb.sys) \cup Frames(loop.stash) : f.seq \in Nat
      <3>1. Frames(inb.sys) \subseteq SysFrame /\ Frames(loop.stash) \subseteq SysFrame
        BY <1>a, FramesType
      <3>. QED  BY <3>1 DEF SysFrame
    <2>. QED  BY <2>1, <2>2, <2>3 DEF InOrder
  <1>2. ASSUME NEW frame \in SysFrame, frame.seq = inb.next, inb'.sys = Append(inb.sys, frame)
        PROVE  Ascending(inb'.sys) /\ Frames(inb'.sys) = Frames(inb.sys) \cup {frame}
    BY <1>a, <1>1, <1>2, FramesOfAppend, AscendingAppend DEF InOrder
  <1>3. ASSUME NEW frame \in DataFrame, frame.seq = inb.next, inb'.data = Append(inb.data, frame)
        PROVE  Ascending(inb'.data) /\ Frames(inb'.data) = Frames(inb.data) \cup {frame}
    BY <1>a, <1>1, <1>3, FramesOfAppend, AscendingAppend DEF InOrder
  <1>0. loop'.cut = loop.cut /\ loop.cut \in Nat
    BY DEF Arrival, Sent, TypeOK, LoopType
  <1>4. CASE inb'.sys = inb.sys /\ inb'.data = inb.data
             /\ (inb'.next = inb.next \/ inb'.next = inb.next + 1)
    BY <1>a, <1>0, <1>1, <1>4 DEF Arrival, Sent, InOrder, SystemWaiting
  <1>5. CASE /\ inb'.next = inb.next + 1 /\ inb'.data = inb.data
             /\ \E frame \in SysFrame :
                  frame.seq = inb.next /\ inb'.sys = Append(inb.sys, frame)
    <2>1. PICK frame \in SysFrame :
            frame.seq = inb.next /\ inb'.sys = Append(inb.sys, frame)
      BY <1>5
    <2>2. Ascending(inb'.sys) /\ Frames(inb'.sys) = Frames(inb.sys) \cup {frame}
      BY <1>2, <2>1
    <2>3. loop' = loop
      BY DEF Arrival, Sent
    <2>4. \A n \in Nat : n < inb.next => n < inb.next + 1
      BY <1>a
    <2>5. inb.next < inb'.next /\ \A n \in Nat : n < inb.next => n < inb'.next
      BY <1>a, <1>5, <2>4
    <2>. QED  BY <1>0, <1>1, <1>5, <2>1, <2>2, <2>3, <2>5 DEF InOrder, Precede, SystemWaiting
  <1>6. CASE /\ inb'.next = inb.next + 1 /\ inb'.sys = inb.sys
             /\ \E frame \in DataFrame :
                  frame.seq = inb.next /\ inb'.data = Append(inb.data, frame)
    <2>1. PICK frame \in DataFrame :
            frame.seq = inb.next /\ inb'.data = Append(inb.data, frame)
      BY <1>6
    <2>2. Ascending(inb'.data) /\ Frames(inb'.data) = Frames(inb.data) \cup {frame}
      BY <1>3, <2>1
    <2>3. loop' = loop
      BY DEF Arrival, Sent
    <2>4. \A n \in Nat : n < inb.next => n < inb.next + 1
      BY <1>a
    <2>5. inb.next < inb'.next /\ \A n \in Nat : n < inb.next => n < inb'.next
      BY <1>a, <1>6, <2>4
    <2>. QED  BY <1>0, <1>1, <1>6, <2>1, <2>2, <2>3, <2>5 DEF InOrder, Precede, SystemWaiting
  <1>. QED  BY <1>4, <1>5, <1>6 DEF Arrival, Sent

LEMMA InOrderStep ==
    ASSUME TypeOK, Locals, InOrder, [Next]_vars
    PROVE  InOrder'
  <1>. USE FramesOfEmpty, FramesOfOne
  <1>0. /\ loop.kept \in Seq(DataFrame) /\ loop.pending \in Seq(DataFrame)
        /\ inb.data \in Seq(DataFrame) /\ inb.sys \in Seq(SysFrame)
        /\ loop.stash \in Seq(SysFrame) /\ inb.next \in Nat /\ inb.next > 0
        /\ NoFrame.seq = 0
    <2>1. loop \in LoopType /\ inb \in LinkType
      BY DEF TypeOK
    <2>2. /\ loop.kept \in Seq(DataFrame) /\ loop.pending \in Seq(DataFrame)
          /\ loop.stash \in Seq(SysFrame)
      BY <2>1 DEF LoopType
    <2>3. /\ inb.data \in Seq(DataFrame) /\ inb.sys \in Seq(SysFrame)
          /\ inb.next \in Nat /\ inb.next > 0
      BY <2>1 DEF LinkType
    <2>. QED  BY <2>2, <2>3 DEF NoFrame
  <1>1. CASE TakeSystem
    <2>1. loop.stash = <<>> /\ loop.intr = NoFrame /\ inb.sys /= <<>>
      BY <1>1 DEF TakeSystem, Locals
    <2>2. Frames(Tail(inb.sys)) \subseteq Frames(inb.sys) /\ Ascending(Tail(inb.sys))
          /\ Head(inb.sys) \in Frames(inb.sys)
          /\ \A f \in Frames(Tail(inb.sys)) : Head(inb.sys).seq < f.seq
      BY <1>0, <2>1, FramesOfTail, AscendingTail DEF InOrder
    <2>3. loop'.cut = Head(inb.sys).seq \/ loop'.cut = loop.cut
      BY <1>1, TakeSystemEffect
    <2>. QED  BY <1>1, <2>1, <2>2, <2>3, TakeSystemEffect DEF InOrder, Precede, SystemWaiting
  <1>2. CASE TakePending
    <2>2. Frames(Tail(loop.pending)) \subseteq Frames(loop.pending) /\ Ascending(Tail(loop.pending))
      BY <1>0, <1>2, TakePendingEffect, FramesOfTail, AscendingTail DEF InOrder
    <2>. QED  BY <1>2, <2>2, TakePendingEffect DEF InOrder, Precede, SystemWaiting
  <1>3. CASE TakeData
    <2>2. Frames(Tail(inb.data)) \subseteq Frames(inb.data) /\ Ascending(Tail(inb.data))
      BY <1>0, <1>3, TakeDataEffect, FramesOfTail, AscendingTail DEF InOrder
    <2>. QED  BY <1>3, <2>2, TakeDataEffect DEF InOrder, Precede, SystemWaiting
  <1>4. CASE Finish \/ Break
    <2>1. Return /\ loop.kept = <<>> /\ loop.stash = <<>> /\ loop.intr = NoFrame
      BY <1>4 DEF Finish, Break, Settled, Locals
    <2>. QED  BY <1>0, <2>1, ReturnEffect DEF InOrder, Precede, SystemWaiting
  <1>5. CASE Quiet
    BY <1>5, QuietEffect DEF InOrder, SystemWaiting
  <1>6. CASE Preempt
    <2>. DEFINE head == Head(inb.sys)
                rest == Tail(inb.sys)
    <2>1. Frames(inb.sys) = {head} \cup Frames(rest) /\ Ascending(rest)
          /\ \A f \in Frames(rest) : head.seq < f.seq
      BY <1>0, <1>6, PreemptEffect, FramesOfTail, AscendingTail DEF InOrder
    <2>2. inb'.sys = rest /\ loop'.intr = head
      BY <1>6, PreemptEffect
    <2>. HIDE DEF head, rest
    <2>. QED  BY <1>6, <2>1, <2>2, PreemptEffect DEF InOrder, Precede, SystemWaiting
  <1>7. CASE Stash
    <2>. DEFINE head == Head(inb.sys)
                rest == Tail(inb.sys)
                stash == Append(loop.stash, head)
    <2>1. Frames(inb.sys) = {head} \cup Frames(rest) /\ Ascending(rest)
          /\ \A f \in Frames(rest) : head.seq < f.seq
      BY <1>0, <1>7, StashEffect, FramesOfTail, AscendingTail DEF InOrder
    <2>2. \A f \in Frames(loop.stash) : f.seq < head.seq
      BY <2>1 DEF InOrder, Precede
    <2>3. Ascending(stash) /\ Frames(stash) = Frames(loop.stash) \cup {head}
      BY <1>0, <1>7, <2>2, StashEffect, FramesOfAppend, AscendingAppend DEF InOrder
    <2>4. inb'.sys = rest /\ loop'.stash = stash /\ loop'.intr = NoFrame /\ loop.intr = NoFrame
      BY <1>7, StashEffect DEF Locals
    <2>. HIDE DEF head, rest, stash
    <2>. QED  BY <1>7, <2>1, <2>2, <2>3, <2>4, StashEffect DEF InOrder, Precede, SystemWaiting
  <1>8. CASE RetainPending
    <2>. DEFINE head == Head(loop.pending)
                rest == Tail(loop.pending)
                more == Append(loop.kept, head)
    <2>1. Frames(loop.pending) = {head} \cup Frames(rest) /\ Ascending(rest)
          /\ \A f \in Frames(rest) : head.seq < f.seq
      BY <1>0, <1>8, RetainPendingEffect, FramesOfTail, AscendingTail DEF InOrder
    <2>2. \A f \in Frames(loop.kept) : f.seq < head.seq
      BY <2>1 DEF InOrder, Precede
    <2>3. Ascending(more) /\ Frames(more) = Frames(loop.kept) \cup {head}
      BY <1>0, <1>8, <2>2, RetainPendingEffect, FramesOfAppend, AscendingAppend DEF InOrder
    <2>4. loop'.pending = rest /\ (loop'.kept = more \/ loop'.kept = loop.kept)
      BY <1>8, RetainPendingEffect
    <2>. HIDE DEF head, rest, more
    <2>. QED  BY <1>8, <2>1, <2>2, <2>3, <2>4, RetainPendingEffect DEF InOrder, Precede, SystemWaiting
  <1>9. CASE FlushData
    <2>. DEFINE head == Head(inb.data)
                rest == Tail(inb.data)
                more == Append(loop.kept, head)
    <2>1. Frames(inb.data) = {head} \cup Frames(rest) /\ Ascending(rest)
          /\ \A f \in Frames(rest) : head.seq < f.seq
      BY <1>0, <1>9, FlushDataEffect, FramesOfTail, AscendingTail DEF InOrder
    <2>2. \A f \in Frames(loop.kept) : f.seq < head.seq
      BY <2>1 DEF InOrder, Precede
    <2>3. Ascending(more) /\ Frames(more) = Frames(loop.kept) \cup {head}
      <3>1. head \in DataFrame /\ Ascending(loop.kept)
        BY <1>9, FlushDataEffect DEF InOrder, SystemWaiting
      <3>. HIDE DEF head
      <3>2. Ascending(more)
        BY <1>0, <2>2, <3>1, AscendingAppend
      <3>3. Frames(more) = Frames(loop.kept) \cup {head}
        BY <1>0, <3>1, FramesOfAppend
      <3>. QED  BY <3>2, <3>3
    <2>4. /\ inb'.data = rest /\ (loop'.kept = more \/ loop'.kept = loop.kept)
          /\ loop'.pending = <<>> /\ loop.pending = <<>>
      BY <1>9, FlushDataEffect
    <2>. HIDE DEF head, rest, more
    <2>. QED  BY <1>9, <2>1, <2>2, <2>3, <2>4, FlushDataEffect DEF InOrder, Precede, SystemWaiting
  <1>10. CASE FlushEnds
    BY <1>10, FlushEndsEffect DEF InOrder, Precede, SystemWaiting
  <1>11. CASE SettleStashed
    <2>1. Frames(Tail(loop.stash)) \subseteq Frames(loop.stash) /\ Ascending(Tail(loop.stash))
          /\ Head(loop.stash) \in Frames(loop.stash)
      BY <1>0, <1>11, SettleStashedEffect, FramesOfTail, AscendingTail DEF InOrder
    <2>2. loop'.cut = loop.cut
      BY <1>11, <2>1, SettleStashedEffect DEF Locals
    <2>. QED  BY <1>11, <2>1, <2>2, SettleStashedEffect DEF InOrder, Precede, SystemWaiting
  <1>12. CASE SettleInterrupt
    BY <1>0, <1>12, SettleInterruptEffect DEF InOrder, Precede, SystemWaiting
  <1>13. CASE UpstreamSendsData \/ UpstreamSendsSystem \/ UpstreamCloses
    BY <1>13, UpstreamEffect, InOrderArrival
  <1>14. CASE Downstream
    BY <1>14, DownstreamEffect DEF Departure, InOrder, SystemWaiting
  <1>15. CASE Ended \/ UNCHANGED vars
    BY <1>15 DEF Ended, vars, InOrder, SystemWaiting
  <1>. QED
    BY <1>1, <1>2, <1>3, <1>4, <1>5, <1>6, <1>7, <1>8, <1>9, <1>10, <1>11, <1>12, <1>13, <1>14, <1>15
    DEF Next, LoopNext, Looping, Performing, Neighbours, Downstream, Quiet

LEMMA NoStaleArrival ==
    ASSUME TypeOK, InOrder, NoStaleBacklog, Arrival
    PROVE  NoStaleBacklog'
  <1>1. \A f \in Frames(inb'.data) : f \in Frames(inb.data) \/ f.seq = inb.next
    <2>1. ASSUME NEW frame \in DataFrame
          PROVE  Frames(Append(inb.data, frame)) = Frames(inb.data) \cup {frame}
      BY FramesOfAppend DEF TypeOK, LinkType
    <2>. QED  BY <2>1 DEF Arrival, Sent
  <1>2. inb.next >= loop.cut
    BY DEF InOrder, TypeOK, LinkType, LoopType
  <1>. QED  BY <1>1, <1>2 DEF Arrival, Sent, NoStaleBacklog, Handling, Kept

LEMMA NoStaleStep ==
    ASSUME TypeOK, Locals, InOrder, NoStaleBacklog, [Next]_vars
    PROVE  NoStaleBacklog'
  <1>. USE FramesOfEmpty
  <1>0. /\ loop.kept \in Seq(DataFrame) /\ loop.pending \in Seq(DataFrame)
        /\ inb.data \in Seq(DataFrame) /\ loop.stash \in Seq(SysFrame)
    BY DEF TypeOK, LoopType, LinkType
  <1>1. CASE TakeSystem
    <2>1. loop.kept = <<>> /\ loop.pc = "recv"
      BY <1>1 DEF TakeSystem, Locals
    <2>2. loop'.kept = <<>> /\ loop'.pending = loop.pending /\ inb'.data = inb.data
          /\ (Handling' \/ loop'.cut = loop.cut)
      BY <1>1, <2>1, TakeSystemEffect DEF Handling
    <2>. QED  BY <2>1, <2>2 DEF NoStaleBacklog, Handling
  <1>2. CASE SettleStashed
    <2>1. loop.kept = <<>> /\ loop.pc = "settle" /\ Head(loop.stash) \in Frames(loop.stash)
      BY <1>0, <1>2, SettleStashedEffect, FramesOfTail DEF SettleStashed, Locals
    <2>2. loop'.kept = <<>> /\ loop'.pending = loop.pending /\ inb'.data = inb.data
          /\ loop'.cut = loop.cut
      BY <1>2, <2>1, SettleStashedEffect DEF Locals
    <2>. QED  BY <2>1, <2>2 DEF NoStaleBacklog, Handling
  <1>3. CASE SettleInterrupt
    <2>1. loop.kept = <<>>
      BY <1>3 DEF SettleInterrupt, Locals
    <2>. QED  BY <1>3, <2>1, SettleInterruptEffect DEF NoStaleBacklog, Handling
  <1>4. CASE TakePending
    <2>1. loop.pc = "recv" /\ Frames(Tail(loop.pending)) \subseteq Frames(loop.pending)
      BY <1>0, <1>4, TakePendingEffect, FramesOfTail DEF TakePending
    <2>. QED  BY <1>4, <2>1, TakePendingEffect DEF NoStaleBacklog, Handling
  <1>5. CASE TakeData
    <2>1. loop.pc = "recv" /\ Frames(Tail(inb.data)) \subseteq Frames(inb.data)
      BY <1>0, <1>5, TakeDataEffect, FramesOfTail DEF TakeData
    <2>. QED  BY <1>5, <2>1, TakeDataEffect DEF NoStaleBacklog, Handling
  <1>6. CASE Finish \/ Break
    <2>1. Return /\ loop.kept = <<>>
      BY <1>6 DEF Finish, Break, Settled, Locals
    <2>. QED  BY <2>1, ReturnEffect DEF NoStaleBacklog
  <1>7. CASE Quiet
    <2>1. ~Handling' /\ loop'.pc /= "flush" => ~Handling /\ loop.pc /= "flush"
      <3>1. CASE Forwarded \/ PerformDone \/ ErrorSent \/ Continue
        BY <3>1 DEF Forwarded, PerformDone, ErrorSent, Continue, Settled, Handling
      <3>2. CASE SystemHandled
        BY <3>2 DEF SystemHandled, Handling, TypeOK, LoopType
      <3>3. CASE Perform \/ SystemPerform
        <4>1. loop.pc \in {"perform", "system"} /\ loop.effects /= <<>> /\ PerformNext
          BY <3>3 DEF Perform, SystemPerform
        <4>. QED  BY <4>1, PerformNextEffect DEF Handling
      <3>4. CASE PerformFails
        BY <3>4 DEF PerformFails, Handling
      <3>5. CASE SystemPerformFails
        <4>1. loop.pc = "system"
          BY <3>5 DEF SystemPerformFails
        <4>. QED  BY <3>5, <4>1, SystemPerformFailsEffect DEF Handling
      <3>. QED  BY <1>7, <3>1, <3>2, <3>3, <3>4, <3>5 DEF Quiet
    <2>. QED  BY <1>7, <2>1, QuietEffect DEF NoStaleBacklog
  <1>8. CASE Preempt \/ Stash
    BY <1>8, PreemptEffect, StashEffect DEF NoStaleBacklog, Handling
  <1>9. CASE RetainPending
    <2>1. Frames(Append(loop.kept, Head(loop.pending)))
            = Frames(loop.kept) \cup {Head(loop.pending)}
      BY <1>0, <1>9, RetainPendingEffect, FramesOfAppend
    <2>2. loop.floor = loop.cut
      BY <1>9, RetainPendingEffect DEF Locals
    <2>. QED  BY <1>9, <2>1, <2>2, RetainPendingEffect DEF NoStaleBacklog
  <1>10. CASE FlushData
    <2>1. Frames(Append(loop.kept, Head(inb.data))) = Frames(loop.kept) \cup {Head(inb.data)}
      BY <1>0, <1>10, FlushDataEffect, FramesOfAppend
    <2>2. loop.floor = loop.cut
      BY <1>10, FlushDataEffect DEF Locals
    <2>. QED  BY <1>10, <2>1, <2>2, FlushDataEffect DEF NoStaleBacklog
  <1>11. CASE FlushEnds
    BY <1>11, FlushEndsEffect DEF NoStaleBacklog
  <1>12. CASE UpstreamSendsData \/ UpstreamSendsSystem \/ UpstreamCloses
    BY <1>12, UpstreamEffect, NoStaleArrival
  <1>13. CASE Downstream
    BY <1>13, DownstreamEffect DEF Departure, NoStaleBacklog, Handling
  <1>14. CASE Ended \/ UNCHANGED vars
    BY <1>14 DEF Ended, vars, NoStaleBacklog, Handling
  <1>. QED
    BY <1>1, <1>2, <1>3, <1>4, <1>5, <1>6, <1>7, <1>8, <1>9, <1>10, <1>11, <1>12, <1>13, <1>14
    DEF Next, LoopNext, Looping, Performing, Neighbours, Downstream, Quiet

\* The invariant stands whatever the neighbours do, so long as what arrives has stamps that
\* go on from the last one, and what leaves is taken from the front.
LEMMA ArrivalKeeps ==
    ASSUME IInv, TypeOK', Arrival
    PROVE  IInv'
  <1>1. Causes'
    BY DEF IInv, Causes, Arrival, Sent
  <1>. QED  BY <1>1, LocalsArrival, InOrderArrival, NoStaleArrival DEF IInv

LEMMA DrawnKeeps ==
    ASSUME IInv, TypeOK', inb' = inb, loop' = loop, Drawn(out, out')
    PROVE  IInv'
  <1>1. Locals'
    BY DEF IInv, Locals, Handling, Drawn
  <1>2. InOrder'
    BY DEF IInv, InOrder, SystemWaiting
  <1>3. NoStaleBacklog'
    BY DEF IInv, NoStaleBacklog, Handling
  <1>4. Causes'
    BY DEF IInv, Causes, Drawn
  <1>. QED  BY <1>1, <1>2, <1>3, <1>4 DEF IInv

LEMMA IInvInit == Init => IInv
  <1>. SUFFICES ASSUME Init PROVE IInv
    OBVIOUS
  <1>1. TypeOK
    BY TypeInit
  <1>2. Locals /\ InOrder /\ NoStaleBacklog /\ Causes
    BY FramesOfEmpty DEF Init, NewLink, NewLoop, NoFrame, Locals, InOrder, Precede,
       SystemWaiting, NoStaleBacklog, Causes, Handling
  <1>. QED  BY <1>1, <1>2 DEF IInv

LEMMA IInvStep == IInv /\ [Next]_vars => IInv'
  BY TypeStep, LocalsStep, InOrderStep, NoStaleStep, CausesStep DEF IInv

\* What a step of the loop does to its two links is what a receiver and a sender can do.
LEMMA LoopDraws ==
    ASSUME TypeOK, LoopNext
    PROVE  Drawn(inb, inb')
  <1>1. inb \in LinkType
    BY DEF TypeOK
  <1>2. \/ inb' = inb \/ inb' = DropInbound(inb)
        \/ inb.sys /= <<>> /\ inb' = PopSys(inb)
        \/ inb.data /= <<>> /\ inb' = PopData(inb)
    BY DEF LoopNext, Looping, Performing, TakeSystem, TakePending, TakeData, Finish, Return,
         Forwarded, Perform, PerformDone, PerformFails, ErrorSent, Preempt, Stash,
         SystemPerform, SystemPerformFails, SystemHandled, RetainPending, FlushData,
         FlushEnds, SettleStashed, SettleInterrupt, Continue, Break
  <1>. QED  BY <1>1, <1>2, ReceiverDraws

LEMMA LoopSent ==
    ASSUME IInv, IInv', LoopNext
    PROVE  Sent(out, out')
  <1>1. /\ out \in LinkType /\ loop.epoch \in Nat /\ loop'.epoch \in Nat /\ out.ep \in Nat
        /\ loop'.cur.ep \in Nat /\ loop.epoch >= out.ep
    BY DEF IInv, TypeOK, LinkType, LoopType, InHand, Causes
  <1>2. (SendsNothing \/ SendsSystem \/ SendsData) /\ loop'.epoch >= loop.epoch
    BY LoopSends DEF IInv
  <1>3. CASE SendsNothing
    BY <1>3 DEF SendsNothing, Sent
  <1>4. CASE SendsSystem
    BY <1>1, <1>2, <1>4, SendSystemSent DEF SendsSystem
  <1>5. CASE SendsData
    BY <1>1, <1>2, <1>5, SendDataSent DEF SendsData
  <1>. QED  BY <1>2, <1>3, <1>4, <1>5

\* The inductive invariant: the flush is causal, and what the loop has stashed, kept
\* or not read yet stays in the order it was sent in.
THEOREM InvariantHolds == Spec => []IInv
  <1>. QED  BY IInvInit, IInvStep, PTL DEF Spec

-----------------------------------------------------------------------------
(***************************************************************************)
(* What follows from the invariant.                                        *)
(***************************************************************************)

LEMMA ShorterTail ==
    ASSUME NEW S, NEW lane \in Seq(S), lane /= <<>>
    PROVE  Len(Tail(lane)) \in Nat /\ Len(Tail(lane)) <= Len(lane)
  <1>1. Len(lane) \in Nat /\ Len(lane) > 0 /\ Len(Tail(lane)) = Len(lane) - 1
    OBVIOUS
  <1>. QED  BY <1>1

\* Without the send it waits for, the loop is within the bound of both lanes.
LEMMA ReadyBound ==
    ASSUME TypeOK, Locals, LanesBounded, Ready
    PROVE  /\ Len(out.data) <= Capacity + loop.abandoned
           /\ Len(out.sys) <= Capacity + loop.abandoned
  <1>1. loop.abandoned \in Nat /\ loop.wait \in {"none", "sys", "data"}
    BY DEF TypeOK, LoopType
  <1>2. out.data \in Seq(DataFrame) /\ out.sys \in Seq(SysFrame)
    BY DEF TypeOK, LinkType
  <1>3. Capacity \in Nat /\ Len(out.data) \in Nat /\ Len(out.sys) \in Nat /\ Len(<<>>) = 0
    BY <1>2, CapacityAssumption
  <1>4. ~out.rx => Len(out.data) = 0 /\ Len(out.sys) = 0
    BY <1>3 DEF Locals
  <1>5. CASE loop.wait = "none"
    BY <1>1, <1>3, <1>5 DEF LanesBounded
  <1>6. CASE loop.wait = "sys"
    <2>1. ~out.rx \/ Len(out.sys) <= Capacity
      BY <1>6 DEF Ready, Flushed
    <2>. QED  BY <1>1, <1>3, <1>4, <1>6, <2>1 DEF LanesBounded
  <1>7. CASE loop.wait = "data"
    <2>1. ~out.rx \/ Len(out.data) <= Capacity
      BY <1>7 DEF Ready, Flushed
    <2>. QED  BY <1>1, <1>3, <1>4, <1>7, <2>1 DEF LanesBounded
  <1>. QED  BY <1>1, <1>5, <1>6, <1>7

LEMMA OutputStep ==
    ASSUME IInv, IInv', [Next]_vars
    PROVE  /\ Len(out'.data) > Len(out.data) => out'.data[Len(out'.data)].ep >= out.ep
           /\ Len(out'.sys) > Len(out.sys) => out'.sys[Len(out'.sys)].ep >= out.ep
  <1>0. /\ out.data \in Seq(DataFrame) /\ out.sys \in Seq(SysFrame)
        /\ loop.epoch \in Nat /\ loop'.epoch \in Nat /\ out.ep \in Nat
        /\ loop'.cur.ep \in Nat /\ loop.epoch >= out.ep
    BY DEF IInv, TypeOK, LinkType, LoopType, InHand, Causes
  <1>1. CASE LoopNext
    <2>1. /\ SendsNothing \/ SendsSystem \/ SendsData
          /\ loop'.epoch >= loop.epoch
      BY <1>1, LoopSends DEF IInv
    <2>2. ASSUME NEW frame, out'.sys = Append(out.sys, frame), frame.ep = loop'.cur.ep,
                 loop'.cur.ep >= loop'.epoch
          PROVE  out'.sys[Len(out'.sys)].ep >= out.ep
      <3>1. out'.sys[Len(out'.sys)] = frame
        BY <1>0, <2>2
      <3>. QED  BY <1>0, <2>1, <2>2, <3>1
    <2>3. ASSUME NEW frame, out'.data = Append(out.data, frame), frame.ep = loop'.cur.ep,
                 loop'.cur.ep >= loop'.epoch
          PROVE  out'.data[Len(out'.data)].ep >= out.ep
      <3>1. out'.data[Len(out'.data)] = frame
        BY <1>0, <2>3
      <3>. QED  BY <1>0, <2>1, <2>3, <3>1
    <2>4. Len(out.sys) \in Nat /\ Len(out.data) \in Nat
      BY <1>0
    <2>. QED  BY <2>1, <2>2, <2>3, <2>4, SentLanes DEF IInv
  <1>2. CASE UpstreamSendsData \/ UpstreamSendsSystem \/ UpstreamCloses
    BY <1>0, <1>2, UpstreamEffect DEF IInv, Arrival, Sent
  <1>3. CASE Downstream
    <2>1. \/ out'.sys = Tail(out.sys) /\ out.sys /= <<>> /\ out'.data = out.data
          \/ out'.data = Tail(out.data) /\ out.data /= <<>> /\ out'.sys = out.sys
          \/ out'.sys = <<>> /\ out'.data = <<>>
      BY <1>3, DownstreamEffect DEF IInv, Departure
    <2>2. Len(out.sys) \in Nat /\ Len(out.data) \in Nat /\ Len(<<>>) = 0
      BY <1>0
    <2>3. /\ out.sys /= <<>> => Len(Tail(out.sys)) \in Nat /\ Len(Tail(out.sys)) <= Len(out.sys)
          /\ out.data /= <<>> => Len(Tail(out.data)) \in Nat /\ Len(Tail(out.data)) <= Len(out.data)
      BY <1>0, ShorterTail
    <2>7. Len(out'.sys) <= Len(out.sys) /\ Len(out'.data) <= Len(out.data)
          /\ Len(out'.sys) \in Nat /\ Len(out'.data) \in Nat
      <3>4. CASE out'.sys = Tail(out.sys) /\ out.sys /= <<>> /\ out'.data = out.data
        BY <2>2, <2>3, <3>4
      <3>5. CASE out'.data = Tail(out.data) /\ out.data /= <<>> /\ out'.sys = out.sys
        BY <2>2, <2>3, <3>5
      <3>6. CASE out'.sys = <<>> /\ out'.data = <<>>
        BY <2>2, <2>3, <3>6
      <3>. QED  BY <2>1, <3>4, <3>5, <3>6
    <2>. QED  BY <2>2, <2>7
  <1>4. CASE Ended \/ UNCHANGED vars
    <2>1. Len(out.sys) \in Nat /\ Len(out.data) \in Nat
      BY <1>0
    <2>. QED  BY <1>4, <2>1 DEF Ended, vars
  <1>. QED  BY <1>1, <1>2, <1>3, <1>4 DEF Next, Neighbours, Downstream

\* Whatever a stage sends after an Interrupt was decided after that Interrupt.
THEOREM OutputIsCausal == Spec => OutputFollowsCause
  <1>1. IInv /\ IInv' /\ [Next]_vars =>
          [/\ Len(out'.data) > Len(out.data) => out'.data[Len(out'.data)].ep >= out.ep
           /\ Len(out'.sys) > Len(out.sys) => out'.sys[Len(out'.sys)].ep >= out.ep]_vars
    BY OutputStep
  <1>. QED  BY <1>1, InvariantHolds, PTL DEF Spec, OutputFollowsCause

LEMMA BoundStep ==
    ASSUME IInv, IInv', LanesBounded, [Next]_vars
    PROVE  LanesBounded'
  <1>a. out.data \in Seq(DataFrame) /\ out.sys \in Seq(SysFrame)
    BY DEF IInv, TypeOK, LinkType
  <1>b. Len(out.data) \in Nat /\ Len(out.sys) \in Nat /\ Len(<<>>) = 0
    BY <1>a
  <1>c. loop.abandoned \in Nat /\ loop.wait \in {"none", "sys", "data"}
    BY DEF IInv, TypeOK, LoopType
  <1>d. loop'.wait \in {"none", "sys", "data"}
    BY DEF IInv, TypeOK, LoopType
  <1>0. /\ out.data \in Seq(DataFrame) /\ out.sys \in Seq(SysFrame)
        /\ loop.abandoned \in Nat /\ Capacity \in Nat
        /\ Len(out.data) \in Nat /\ Len(out.sys) \in Nat /\ Len(<<>>) = 0
        /\ loop'.wait \in {"none", "sys", "data"} /\ loop.wait \in {"none", "sys", "data"}
    BY <1>a, <1>b, <1>c, <1>d, CapacityAssumption
  <1>1. CASE Preempt
    <2>1. out' = out /\ loop'.wait = "none"
          /\ loop'.abandoned = IF Ready THEN loop.abandoned ELSE loop.abandoned + 1
      BY <1>1, PreemptEffect DEF IInv
    <2>2. Ready => /\ Len(out.data) <= Capacity + loop.abandoned
                   /\ Len(out.sys) <= Capacity + loop.abandoned
      BY ReadyBound DEF IInv
    <2>. QED  BY <1>0, <2>1, <2>2 DEF LanesBounded
  <1>2. CASE Stash
    BY <1>2, StashEffect DEF IInv, LanesBounded
  <1>3. CASE LoopNext /\ ~Preempt /\ ~Stash
    <2>1. Ready /\ loop'.abandoned = loop.abandoned
          /\ (SendsNothing \/ SendsSystem \/ SendsData)
      BY <1>3, LoopReady, LoopSends DEF IInv
    <2>2. /\ Len(out.data) <= Capacity + loop.abandoned
          /\ Len(out.sys) <= Capacity + loop.abandoned
      BY <2>1, ReadyBound DEF IInv
    <2>3. ASSUME NEW frame PROVE /\ Len(Append(out.data, frame)) = Len(out.data) + 1
                                 /\ Len(Append(out.sys, frame)) = Len(out.sys) + 1
      BY <1>0
    <2>4. /\ \/ out'.sys = out.sys
             \/ loop'.wait = "sys" /\ out'.data = out.data /\ Len(out'.sys) = Len(out.sys) + 1
          /\ \/ out'.data = out.data
             \/ loop'.wait = "data" /\ out'.sys = out.sys /\ Len(out'.data) = Len(out.data) + 1
      BY <2>1, <2>3, SentLanes DEF IInv
    <2>5. Len(out'.data) <= Capacity + loop.abandoned + (IF loop'.wait = "data" THEN 1 ELSE 0)
      BY <1>0, <2>2, <2>4
    <2>6. Len(out'.sys) <= Capacity + loop.abandoned + (IF loop'.wait = "sys" THEN 1 ELSE 0)
      BY <1>0, <2>2, <2>4
    <2>. QED  BY <2>1, <2>5, <2>6 DEF LanesBounded
  <1>4. CASE UpstreamSendsData \/ UpstreamSendsSystem \/ UpstreamCloses
    BY <1>4, UpstreamEffect DEF IInv, Arrival, Sent, LanesBounded
  <1>5. CASE Downstream
    <2>1. /\ loop' = loop
          /\ \/ out'.sys = Tail(out.sys) /\ out.sys /= <<>> /\ out'.data = out.data
             \/ out'.data = Tail(out.data) /\ out.data /= <<>> /\ out'.sys = out.sys
             \/ out'.sys = <<>> /\ out'.data = <<>>
      BY <1>5, DownstreamEffect DEF IInv, Departure
    <2>2. /\ Len(out'.sys) <= Len(out.sys) /\ Len(out'.data) <= Len(out.data)
          /\ Len(out'.sys) \in Nat /\ Len(out'.data) \in Nat
      <3>1. /\ out.sys /= <<>> => Len(Tail(out.sys)) \in Nat /\ Len(Tail(out.sys)) <= Len(out.sys)
            /\ out.data /= <<>> => Len(Tail(out.data)) \in Nat /\ Len(Tail(out.data)) <= Len(out.data)
        BY <1>0, ShorterTail
      <3>4. CASE out'.sys = Tail(out.sys) /\ out.sys /= <<>> /\ out'.data = out.data
        BY <1>0, <3>1, <3>4
      <3>5. CASE out'.data = Tail(out.data) /\ out.data /= <<>> /\ out'.sys = out.sys
        BY <1>0, <3>1, <3>5
      <3>6. CASE out'.sys = <<>> /\ out'.data = <<>>
        BY <1>0, <3>1, <3>6
      <3>. QED  BY <2>1, <3>4, <3>5, <3>6
    <2>3. loop'.wait = loop.wait /\ loop'.abandoned = loop.abandoned
      BY <2>1
    <2>4. Len(out'.data) <= Capacity + loop.abandoned + (IF loop.wait = "data" THEN 1 ELSE 0)
      BY <1>0, <2>2 DEF LanesBounded
    <2>5. Len(out'.sys) <= Capacity + loop.abandoned + (IF loop.wait = "sys" THEN 1 ELSE 0)
      BY <1>0, <2>2 DEF LanesBounded
    <2>. QED  BY <2>3, <2>4, <2>5 DEF LanesBounded
  <1>6. CASE Ended \/ UNCHANGED vars
    BY <1>6 DEF Ended, vars, LanesBounded
  <1>. QED  BY <1>1, <1>2, <1>3, <1>4, <1>5, <1>6
              DEF Next, LoopNext, Looping, Neighbours, Downstream

LEMMA BoundInit == Init => LanesBounded
  BY CapacityAssumption DEF Init, NewLink, NewLoop, LanesBounded

\* Backpressure: no lane exceeds its depth by more than the send awaited and the
\* sends that Interrupts dropped.
THEOREM Backpressure == Spec => []LanesBounded
  <1>1. IInv /\ IInv' /\ LanesBounded /\ [Next]_vars => LanesBounded'
    BY BoundStep
  <1>. QED  BY <1>1, BoundInit, InvariantHolds, PTL DEF Spec

-----------------------------------------------------------------------------
(***************************************************************************)
(* The run loop implements the Mailbox: every step of it and of its        *)
(* neighbours is a step of the abstract specification under the mapping    *)
(* Waiting, or changes nothing there.                                      *)
(***************************************************************************)
\* The queues a waiting data frame may be in.
Backlog == Frames(loop.kept) \cup Frames(loop.pending) \cup Frames(inb.data)

AbstractStep == [Waiting!Next]_(Waiting!vars)

-----------------------------------------------------------------------------
\* One lemma for each way a step may look in the Mailbox.

LEMMA Stutters ==
    ASSUME SystemWaiting' = SystemWaiting, DataWaiting' = DataWaiting,
           inb'.next = inb.next, loop'.stop = loop.stop,
           loop'.pc = "done" <=> loop.pc = "done"
    PROVE  AbstractStep
  BY DEF AbstractStep, Waiting!vars

LEMMA HandlesSystemFrame ==
    ASSUME NEW frame \in SystemWaiting,
           \A g \in SystemWaiting : frame.seq <= g.seq,
           SystemWaiting' = SystemWaiting \ {frame},
           DataWaiting' = IF frame.kind = "interrupt"
                          THEN {d \in DataWaiting : Kept(d, frame.seq)} ELSE DataWaiting,
           loop'.stop = (loop.stop \/ frame.kind = "stop"),
           inb'.next = inb.next, loop'.pc /= "done", loop.pc /= "done"
    PROVE  AbstractStep
  <1>1. Waiting!HandleSystemFrame
    BY DEF Waiting!HandleSystemFrame, Waiting!Oldest, Kept, SurvivesFlush,
           Waiting!Kept, Waiting!SurvivesFlush
  <1>. QED  BY <1>1 DEF AbstractStep, Waiting!Next

LEMMA HandlesDataFrame ==
    ASSUME NEW frame \in DataWaiting,
           \A g \in DataWaiting : frame.seq <= g.seq,
           SystemWaiting = {}, SystemWaiting' = {},
           DataWaiting' = DataWaiting \ {frame},
           ~loop.stop, loop'.stop = loop.stop,
           inb'.next = inb.next, loop'.pc /= "done", loop.pc /= "done"
    PROVE  AbstractStep
  <1>1. Waiting!HandleDataFrame
    BY DEF Waiting!HandleDataFrame, Waiting!Oldest
  <1>. QED  BY <1>1 DEF AbstractStep, Waiting!Next

LEMMA Fails ==
    ASSUME SystemWaiting' = SystemWaiting, DataWaiting' = DataWaiting,
           loop'.stop = TRUE,
           inb'.next = inb.next, loop'.pc /= "done", loop.pc /= "done"
    PROVE  AbstractStep
  <1>1. Waiting!Fail
    BY DEF Waiting!Fail
  <1>. QED  BY <1>1 DEF AbstractStep, Waiting!Next

LEMMA Closes ==
    ASSUME loop.stop \/ (SystemWaiting = {} /\ DataWaiting = {}),
           SystemWaiting' = {}, DataWaiting' = {}, loop'.stop = loop.stop,
           inb'.next = inb.next, loop'.pc = "done"
    PROVE  AbstractStep
  <1>1. Waiting!Close
    BY DEF Waiting!Close
  <1>. QED  BY <1>1 DEF AbstractStep, Waiting!Next

LEMMA ReceivesSystemFrame ==
    ASSUME loop' = loop, inb'.next = inb.next + 1, DataWaiting' = DataWaiting,
           \/ loop.pc = "done" /\ SystemWaiting' = SystemWaiting
           \/ /\ loop.pc /= "done"
              /\ \E frame \in SysFrame :
                   frame.seq = inb.next /\ SystemWaiting' = SystemWaiting \cup {frame}
    PROVE  AbstractStep
  <1>1. Waiting!SendSystemFrame
    BY DEF Waiting!SendSystemFrame, SysFrame, SysKinds, Waiting!SysFrame, Waiting!SysKinds
  <1>. QED  BY <1>1 DEF AbstractStep, Waiting!Next

LEMMA ReceivesDataFrame ==
    ASSUME loop' = loop, inb'.next = inb.next + 1, SystemWaiting' = SystemWaiting,
           loop.pc /= "done",
           \E frame \in DataFrame :
             frame.seq = inb.next /\ DataWaiting' = DataWaiting \cup {frame}
    PROVE  AbstractStep
  <1>1. Waiting!SendDataFrame
    BY DEF Waiting!SendDataFrame, DataFrame, DataKinds, Waiting!DataFrame, Waiting!DataKinds
  <1>. QED  BY <1>1 DEF AbstractStep, Waiting!Next

-----------------------------------------------------------------------------
\* The waiting frames are frames.
LEMMA WaitingType ==
    ASSUME IInv
    PROVE  /\ SystemWaiting \subseteq SysFrame /\ Backlog \subseteq DataFrame
           /\ DataWaiting = {f \in Backlog : Kept(f, loop.cut)}
           /\ loop.cut \in Nat
           /\ \A f \in SystemWaiting : f.seq \in Nat /\ loop.cut < f.seq
           /\ \A f \in Backlog : f.seq \in Nat /\ f.seq < inb.next
  <1>1. /\ loop.kept \in Seq(DataFrame) /\ loop.pending \in Seq(DataFrame)
        /\ inb.data \in Seq(DataFrame) /\ inb.sys \in Seq(SysFrame)
        /\ loop.stash \in Seq(SysFrame) /\ loop.intr \in SysFrame \cup {NoFrame}
        /\ loop.cut \in Nat
    BY DEF IInv, TypeOK, LoopType, LinkType
  <1>2. /\ Frames(loop.kept) \subseteq DataFrame /\ Frames(loop.pending) \subseteq DataFrame
        /\ Frames(inb.data) \subseteq DataFrame /\ Frames(inb.sys) \subseteq SysFrame
        /\ Frames(loop.stash) \subseteq SysFrame
    BY <1>1, FramesType
  <1>3. SystemWaiting \subseteq SysFrame /\ Backlog \subseteq DataFrame
    BY <1>1, <1>2 DEF SystemWaiting, Backlog
  <1>4. \A f \in SystemWaiting : f.seq \in Nat /\ loop.cut < f.seq
    BY <1>3 DEF IInv, InOrder, SysFrame
  <1>5. \A f \in Backlog : f.seq \in Nat /\ f.seq < inb.next
    BY <1>3 DEF IInv, InOrder, Backlog, DataFrame
  <1>. QED  BY <1>1, <1>3, <1>4, <1>5 DEF DataWaiting, Backlog

\* A later Interrupt's flush keeps no frame an earlier one has thrown away.
LEMMA FlushesNest ==
    ASSUME IInv, IInv', Backlog' = Backlog, NEW frame \in SystemWaiting,
           loop'.cut = IF frame.kind = "interrupt" THEN frame.seq ELSE loop.cut
    PROVE  DataWaiting' = IF frame.kind = "interrupt"
                          THEN {d \in DataWaiting : Kept(d, frame.seq)} ELSE DataWaiting
  <1>1. DataWaiting' = {f \in Backlog : Kept(f, loop'.cut)}
    BY DEF DataWaiting, Backlog
  <1>2. \A f \in Backlog : Kept(f, frame.seq) => Kept(f, loop.cut)
    BY WaitingType DEF Kept
  <1>. QED  BY <1>1, <1>2, WaitingType

-----------------------------------------------------------------------------
\* A lane without its head.
LEMMA HeadOfLane ==
    ASSUME NEW S, NEW lane \in Seq(S), lane /= <<>>, Ascending(lane),
           \A f \in Frames(lane) : f.seq \in Nat
    PROVE  /\ Head(lane) \in Frames(lane)
           /\ Frames(Tail(lane)) = Frames(lane) \ {Head(lane)}
           /\ \A f \in Frames(lane) : Head(lane).seq <= f.seq
  <1>1. /\ Frames(lane) = {Head(lane)} \cup Frames(Tail(lane))
        /\ \A f \in Frames(Tail(lane)) : Head(lane).seq < f.seq
    BY FramesOfTail, AscendingTail
  <1>2. Head(lane) \notin Frames(Tail(lane))
    BY <1>1
  <1>. QED  BY <1>1, <1>2

LEMMA MailboxStep ==
    ASSUME IInv, IInv', [Next]_vars
    PROVE  AbstractStep
  <1>. USE FramesOfEmpty
  <1>0. /\ loop.kept \in Seq(DataFrame) /\ loop.pending \in Seq(DataFrame)
        /\ inb.data \in Seq(DataFrame) /\ inb.sys \in Seq(SysFrame)
        /\ loop.stash \in Seq(SysFrame)
        /\ loop.stop \in BOOLEAN /\ loop'.stop \in BOOLEAN
        /\ TypeOK /\ Locals /\ InOrder
    BY DEF IInv, TypeOK, LoopType, LinkType
  <1>1. CASE TakeSystem
    <2>1. loop.stash = <<>> /\ loop.intr = NoFrame /\ inb.sys /= <<>> /\ loop.pc = "recv"
      BY <1>0, <1>1 DEF TakeSystem, Locals
    <2>2. SystemWaiting = Frames(inb.sys)
      BY <2>1 DEF SystemWaiting
    <2>3. SystemWaiting' = Frames(Tail(inb.sys))
      BY <1>0, <1>1, <2>1, TakeSystemEffect DEF SystemWaiting
    <2>4. /\ Head(inb.sys) \in SystemWaiting
          /\ SystemWaiting' = SystemWaiting \ {Head(inb.sys)}
          /\ \A f \in SystemWaiting : Head(inb.sys).seq <= f.seq
      BY <1>0, <2>1, <2>2, <2>3, HeadOfLane, WaitingType DEF InOrder
    <2>5. Backlog' = Backlog
      BY <1>0, <1>1, TakeSystemEffect DEF Backlog
    <2>. QED  BY <1>0, <1>1, <2>1, <2>4, <2>5, TakeSystemEffect, FlushesNest, HandlesSystemFrame
  <1>2. CASE SettleStashed
    <2>. DEFINE head == Head(loop.stash)
    <2>1. loop.stash /= <<>> /\ loop.pc = "settle" /\ loop'.stash = Tail(loop.stash)
      BY <1>0, <1>2, SettleStashedEffect DEF SettleStashed
    <2>2. \A f \in Frames(loop.stash) : f.seq \in Nat /\ f \in SystemWaiting
      BY WaitingType DEF SystemWaiting
    <2>3. /\ head \in Frames(loop.stash)
          /\ Frames(loop'.stash) = Frames(loop.stash) \ {head}
          /\ \A f \in Frames(loop.stash) : head.seq <= f.seq
      BY <1>0, <2>1, <2>2, HeadOfLane DEF InOrder
    <2>4. inb' = inb /\ loop'.intr = loop.intr
      BY <1>0, <1>2, SettleStashedEffect
    <2>. HIDE DEF head
    <2>5. \A f \in SystemWaiting : f \notin Frames(loop.stash) => head.seq < f.seq
      BY <1>0, <2>3, FramesOfOne DEF SystemWaiting, InOrder, Precede
    <2>6. \A f \in SystemWaiting : head.seq <= f.seq
      BY <2>2, <2>3, <2>5, WaitingType
    <2>7. head.seq \in Nat /\ \A f \in SystemWaiting : f = head => f \in Frames(loop.stash)
      BY <2>2, <2>3
    <2>8. SystemWaiting' = SystemWaiting \ {head}
      <3>1. head \notin Frames(inb.sys) /\ (loop.intr /= NoFrame => head /= loop.intr)
        BY <1>0, <2>3, <2>7, FramesOfOne DEF InOrder, Precede
      <3>. QED  BY <2>3, <2>4, <3>1 DEF SystemWaiting
    <2>9. Backlog' = Backlog
      BY <1>0, <1>2, SettleStashedEffect DEF Backlog
    <2>10. /\ loop'.cut = IF head.kind = "interrupt" THEN head.seq ELSE loop.cut
           /\ loop'.stop = (loop.stop \/ head.kind = "stop")
           /\ inb'.next = inb.next /\ loop'.pc = "system"
      BY <1>0, <1>2, SettleStashedEffect DEF head
    <2>. QED  BY <2>1, <2>2, <2>3, <2>6, <2>8, <2>9, <2>10, FlushesNest, HandlesSystemFrame
  <1>3. CASE SettleInterrupt
    <2>1. /\ loop.intr /= NoFrame /\ loop.stash = <<>> /\ inb' = inb /\ loop'.intr = NoFrame
          /\ loop'.stash = <<>> /\ loop.intr.kind = "interrupt" /\ loop'.pc = "system"
          /\ loop.pc = "settle" /\ loop'.cut = loop.intr.seq
      BY <1>0, <1>3, SettleInterruptEffect DEF SettleInterrupt
    <2>2. SystemWaiting = {loop.intr} \cup Frames(inb.sys) /\ SystemWaiting' = Frames(inb.sys)
      BY <2>1 DEF SystemWaiting
    <2>3. \A f \in Frames(inb.sys) : loop.intr.seq < f.seq
      BY <1>0, <2>1, FramesOfOne DEF InOrder, Precede
    <2>4. loop.intr \in SystemWaiting /\ \A f \in SystemWaiting : loop.intr.seq <= f.seq
      BY <2>2, <2>3, WaitingType
    <2>5. loop.intr \notin Frames(inb.sys)
      BY <2>2, <2>3, WaitingType
    <2>6. SystemWaiting' = SystemWaiting \ {loop.intr}
      BY <2>2, <2>5
    <2>7. Backlog' = Backlog
      BY <1>0, <1>3, SettleInterruptEffect DEF Backlog
    <2>8. loop'.stop = (loop.stop \/ loop.intr.kind = "stop")
      BY <1>0, <1>3, <2>1, SettleInterruptEffect
    <2>. QED  BY <2>1, <2>4, <2>6, <2>7, <2>8, FlushesNest, HandlesSystemFrame
  <1>4. CASE TakePending
    <2>. DEFINE head == Head(loop.pending)
    <2>1. /\ loop.pc = "recv" /\ inb.sys = <<>> /\ loop.stash = <<>> /\ loop.intr = NoFrame
          /\ loop.kept = <<>> /\ ~loop.stop /\ inb' = inb /\ loop.pending /= <<>>
      BY <1>0, <1>4 DEF TakePending, Locals
    <2>2. /\ loop'.pending = Tail(loop.pending) /\ loop'.kept = <<>> /\ loop'.stash = <<>>
          /\ loop'.intr = NoFrame /\ loop'.cut = loop.cut /\ loop'.stop = loop.stop
          /\ loop'.pc = "forward"
      BY <1>0, <1>4, <2>1, TakePendingEffect
    <2>3. SystemWaiting = {} /\ SystemWaiting' = {}
      BY <2>1, <2>2 DEF SystemWaiting
    <2>4. Backlog = DataWaiting
      BY <2>1, WaitingType DEF IInv, NoStaleBacklog, Handling, Backlog
    <2>5. /\ head \in Frames(loop.pending)
          /\ Frames(loop'.pending) = Frames(loop.pending) \ {head}
          /\ \A f \in Frames(loop.pending) : head.seq <= f.seq
      <3>1. \A f \in Frames(loop.pending) : f.seq \in Nat
        BY WaitingType DEF Backlog
      <3>. QED  BY <1>0, <2>1, <2>2, <3>1, HeadOfLane DEF InOrder
    <2>. HIDE DEF head
    <2>6. \A f \in Frames(inb.data) : head.seq < f.seq
      BY <1>0, <2>5 DEF InOrder, Precede
    <2>7. \A f \in Backlog : head.seq <= f.seq
      BY <2>1, <2>5, <2>6, WaitingType DEF Backlog
    <2>8. head \notin Frames(inb.data)
      BY <2>5, <2>6, WaitingType DEF Backlog
    <2>9. Backlog' = Backlog \ {head}
      BY <2>1, <2>2, <2>5, <2>8 DEF Backlog
    <2>10. DataWaiting' = DataWaiting \ {head}
      BY <2>2, <2>4, <2>9, WaitingType DEF DataWaiting, Backlog
    <2>. QED  BY <2>1, <2>2, <2>3, <2>4, <2>5, <2>7, <2>10, HandlesDataFrame DEF Backlog
  <1>5. CASE TakeData
    <2>. DEFINE head == Head(inb.data)
    <2>1. /\ loop.pc = "recv" /\ inb.sys = <<>> /\ loop.stash = <<>> /\ loop.intr = NoFrame
          /\ loop.kept = <<>> /\ ~loop.stop /\ loop.pending = <<>> /\ inb.data /= <<>>
      BY <1>0, <1>5 DEF TakeData, Locals
    <2>2. /\ loop'.pending = <<>> /\ loop'.kept = <<>> /\ loop'.stash = <<>>
          /\ loop'.intr = NoFrame /\ loop'.cut = loop.cut /\ loop'.stop = loop.stop
          /\ loop'.pc = "forward" /\ inb'.sys = <<>> /\ inb'.data = Tail(inb.data)
          /\ inb'.next = inb.next
      BY <1>0, <1>5, <2>1, TakeDataEffect
    <2>3. SystemWaiting = {} /\ SystemWaiting' = {}
      BY <2>1, <2>2 DEF SystemWaiting
    <2>4. Backlog = DataWaiting /\ Backlog = Frames(inb.data) /\ Backlog' = Frames(inb'.data)
      BY <2>1, <2>2, WaitingType DEF IInv, NoStaleBacklog, Handling, Backlog
    <2>5. /\ head \in Frames(inb.data)
          /\ Frames(inb'.data) = Frames(inb.data) \ {head}
          /\ \A f \in Frames(inb.data) : head.seq <= f.seq
      <3>1. \A f \in Frames(inb.data) : f.seq \in Nat
        BY WaitingType DEF Backlog
      <3>. QED  BY <1>0, <2>1, <2>2, <3>1, HeadOfLane DEF InOrder
    <2>. HIDE DEF head
    <2>6. DataWaiting' = DataWaiting \ {head}
      BY <2>2, <2>4, <2>5, WaitingType DEF DataWaiting, Backlog
    <2>. QED  BY <2>1, <2>2, <2>3, <2>4, <2>5, <2>6, HandlesDataFrame
  <1>6. CASE Finish \/ Break
    <2>1. Return /\ loop.kept = <<>> /\ loop.stash = <<>> /\ loop.intr = NoFrame
      BY <1>0, <1>6 DEF Finish, Break, Settled, Locals
    <2>2. /\ loop'.pc = "done" /\ loop'.pending = <<>> /\ loop'.kept = <<>>
          /\ loop'.stash = <<>> /\ loop'.intr = NoFrame /\ loop'.stop = loop.stop
          /\ inb'.sys = <<>> /\ inb'.data = <<>> /\ inb'.next = inb.next
      BY <1>0, <2>1, ReturnEffect
    <2>3. SystemWaiting' = {} /\ DataWaiting' = {}
      BY <2>2 DEF SystemWaiting, DataWaiting
    <2>4. loop.stop \/ (SystemWaiting = {} /\ DataWaiting = {})
      BY <1>6, <2>1 DEF Finish, Break, Drained, SystemWaiting, DataWaiting
    <2>. QED  BY <2>2, <2>3, <2>4, Closes
  <1>7. CASE Quiet
    <2>1. /\ inb' = inb /\ loop'.pending = loop.pending /\ loop'.kept = loop.kept
          /\ loop'.stash = loop.stash /\ loop'.intr = loop.intr /\ loop'.cut = loop.cut
          /\ loop.pc /= "done" /\ loop'.pc /= "done"
      BY <1>0, <1>7, QuietEffect
    <2>2. SystemWaiting' = SystemWaiting /\ DataWaiting' = DataWaiting
      BY <2>1 DEF SystemWaiting, DataWaiting
    <2>3. loop.stop => loop'.stop
      <3>1. CASE Forwarded \/ PerformDone \/ ErrorSent \/ SystemHandled \/ Continue
        BY <1>0, <3>1 DEF Forwarded, PerformDone, ErrorSent, SystemHandled, Continue,
                          TypeOK, LoopType
      <3>2. CASE Perform \/ SystemPerform
        BY <1>0, <3>2, PerformNextEffect DEF Perform, SystemPerform
      <3>3. CASE PerformFails
        BY <1>0, <3>3 DEF PerformFails, Locals
      <3>4. CASE SystemPerformFails
        BY <1>0, <3>4, SystemPerformFailsEffect
      <3>. QED  BY <1>7, <3>1, <3>2, <3>3, <3>4 DEF Quiet
    <2>4. loop'.stop = loop.stop \/ loop'.stop = TRUE
      BY <1>0, <2>3
    <2>. QED  BY <2>1, <2>2, <2>4, Stutters, Fails
  <1>8. CASE Preempt
    <2>. DEFINE head == Head(inb.sys)
    <2>1. /\ inb'.sys = Tail(inb.sys) /\ inb'.data = inb.data /\ inb'.next = inb.next
          /\ loop'.intr = head /\ loop'.stash = loop.stash /\ loop'.stop = loop.stop
          /\ loop'.pending = loop.pending /\ loop'.kept = loop.kept /\ loop'.cut = loop.cut
          /\ loop.pc = "perform" /\ loop'.pc = "settle" /\ inb.sys /= <<>>
          /\ head.kind = "interrupt"
      BY <1>0, <1>8, PreemptEffect
    <2>2. Frames(inb.sys) = {head} \cup Frames(Tail(inb.sys))
      BY <1>0, <2>1, FramesOfTail
    <2>3. loop.intr = NoFrame /\ head /= NoFrame
      BY <1>0, <2>1 DEF Locals, NoFrame
    <2>. HIDE DEF head
    <2>4. SystemWaiting' = SystemWaiting /\ DataWaiting' = DataWaiting
      BY <2>1, <2>2, <2>3 DEF SystemWaiting, DataWaiting
    <2>. QED  BY <2>1, <2>4, Stutters
  <1>9. CASE Stash
    <2>. DEFINE head == Head(inb.sys)
    <2>1. /\ inb'.sys = Tail(inb.sys) /\ inb'.data = inb.data /\ inb'.next = inb.next
          /\ loop'.intr = loop.intr /\ loop'.stash = Append(loop.stash, head)
          /\ loop'.stop = loop.stop
          /\ loop'.pending = loop.pending /\ loop'.kept = loop.kept /\ loop'.cut = loop.cut
          /\ loop'.pc = loop.pc /\ inb.sys /= <<>> /\ head \in SysFrame
      BY <1>0, <1>9, StashEffect
    <2>2. Frames(inb.sys) = {head} \cup Frames(Tail(inb.sys))
      BY <1>0, <2>1, FramesOfTail
    <2>3. Frames(loop'.stash) = Frames(loop.stash) \cup {head}
      BY <1>0, <2>1, FramesOfAppend
    <2>. HIDE DEF head
    <2>4. SystemWaiting' = SystemWaiting /\ DataWaiting' = DataWaiting
      BY <2>1, <2>2, <2>3 DEF SystemWaiting, DataWaiting
    <2>. QED  BY <2>1, <2>4, Stutters
  <1>10. CASE RetainPending
    <2>. DEFINE head == Head(loop.pending)
    <2>1. /\ inb' = inb /\ loop'.intr = loop.intr /\ loop'.stash = loop.stash
          /\ loop'.stop = loop.stop /\ loop'.cut = loop.cut /\ loop'.pc = loop.pc
          /\ loop'.pending = Tail(loop.pending) /\ loop.pending /= <<>> /\ head \in DataFrame
          /\ loop'.kept = IF Kept(head, loop.floor) THEN Append(loop.kept, head) ELSE loop.kept
          /\ loop.pc = "flush"
      BY <1>0, <1>10, RetainPendingEffect
    <2>2. Frames(loop.pending) = {head} \cup Frames(Tail(loop.pending))
      BY <1>0, <2>1, FramesOfTail
    <2>3. Frames(Append(loop.kept, head)) = Frames(loop.kept) \cup {head}
      BY <1>0, <2>1, FramesOfAppend
    <2>4. loop.floor = loop.cut
      BY <1>0, <2>1 DEF Locals
    <2>. HIDE DEF head
    <2>5. SystemWaiting' = SystemWaiting
      BY <2>1 DEF SystemWaiting
    <2>6. DataWaiting' = DataWaiting
      <3>1. CASE Kept(head, loop.cut)
        BY <2>1, <2>2, <2>3, <2>4, <3>1 DEF DataWaiting
      <3>2. CASE ~Kept(head, loop.cut)
        BY <2>1, <2>2, <2>4, <3>2 DEF DataWaiting
      <3>. QED  BY <3>1, <3>2
    <2>. QED  BY <2>1, <2>5, <2>6, Stutters
  <1>11. CASE FlushData
    <2>. DEFINE head == Head(inb.data)
    <2>1. /\ inb'.sys = inb.sys /\ inb'.next = inb.next /\ loop'.intr = loop.intr
          /\ loop'.stash = loop.stash /\ loop'.pending = loop.pending
          /\ loop'.stop = loop.stop /\ loop'.cut = loop.cut /\ loop'.pc = loop.pc
          /\ inb'.data = Tail(inb.data) /\ inb.data /= <<>> /\ head \in DataFrame
          /\ loop'.kept = IF Kept(head, loop.floor) THEN Append(loop.kept, head) ELSE loop.kept
          /\ loop.pc = "flush"
      BY <1>0, <1>11, FlushDataEffect
    <2>2. Frames(inb.data) = {head} \cup Frames(Tail(inb.data))
      BY <1>0, <2>1, FramesOfTail
    <2>3. Frames(Append(loop.kept, head)) = Frames(loop.kept) \cup {head}
      BY <1>0, <2>1, FramesOfAppend
    <2>4. loop.floor = loop.cut
      BY <1>0, <2>1 DEF Locals
    <2>. HIDE DEF head
    <2>5. SystemWaiting' = SystemWaiting
      BY <2>1 DEF SystemWaiting
    <2>6. DataWaiting' = DataWaiting
      <3>1. CASE Kept(head, loop.cut)
        BY <2>1, <2>2, <2>3, <2>4, <3>1 DEF DataWaiting
      <3>2. CASE ~Kept(head, loop.cut)
        BY <2>1, <2>2, <2>4, <3>2 DEF DataWaiting
      <3>. QED  BY <3>1, <3>2
    <2>. QED  BY <2>1, <2>5, <2>6, Stutters
  <1>12. CASE FlushEnds
    <2>1. /\ inb' = inb /\ inb.data = <<>> /\ loop.pending = <<>>
          /\ loop'.pending = loop.kept /\ loop'.kept = <<>> /\ loop'.stash = loop.stash
          /\ loop'.intr = loop.intr /\ loop'.stop = loop.stop /\ loop'.cut = loop.cut
          /\ loop.pc = "flush" /\ loop'.pc = "settle"
      BY <1>0, <1>12, FlushEndsEffect
    <2>2. SystemWaiting' = SystemWaiting /\ DataWaiting' = DataWaiting
      BY <2>1 DEF SystemWaiting, DataWaiting
    <2>. QED  BY <2>1, <2>2, Stutters
  <1>13. CASE UpstreamSendsData \/ UpstreamSendsSystem \/ UpstreamCloses
    <2>1. loop' = loop /\ (inb.rx <=> loop.pc /= "done")
      BY <1>0, <1>13, UpstreamEffect DEF Locals, Arrival, Sent
    <2>2. CASE inb'.next = inb.next /\ inb'.sys = inb.sys /\ inb'.data = inb.data
      <3>1. SystemWaiting' = SystemWaiting /\ DataWaiting' = DataWaiting
        BY <2>1, <2>2 DEF SystemWaiting, DataWaiting
      <3>. QED  BY <2>1, <2>2, <3>1, Stutters
    <2>3. CASE inb'.next = inb.next + 1 /\ ~inb.rx /\ inb'.sys = inb.sys /\ inb'.data = inb.data
      <3>1. SystemWaiting' = SystemWaiting /\ DataWaiting' = DataWaiting
        BY <2>1, <2>3 DEF SystemWaiting, DataWaiting
      <3>. QED  BY <2>1, <2>3, <3>1, ReceivesSystemFrame
    <2>4. CASE /\ inb'.next = inb.next + 1 /\ inb.rx /\ inb'.data = inb.data
               /\ \E frame \in SysFrame :
                    frame.seq = inb.next /\ inb'.sys = Append(inb.sys, frame)
      <3>1. PICK frame \in SysFrame :
              frame.seq = inb.next /\ inb'.sys = Append(inb.sys, frame)
        BY <2>4
      <3>2. Frames(inb'.sys) = Frames(inb.sys) \cup {frame}
        BY <1>0, <3>1, FramesOfAppend
      <3>3. SystemWaiting' = SystemWaiting \cup {frame} /\ DataWaiting' = DataWaiting
        BY <2>1, <2>4, <3>2 DEF SystemWaiting, DataWaiting
      <3>. QED  BY <2>1, <2>4, <3>1, <3>3, ReceivesSystemFrame
    <2>5. CASE /\ inb'.next = inb.next + 1 /\ inb.rx /\ inb'.sys = inb.sys
               /\ \E frame \in DataFrame :
                    frame.seq = inb.next /\ inb'.data = Append(inb.data, frame)
      <3>1. PICK frame \in DataFrame :
              frame.seq = inb.next /\ inb'.data = Append(inb.data, frame)
        BY <2>5
      <3>2. Frames(inb'.data) = Frames(inb.data) \cup {frame}
        BY <1>0, <3>1, FramesOfAppend
      <3>3. Kept(frame, loop.cut)
        BY <1>0, <3>1, WaitingType DEF InOrder, Kept, TypeOK, LinkType
      <3>4. SystemWaiting' = SystemWaiting /\ DataWaiting' = DataWaiting \cup {frame}
        BY <2>1, <2>5, <3>2, <3>3 DEF SystemWaiting, DataWaiting
      <3>. QED  BY <2>1, <2>5, <3>1, <3>4, ReceivesDataFrame
    <2>. QED  BY <1>0, <1>13, <2>2, <2>3, <2>4, <2>5, UpstreamEffect DEF Arrival, Sent
  <1>14. CASE Downstream
    <2>1. inb' = inb /\ loop' = loop
      BY <1>0, <1>14, DownstreamEffect DEF Departure
    <2>2. SystemWaiting' = SystemWaiting /\ DataWaiting' = DataWaiting
      BY <2>1 DEF SystemWaiting, DataWaiting
    <2>. QED  BY <2>1, <2>2, Stutters
  <1>15. CASE Ended \/ UNCHANGED vars
    <2>1. inb' = inb /\ loop' = loop
      BY <1>15 DEF Ended, vars
    <2>2. SystemWaiting' = SystemWaiting /\ DataWaiting' = DataWaiting
      BY <2>1 DEF SystemWaiting, DataWaiting
    <2>. QED  BY <2>1, <2>2, Stutters
  <1>. QED
    BY <1>1, <1>2, <1>3, <1>4, <1>5, <1>6, <1>7, <1>8, <1>9, <1>10, <1>11, <1>12, <1>13, <1>14,
       <1>15
    DEF Next, LoopNext, Looping, Performing, Neighbours, Downstream, Quiet

LEMMA MailboxInit == Init => Waiting!Init
  BY FramesOfEmpty DEF Init, NewLink, NewLoop, NoFrame, Waiting!Init, SystemWaiting, DataWaiting

\* Whatever the stage, the loop shows its processor the frames of its inbound link
\* as the Mailbox says: in order, system frames first, and of what was sent none but
\* the droppable frames an Interrupt came after lost.
THEOREM ImplementsMailbox == Spec => MailboxSpec
  <1>1. IInv /\ IInv' /\ [Next]_vars => [Waiting!Next]_(Waiting!vars)
    BY MailboxStep DEF AbstractStep
  <1>. QED  BY <1>1, MailboxInit, InvariantHolds, PTL DEF Spec, MailboxSpec, Waiting!Spec

-----------------------------------------------------------------------------
(***************************************************************************)
(* What leaves the queues of a loop, and what it raises its epoch to: the  *)
(* facts about one stage from which a pipeline shows that an utterance     *)
(* outlives the barge-in it causes.                                        *)
(***************************************************************************)
\* The Interrupts the loop has been sent and not handled.
Barging == {g \in Frames(inb.sys) \cup {loop.intr} : g.kind = "interrupt"}

LEMMA HandleSystemRaises ==
    ASSUME NEW frame \in SysFrame, NEW l \in LoopType, HandleSystem(frame, l)
    PROVE  /\ loop'.epoch >= l.epoch
           /\ frame.kind = "interrupt" => loop'.epoch > l.epoch /\ loop'.epoch >= frame.ep
           /\ \E d \in OnSystem[frame.kind] : loop'.effects = d.effects
  <1>1. PICK d \in OnSystem[frame.kind] : HandleSystem(frame, l)!(d)
    BY DEF HandleSystem
  <1>. DEFINE epoch == IF frame.kind = "interrupt" THEN Later(l.epoch + 1, frame.ep)
                       ELSE l.epoch
              cur == [frame EXCEPT !.ep = Later(frame.ep, epoch)]
              wait == IF d.forward THEN "sys" ELSE "none"
              stop == l.stop \/ frame.kind = "stop"
              cut == IF frame.kind = "interrupt" THEN frame.seq ELSE l.cut
  <1>2. loop' = [l EXCEPT !.pc = "system", !.cur = cur, !.effects = d.effects,
                          !.wait = wait, !.stop = stop, !.cut = cut, !.epoch = epoch]
    BY <1>1
  <1>3. frame.ep \in Nat /\ l.epoch \in Nat
    BY DEF SysFrame, LoopType
  <1>4. /\ epoch >= l.epoch
        /\ frame.kind = "interrupt" => epoch > l.epoch /\ epoch >= frame.ep
    BY <1>3 DEF Later
  <1>. HIDE DEF cur, epoch, wait, stop, cut
  <1>5. loop'.epoch = epoch /\ loop'.effects = d.effects
    BY <1>2 DEF LoopType
  <1>. QED  BY <1>4, <1>5

LEMMA HandleDataCause ==
    ASSUME NEW frame \in DataFrame, NEW l \in LoopType, HandleData(frame, l)
    PROVE  /\ loop'.cur.seq = frame.seq
           /\ frame.ep <= l.epoch => loop'.cur.ep = l.epoch
  <1>1. PICK d \in OnData[frame.kind] : HandleData(frame, l)!(d)
    BY DEF HandleData
  <1>. DEFINE cause == Later(frame.ep, l.epoch)
              cur == [frame EXCEPT !.ep = cause]
              wait == IF d.forward THEN "data" ELSE "none"
  <1>2. loop' = [l EXCEPT !.pc = "forward", !.cur = cur, !.effects = d.effects, !.wait = wait]
    BY <1>1
  <1>3. frame.ep \in Nat /\ l.epoch \in Nat
    BY DEF DataFrame, LoopType
  <1>4. frame.ep <= l.epoch => cause = l.epoch
    BY <1>3 DEF Later
  <1>5. cur.seq = frame.seq /\ cur.ep = cause
    BY DEF DataFrame
  <1>. HIDE DEF cause, cur, wait
  <1>6. loop'.cur = cur
    BY <1>2 DEF LoopType
  <1>. QED  BY <1>4, <1>5, <1>6

\* A data frame leaves the queues into the loop's hand, with the loop itself, or in a flush
\* whose Interrupt it precedes.
LEMMA BacklogStep ==
    ASSUME IInv, LoopNext
    PROVE  /\ Backlog' \subseteq Backlog
           /\ \A f \in Backlog :
                \/ f \in Backlog'
                \/ loop'.cur.seq = f.seq
                \/ loop'.pc = "done"
                \/ f.seq < loop.cut
  <1>0. /\ loop.kept \in Seq(DataFrame) /\ loop.pending \in Seq(DataFrame)
        /\ inb.data \in Seq(DataFrame) /\ TypeOK /\ Locals
        /\ loop.cut \in Nat /\ loop \in LoopType
    BY DEF IInv, TypeOK, LoopType, LinkType
  <1>1. CASE TakeSystem
    BY <1>0, <1>1, TakeSystemEffect DEF Backlog
  <1>2. CASE SettleStashed
    BY <1>0, <1>2, SettleStashedEffect DEF Backlog
  <1>3. CASE SettleInterrupt
    BY <1>0, <1>3, SettleInterruptEffect DEF Backlog
  <1>4. CASE TakePending
    <2>. DEFINE frame == Head(loop.pending)
                rest == Tail(loop.pending)
                l == [loop EXCEPT !.pending = rest]
    <2>1. /\ loop.pending /= <<>> /\ inb' = inb /\ loop'.pending = rest
          /\ loop'.kept = loop.kept
      BY <1>0, <1>4, TakePendingEffect
    <2>2. Frames(loop.pending) = {frame} \cup Frames(rest) /\ frame \in DataFrame
      BY <1>0, <2>1, FramesOfTail
    <2>3. rest \in Seq(DataFrame) /\ HandleData(frame, l)
      BY <1>0, <1>4, <2>1 DEF TakePending
    <2>. HIDE DEF frame, rest
    <2>4. l \in LoopType
      BY <1>0, <2>3 DEF LoopType
    <2>. HIDE DEF l
    <2>5. loop'.cur.seq = frame.seq
      BY <2>2, <2>3, <2>4, HandleDataCause
    <2>. QED  BY <2>1, <2>2, <2>5 DEF Backlog
  <1>5. CASE TakeData
    <2>. DEFINE frame == Head(inb.data)
    <2>1. /\ inb.data /= <<>> /\ inb'.data = Tail(inb.data) /\ loop'.pending = loop.pending
          /\ loop'.kept = loop.kept
      BY <1>0, <1>5, TakeDataEffect
    <2>2. Frames(inb.data) = {frame} \cup Frames(Tail(inb.data)) /\ frame \in DataFrame
      BY <1>0, <2>1, FramesOfTail
    <2>3. HandleData(frame, loop)
      BY <1>5 DEF TakeData
    <2>. HIDE DEF frame
    <2>4. loop'.cur.seq = frame.seq
      BY <1>0, <2>2, <2>3, HandleDataCause
    <2>. QED  BY <2>1, <2>2, <2>4 DEF Backlog
  <1>6. CASE Finish \/ Break
    <2>1. loop'.pc = "done" /\ loop'.pending = <<>> /\ inb'.data = <<>> /\ loop'.kept = loop.kept
      BY <1>0, <1>6, ReturnEffect DEF Finish, Break
    <2>2. loop.kept = <<>>
      BY <1>0, <1>6 DEF Finish, Break, Settled, Locals
    <2>. QED  BY <2>1, <2>2, FramesOfEmpty DEF Backlog
  <1>7. CASE Quiet
    BY <1>0, <1>7, QuietEffect DEF Backlog
  <1>8. CASE Preempt
    BY <1>0, <1>8, PreemptEffect DEF Backlog
  <1>9. CASE Stash
    BY <1>0, <1>9, StashEffect DEF Backlog
  <1>10. CASE RetainPending
    <2>. DEFINE frame == Head(loop.pending)
    <2>1. /\ loop.pending /= <<>> /\ inb' = inb /\ loop'.pending = Tail(loop.pending)
          /\ loop'.kept = IF Kept(frame, loop.floor) THEN Append(loop.kept, frame) ELSE loop.kept
          /\ loop.pc = "flush"
      BY <1>0, <1>10, RetainPendingEffect
    <2>2. Frames(loop.pending) = {frame} \cup Frames(Tail(loop.pending)) /\ frame \in DataFrame
      BY <1>0, <2>1, FramesOfTail
    <2>. HIDE DEF frame
    <2>3. Frames(Append(loop.kept, frame)) = Frames(loop.kept) \cup {frame}
      BY <1>0, <2>2, FramesOfAppend
    <2>4. Kept(frame, loop.floor) \/ frame.seq < loop.cut
      BY <1>0, <2>1, <2>2 DEF Kept, Locals, DataFrame
    <2>. QED  BY <2>1, <2>2, <2>3, <2>4 DEF Backlog
  <1>11. CASE FlushData
    <2>. DEFINE frame == Head(inb.data)
    <2>1. /\ inb.data /= <<>> /\ inb'.data = Tail(inb.data) /\ loop'.pending = loop.pending
          /\ loop'.kept = IF Kept(frame, loop.floor) THEN Append(loop.kept, frame) ELSE loop.kept
          /\ loop.pc = "flush"
      BY <1>0, <1>11, FlushDataEffect
    <2>2. Frames(inb.data) = {frame} \cup Frames(Tail(inb.data)) /\ frame \in DataFrame
      BY <1>0, <2>1, FramesOfTail
    <2>. HIDE DEF frame
    <2>3. Frames(Append(loop.kept, frame)) = Frames(loop.kept) \cup {frame}
      BY <1>0, <2>2, FramesOfAppend
    <2>4. Kept(frame, loop.floor) \/ frame.seq < loop.cut
      BY <1>0, <2>1, <2>2 DEF Kept, Locals, DataFrame
    <2>. QED  BY <2>1, <2>2, <2>3, <2>4 DEF Backlog
  <1>12. CASE FlushEnds
    BY <1>0, <1>12, FlushEndsEffect, FramesOfEmpty DEF Backlog
  <1>. QED
    BY <1>1, <1>2, <1>3, <1>4, <1>5, <1>6, <1>7, <1>8, <1>9, <1>10, <1>11, <1>12
       DEF LoopNext, Looping, Performing, Quiet

\* An Interrupt leaves the queue when it is handled, which cuts the backlog there and raises
\* the epoch to its own, or with the loop.
LEMMA BargingStep ==
    ASSUME IInv, LoopNext
    PROVE  /\ Barging' \subseteq Barging
           /\ loop'.cut = loop.cut \/ \E g \in Barging : loop'.cut = g.seq
           /\ \A g \in Barging :
                g \in Barging' \/ loop'.pc = "done" \/ loop'.epoch >= g.ep
           /\ loop'.pc = "system" /\ loop.pc /= "system" =>
                \E kind \in SysKinds : \E d \in OnSystem[kind] : loop'.effects = d.effects
           /\ loop'.cut /= loop.cut => loop'.epoch > loop.epoch
  <1>0. /\ inb.sys \in Seq(SysFrame) /\ loop.stash \in Seq(SysFrame)
        /\ TypeOK /\ Locals /\ loop \in LoopType /\ NoFrame.kind /= "interrupt"
    BY DEF IInv, TypeOK, LoopType, LinkType, NoFrame
  <1>1. CASE TakeSystem
    <2>. DEFINE frame == Head(inb.sys)
                l == [loop EXCEPT !.floor = frame.seq]
    <2>1. /\ inb.sys /= <<>> /\ inb'.sys = Tail(inb.sys) /\ loop'.intr = loop.intr
          /\ loop'.cut = IF frame.kind = "interrupt" THEN frame.seq ELSE loop.cut
          /\ loop'.pc = "system" /\ HandleSystem(frame, l)
      BY <1>0, <1>1, TakeSystemEffect DEF TakeSystem
    <2>2. Frames(inb.sys) = {frame} \cup Frames(Tail(inb.sys)) /\ frame \in SysFrame
      BY <1>0, <2>1, FramesOfTail
    <2>. HIDE DEF frame
    <2>3. l \in LoopType /\ l.epoch = loop.epoch
      BY <1>0, <2>2 DEF LoopType, SysFrame
    <2>. HIDE DEF l
    <2>4. /\ frame.kind = "interrupt" => loop'.epoch > loop.epoch /\ loop'.epoch >= frame.ep
          /\ \E d \in OnSystem[frame.kind] : loop'.effects = d.effects
      BY <2>1, <2>2, <2>3, HandleSystemRaises
    <2>5. frame.kind \in SysKinds
      BY <2>2 DEF SysFrame
    <2>. QED  BY <2>1, <2>2, <2>4, <2>5 DEF Barging
  <1>2. CASE SettleStashed
    <2>. DEFINE frame == Head(loop.stash)
                rest == Tail(loop.stash)
                l == [loop EXCEPT !.stash = rest]
    <2>1. /\ loop.stash /= <<>> /\ inb' = inb /\ loop'.intr = loop.intr
          /\ loop'.cut = IF frame.kind = "interrupt" THEN frame.seq ELSE loop.cut
          /\ HandleSystem(frame, l)
      BY <1>0, <1>2, SettleStashedEffect DEF SettleStashed
    <2>2. Frames(loop.stash) = {frame} \cup Frames(rest) /\ frame \in SysFrame
      BY <1>0, <2>1, FramesOfTail
    <2>3. rest \in Seq(SysFrame)
      BY <1>0, <2>1
    <2>. HIDE DEF frame, rest
    <2>4. l \in LoopType
      BY <1>0, <2>3 DEF LoopType
    <2>. HIDE DEF l
    <2>5. frame.kind /= "interrupt" /\ frame.kind \in SysKinds
      BY <1>0, <2>2 DEF Locals, SysFrame
    <2>6. \E d \in OnSystem[frame.kind] : loop'.effects = d.effects
      BY <2>1, <2>2, <2>4, HandleSystemRaises
    <2>. QED  BY <2>1, <2>5, <2>6 DEF Barging
  <1>3. CASE SettleInterrupt
    <2>. DEFINE frame == loop.intr
                l == [loop EXCEPT !.intr = NoFrame, !.floor = frame.seq]
    <2>1. /\ frame \in SysFrame /\ frame.kind = "interrupt" /\ inb' = inb
          /\ loop'.intr = NoFrame /\ loop'.cut = frame.seq
      BY <1>0, <1>3, SettleInterruptEffect
    <2>2. HandleSystem(frame, l)
      BY <1>3 DEF SettleInterrupt
    <2>3. l \in LoopType /\ l.epoch = loop.epoch
      BY <1>0, <2>1 DEF LoopType, SysFrame
    <2>. HIDE DEF l
    <2>4. /\ loop'.epoch > loop.epoch /\ loop'.epoch >= frame.ep
          /\ \E d \in OnSystem[frame.kind] : loop'.effects = d.effects
      BY <2>1, <2>2, <2>3, HandleSystemRaises
    <2>5. frame.kind \in SysKinds
      BY <2>1 DEF SysFrame
    <2>6. Barging' \subseteq Barging /\ \A g \in Barging : g \in Barging' \/ g = frame
      BY <1>0, <2>1 DEF Barging
    <2>7. frame \in Barging
      BY <2>1 DEF Barging
    <2>. HIDE DEF frame
    <2>. QED  BY <2>1, <2>4, <2>5, <2>6, <2>7
  <1>4. CASE TakePending
    BY <1>0, <1>4, TakePendingEffect DEF Barging
  <1>5. CASE TakeData
    BY <1>0, <1>5, TakeDataEffect DEF Barging
  <1>6. CASE Finish \/ Break
    <2>1. loop'.pc = "done" /\ loop'.intr = loop.intr /\ inb'.sys = <<>> /\ loop'.cut = loop.cut
      BY <1>0, <1>6, ReturnEffect DEF Finish, Break
    <2>. QED  BY <2>1, FramesOfEmpty DEF Barging
  <1>7. CASE Quiet
    <2>1. inb' = inb /\ loop'.intr = loop.intr /\ loop'.cut = loop.cut
      BY <1>0, <1>7, QuietEffect
    <2>2. loop'.pc = "system" => loop.pc = "system"
      <3>1. CASE Perform \/ SystemPerform
        BY <1>0, <3>1, PerformNextEffect DEF Perform, SystemPerform
      <3>2. CASE PerformFails \/ SystemPerformFails
        BY <1>0, <3>2, PerformFailsEffect DEF SystemPerformFails
      <3>3. CASE Forwarded \/ PerformDone \/ ErrorSent \/ SystemHandled \/ Continue
        BY <1>0, <3>3 DEF Forwarded, PerformDone, ErrorSent, SystemHandled, Continue, LoopType
      <3>. QED  BY <1>7, <3>1, <3>2, <3>3 DEF Quiet
    <2>. QED  BY <2>1, <2>2 DEF Barging
  <1>8. CASE Preempt
    <2>. DEFINE frame == Head(inb.sys)
    <2>1. /\ inb.sys /= <<>> /\ inb'.sys = Tail(inb.sys) /\ loop'.intr = frame
          /\ frame.kind = "interrupt" /\ loop'.cut = loop.cut /\ loop'.pc = "settle"
          /\ loop.pc = "perform"
      BY <1>0, <1>8, PreemptEffect
    <2>2. Frames(inb.sys) = {frame} \cup Frames(Tail(inb.sys))
      BY <1>0, <2>1, FramesOfTail
    <2>3. loop.intr = NoFrame
      BY <1>0, <2>1 DEF Locals
    <2>. HIDE DEF frame
    <2>. QED  BY <1>0, <2>1, <2>2, <2>3 DEF Barging
  <1>9. CASE Stash
    <2>. DEFINE frame == Head(inb.sys)
    <2>1. /\ inb.sys /= <<>> /\ inb'.sys = Tail(inb.sys) /\ loop'.intr = loop.intr
          /\ frame.kind /= "interrupt" /\ loop'.cut = loop.cut /\ loop'.pc = "perform"
      BY <1>0, <1>9, StashEffect
    <2>2. Frames(inb.sys) = {frame} \cup Frames(Tail(inb.sys))
      BY <1>0, <2>1, FramesOfTail
    <2>. HIDE DEF frame
    <2>. QED  BY <2>1, <2>2 DEF Barging
  <1>10. CASE RetainPending
    BY <1>0, <1>10, RetainPendingEffect DEF Barging
  <1>11. CASE FlushData
    BY <1>0, <1>11, FlushDataEffect DEF Barging
  <1>12. CASE FlushEnds
    BY <1>0, <1>12, FlushEndsEffect DEF Barging
  <1>. QED
    BY <1>1, <1>2, <1>3, <1>4, <1>5, <1>6, <1>7, <1>8, <1>9, <1>10, <1>11, <1>12
       DEF LoopNext, Looping, Performing, Quiet

\* A stage that sends nothing of its own when it handles system frames keeps abreast of the
\* link into it: what it has in hand or is yet to decide comes after no Interrupt but those
\* it has handled or is about to.
Abreast ==
    /\ loop.pc \in {"forward", "perform"} => loop.cur.ep = loop.epoch
    /\ loop.pc = "system" => loop.effects = <<>>
    /\ \A f \in Backlog : f.ep <= inb.ep
    /\ inb.ep <= loop.epoch \/ loop.pc = "done" \/ \E g \in Barging : g.ep >= inb.ep

\* What it sends: Interrupts beyond its epoch, and data within it.
SendsAbreast ==
    \/ SendsNothing
    \/ \E kind \in SysKinds, ep \in Nat :
         out' = SendSystem(out, kind, ep) /\ (kind = "interrupt" => ep > loop.epoch)
    \/ \E kind \in DataKinds, ep \in Nat :
         out' = SendData(out, kind, ep) /\ ep <= loop'.epoch

LEMMA BargingType ==
    ASSUME TypeOK
    PROVE  \A g \in Barging : g \in SysFrame /\ g.ep \in Nat /\ g.seq \in Nat
  <1>1. inb.sys \in Seq(SysFrame) /\ loop.intr \in SysFrame \cup {NoFrame}
    BY DEF TypeOK, LoopType, LinkType
  <1>2. Frames(inb.sys) \subseteq SysFrame
    BY <1>1, FramesType
  <1>. QED  BY <1>1, <1>2 DEF Barging, NoFrame, SysFrame

LEMMA AbreastSends ==
    ASSUME IInv, IInv', Abreast, LoopNext,
           \A kind \in SysKinds : \A d \in OnSystem[kind] : d.effects = <<>>
    PROVE  /\ SendsAbreast
           /\ loop'.pc \in {"forward", "perform"} => loop'.cur.ep = loop'.epoch
  <1>0. /\ loop.pending \in Seq(DataFrame) /\ inb.data \in Seq(DataFrame)
        /\ inb.sys \in Seq(SysFrame) /\ inb.ep \in Nat
        /\ TypeOK /\ Locals /\ loop \in LoopType /\ NoFrame.kind /= "interrupt"
        /\ loop.epoch \in Nat /\ loop'.epoch \in Nat /\ loop'.cur.ep \in Nat
        /\ loop.cur.ep \in Nat /\ "other" \in SysKinds /\ "interrupt" \in SysKinds
    BY DEF IInv, TypeOK, LoopType, LinkType, NoFrame, InHand, SysKinds
  <1>1. CASE TakeSystem
    <2>. DEFINE frame == Head(inb.sys)
                l == [loop EXCEPT !.floor = frame.seq]
    <2>1. /\ frame \in SysFrame /\ loop'.pc = "system" /\ HandleSystem(frame, l)
          /\ out' = out \/ out' = SendSystem(out, frame.kind, loop'.cur.ep)
          /\ frame.kind = "interrupt" => loop'.cur.ep = loop'.epoch
      BY <1>0, <1>1, TakeSystemEffect DEF TakeSystem
    <2>. HIDE DEF frame
    <2>2. l \in LoopType /\ l.epoch = loop.epoch /\ frame.kind \in SysKinds
      BY <1>0, <2>1 DEF LoopType, SysFrame
    <2>. HIDE DEF l
    <2>3. frame.kind = "interrupt" => loop'.epoch > loop.epoch
      BY <2>1, <2>2, HandleSystemRaises
    <2>. QED  BY <1>0, <2>1, <2>2, <2>3 DEF SendsAbreast, SendsNothing
  <1>2. CASE SettleStashed
    <2>. DEFINE frame == Head(loop.stash)
    <2>1. /\ frame \in SysFrame /\ loop'.pc = "system" /\ loop.stash /= <<>>
          /\ out' = out \/ out' = SendSystem(out, frame.kind, loop'.cur.ep)
      BY <1>0, <1>2, SettleStashedEffect
    <2>2. frame \in Frames(loop.stash)
      BY <1>0, <2>1, FramesOfTail DEF LoopType
    <2>. HIDE DEF frame
    <2>3. frame.kind /= "interrupt" /\ frame.kind \in SysKinds
      BY <1>0, <2>1, <2>2 DEF Locals, SysFrame
    <2>. QED  BY <1>0, <2>1, <2>3 DEF SendsAbreast, SendsNothing
  <1>3. CASE SettleInterrupt
    <2>. DEFINE frame == loop.intr
                l == [loop EXCEPT !.intr = NoFrame, !.floor = frame.seq]
    <2>1. /\ frame \in SysFrame /\ frame.kind = "interrupt" /\ loop'.pc = "system"
          /\ out' = out \/ out' = SendSystem(out, "interrupt", loop'.cur.ep)
          /\ loop'.cur.ep = loop'.epoch
      BY <1>0, <1>3, SettleInterruptEffect
    <2>2. HandleSystem(frame, l)
      BY <1>3 DEF SettleInterrupt
    <2>. HIDE DEF frame
    <2>3. l \in LoopType /\ l.epoch = loop.epoch
      BY <1>0, <2>1 DEF LoopType, SysFrame
    <2>. HIDE DEF l
    <2>4. loop'.epoch > loop.epoch
      BY <2>1, <2>2, <2>3, HandleSystemRaises
    <2>. QED  BY <1>0, <2>1, <2>4 DEF SendsAbreast, SendsNothing
  <1>4. CASE TakePending \/ TakeData
    <2>1. Barging = {}
      BY <1>0, <1>4, FramesOfEmpty DEF TakePending, TakeData, Barging, Locals
    <2>2. inb.ep <= loop.epoch
      BY <1>4, <2>1 DEF Abreast, TakePending, TakeData
    <2>3. \A f \in Backlog : f \in DataFrame /\ f.ep <= inb.ep
      BY WaitingType DEF Abreast
    <2>4. \A f \in Backlog : f.ep \in Nat /\ f.ep <= loop.epoch /\ f.kind \in DataKinds
      BY <1>0, <2>2, <2>3 DEF DataFrame
    <2>5. \E f \in Backlog, l \in LoopType :
             /\ HandleData(f, l) /\ l.epoch = loop.epoch
             /\ out' = out \/ out' = SendData(out, f.kind, loop'.cur.ep)
             /\ loop'.epoch = loop.epoch
      <3>1. CASE TakePending
        <4>. DEFINE frame == Head(loop.pending)
                    rest == Tail(loop.pending)
                    l == [loop EXCEPT !.pending = rest]
        <4>1. /\ loop.pending /= <<>> /\ loop'.epoch = loop.epoch
              /\ out' = out \/ out' = SendData(out, frame.kind, loop'.cur.ep)
          BY <1>0, <3>1, TakePendingEffect
        <4>2. frame \in Frames(loop.pending) /\ rest \in Seq(DataFrame) /\ HandleData(frame, l)
          BY <1>0, <3>1, <4>1, FramesOfTail DEF TakePending
        <4>. HIDE DEF frame, rest
        <4>3. l \in LoopType /\ l.epoch = loop.epoch
          BY <1>0, <4>2 DEF LoopType
        <4>. HIDE DEF l
        <4>. QED  BY <4>1, <4>2, <4>3 DEF Backlog
      <3>2. CASE TakeData
        <4>. DEFINE frame == Head(inb.data)
        <4>1. /\ inb.data /= <<>> /\ loop'.epoch = loop.epoch
              /\ out' = out \/ out' = SendData(out, frame.kind, loop'.cur.ep)
          BY <1>0, <3>2, TakeDataEffect
        <4>2. frame \in Frames(inb.data) /\ HandleData(frame, loop)
          BY <1>0, <3>2, <4>1, FramesOfTail DEF TakeData
        <4>. HIDE DEF frame
        <4>. QED  BY <1>0, <4>1, <4>2 DEF Backlog
      <3>. QED  BY <1>4, <3>1, <3>2
    <2>6. PICK f \in Backlog, l \in LoopType :
             /\ HandleData(f, l) /\ l.epoch = loop.epoch
             /\ out' = out \/ out' = SendData(out, f.kind, loop'.cur.ep)
             /\ loop'.epoch = loop.epoch
      BY <2>5
    <2>7. loop'.cur.ep = loop'.epoch
      BY <2>3, <2>4, <2>6, HandleDataCause
    <2>. QED  BY <1>0, <2>4, <2>6, <2>7 DEF SendsAbreast, SendsNothing
  <1>5. CASE Finish \/ Break
    <2>1. loop'.pc = "done" /\ SendsNothing
      BY <1>0, <1>5, ReturnEffect DEF Finish, Break, SendsNothing
    <2>. QED  BY <2>1 DEF SendsAbreast
  <1>6. CASE Forwarded \/ PerformDone \/ ErrorSent \/ SystemHandled \/ Continue
    <2>1. /\ out' = out /\ loop'.cur = loop.cur /\ loop'.epoch = loop.epoch
          /\ loop'.pc \in {"forward", "perform"} => loop.pc = "forward"
      BY <1>0, <1>6 DEF Forwarded, PerformDone, ErrorSent, SystemHandled, Continue, LoopType
    <2>. QED  BY <2>1 DEF Abreast, SendsAbreast, SendsNothing
  <1>7. CASE Perform
    <2>1. loop.cur.ep = loop.epoch /\ loop.effects /= <<>> /\ PerformNext
      BY <1>7 DEF Abreast, Perform
    <2>. QED  BY <1>0, <2>1, PerformNextEffect DEF SendsAbreast, SendsNothing
  <1>8. CASE SystemPerform \/ SystemPerformFails
    BY <1>8 DEF Abreast, SystemPerform, SystemPerformFails
  <1>9. CASE PerformFails
    BY <1>0, <1>9, PerformFailsEffect DEF SendsAbreast
  <1>10. CASE Preempt
    BY <1>0, <1>10, PreemptEffect DEF SendsAbreast, SendsNothing
  <1>11. CASE Stash
    BY <1>0, <1>11, StashEffect DEF SendsAbreast, SendsNothing, Abreast
  <1>12. CASE RetainPending
    BY <1>0, <1>12, RetainPendingEffect DEF SendsAbreast, SendsNothing
  <1>13. CASE FlushData
    BY <1>0, <1>13, FlushDataEffect DEF SendsAbreast, SendsNothing
  <1>14. CASE FlushEnds
    BY <1>0, <1>14, FlushEndsEffect DEF SendsAbreast, SendsNothing
  <1>. QED
    BY <1>1, <1>2, <1>3, <1>4, <1>5, <1>6, <1>7, <1>8, <1>9, <1>10, <1>11, <1>12, <1>13, <1>14
       DEF LoopNext, Looping, Performing

LEMMA AbreastLoop ==
    ASSUME IInv, IInv', Abreast, LoopNext,
           \A kind \in SysKinds : \A d \in OnSystem[kind] : d.effects = <<>>
    PROVE  Abreast' /\ SendsAbreast /\ loop'.epoch >= loop.epoch
  <1>0. /\ TypeOK /\ TypeOK' /\ loop.epoch \in Nat /\ loop'.epoch \in Nat /\ inb.ep \in Nat
    BY DEF IInv, TypeOK, LoopType, LinkType
  <1>1. inb'.ep = inb.ep
    BY <1>0, LoopDraws DEF Drawn
  <1>2. loop'.epoch >= loop.epoch
    BY LoopSends DEF IInv
  <1>3. loop.pc /= "done"
    BY DEF LoopNext, Looping, Performing, TakeSystem, TakePending, TakeData, Finish,
       Forwarded, Perform, PerformDone, PerformFails, ErrorSent, Preempt, Stash,
       SystemPerform, SystemPerformFails, SystemHandled, RetainPending, FlushData,
       FlushEnds, SettleStashed, SettleInterrupt, Settled, Continue, Break
  <1>4. \A f \in Backlog' : f.ep <= inb'.ep
    BY <1>1, BacklogStep DEF Abreast
  <1>5. inb'.ep <= loop'.epoch \/ loop'.pc = "done" \/ \E g \in Barging' : g.ep >= inb'.ep
    <2>1. CASE inb.ep <= loop.epoch
      BY <1>0, <1>1, <1>2, <2>1
    <2>2. ASSUME NEW g \in Barging, g.ep >= inb.ep
          PROVE  inb'.ep <= loop'.epoch \/ loop'.pc = "done" \/ \E h \in Barging' : h.ep >= inb'.ep
      <3>1. g \in Barging' \/ loop'.pc = "done" \/ loop'.epoch >= g.ep
        BY BargingStep
      <3>2. g.ep \in Nat
        BY <1>0, BargingType
      <3>. QED  BY <1>0, <1>1, <2>2, <3>1, <3>2
    <2>. QED  BY <1>3, <2>1, <2>2 DEF Abreast
  <1>6. loop'.pc = "system" => loop'.effects = <<>>
    <2>1. CASE loop.pc = "system"
      <3>1. SystemHandled
        BY <2>1 DEF Abreast, LoopNext, Looping, Performing, TakeSystem, TakePending, TakeData,
           Finish, Forwarded, Perform, PerformDone, PerformFails, ErrorSent, Preempt, Stash,
           SystemPerform, SystemPerformFails, RetainPending, FlushData,
           FlushEnds, SettleStashed, SettleInterrupt, Settled, Continue, Break
      <3>. QED  BY <1>0, <3>1 DEF SystemHandled, TypeOK, LoopType
    <2>2. CASE loop.pc /= "system"
      BY <2>2, BargingStep
    <2>. QED  BY <2>1, <2>2
  <1>7. SendsAbreast /\ (loop'.pc \in {"forward", "perform"} => loop'.cur.ep = loop'.epoch)
    BY AbreastSends
  <1>. QED  BY <1>2, <1>4, <1>5, <1>6, <1>7 DEF Abreast

LEMMA AbreastArrival ==
    ASSUME IInv, Abreast, UpstreamSendsData \/ UpstreamSendsSystem \/ UpstreamCloses
    PROVE  Abreast'
  <1>0. /\ inb \in LinkType /\ inb.ep \in Nat /\ loop' = loop /\ loop.epoch \in Nat
        /\ inb.sys \in Seq(SysFrame) /\ inb.data \in Seq(DataFrame) /\ inb.rx \in BOOLEAN
    BY DEF IInv, TypeOK, LinkType, LoopType, UpstreamSendsData, UpstreamSendsSystem, UpstreamCloses
  <1>1. CASE UpstreamSendsData
    <2>1. PICK kind \in UpData : inb' = SendData(inb, kind, inb.ep)
      BY <1>1 DEF UpstreamSendsData
    <2>. DEFINE frame == [seq |-> inb.next, kind |-> kind, ep |-> inb.ep]
    <2>2. /\ inb'.sys = inb.sys /\ inb'.ep = inb.ep /\ frame \in DataFrame /\ frame.ep = inb.ep
          /\ inb'.data = IF inb.rx THEN Append(inb.data, frame) ELSE inb.data
      BY <1>0, <2>1, SendDataEffect, EnvironmentAssumption
    <2>. HIDE DEF frame
    <2>3. Frames(Append(inb.data, frame)) = Frames(inb.data) \cup {frame}
      BY <1>0, <2>2, FramesOfAppend
    <2>4. \A f \in Backlog' : f \in Backlog \/ f = frame
      BY <1>0, <2>2, <2>3 DEF Backlog
    <2>5. Barging' = Barging
      BY <1>0, <2>2 DEF Barging
    <2>. QED  BY <1>0, <2>2, <2>4, <2>5 DEF Abreast
  <1>2. CASE UpstreamSendsSystem
    <2>1. PICK kind \in UpSystem :
            inb' = SendSystem(inb, kind, IF kind = "interrupt" THEN inb.ep + 1 ELSE inb.ep)
      BY <1>2 DEF UpstreamSendsSystem
    <2>. DEFINE ep == IF kind = "interrupt" THEN inb.ep + 1 ELSE inb.ep
                frame == [seq |-> inb.next, kind |-> kind, ep |-> ep]
    <2>2. ep \in Nat /\ ep >= inb.ep
      BY <1>0
    <2>3. /\ inb'.data = inb.data /\ frame \in SysFrame /\ frame.ep = ep /\ frame.kind = kind
          /\ inb'.ep = IF kind = "interrupt" THEN ep ELSE inb.ep
          /\ inb'.sys = IF inb.rx THEN Append(inb.sys, frame) ELSE inb.sys
      BY <1>0, <2>1, <2>2, SendSystemEffect, EnvironmentAssumption
    <2>. HIDE DEF frame
    <2>4. inb'.ep = ep
      BY <2>3
    <2>. HIDE DEF ep
    <2>5. Frames(Append(inb.sys, frame)) = Frames(inb.sys) \cup {frame}
      BY <1>0, <2>3, FramesOfAppend
    <2>6. Barging \subseteq Barging' /\ (inb.rx /\ kind = "interrupt" => frame \in Barging')
      BY <1>0, <2>3, <2>5 DEF Barging
    <2>7. loop.pc /= "done" => inb.rx
      BY DEF IInv, Locals
    <2>8. Backlog' = Backlog /\ \A f \in Backlog : f.ep \in Nat
      BY <1>0, <2>3, WaitingType DEF Backlog, DataFrame
    <2>9. \A f \in Backlog' : f.ep <= inb'.ep
      BY <1>0, <2>2, <2>4, <2>8 DEF Abreast
    <2>10. CASE kind = "interrupt"
      <3>1. loop'.pc = "done" \/ \E g \in Barging' : g.ep >= inb'.ep
        BY <1>0, <2>2, <2>3, <2>4, <2>6, <2>7, <2>10
      <3>. QED  BY <1>0, <2>9, <3>1 DEF Abreast
    <2>11. CASE kind /= "interrupt"
      <3>1. inb'.ep = inb.ep
        BY <2>3, <2>11
      <3>. QED  BY <1>0, <2>6, <2>9, <3>1 DEF Abreast
    <2>. QED  BY <2>10, <2>11
  <1>3. CASE UpstreamCloses
    <2>1. inb'.sys = inb.sys /\ inb'.data = inb.data /\ inb'.ep = inb.ep
      BY <1>0, <1>3 DEF UpstreamCloses, DropOutbound, LinkType
    <2>2. Barging' = Barging /\ Backlog' = Backlog
      BY <1>0, <2>1 DEF Barging, Backlog
    <2>. QED  BY <1>0, <2>1, <2>2 DEF Abreast
  <1>. QED  BY <1>1, <1>2, <1>3
=============================================================================
