------------------------------ MODULE IrqProofs ------------------------------
(***************************************************************************)
(* Proofs about hardware interrupts, for every set of lines and drivers.   *)
(***************************************************************************)
EXTENDS Irq, TLAPS

Calls == {"nothing", "mask", "unmask"}

TypeOK ==
    /\ irr \subseteq Lines /\ mask \subseteq Lines /\ quiet \subseteq Lines
    /\ isr \subseteq 0 .. 15
    /\ handlers \in [Lines -> Seq(Ids)]
    /\ cpu \in {InTask, 7, 15} \cup Lines
    /\ todo \in Calls \X Lines
    /\ took15 \in BOOLEAN

-----------------------------------------------------------------------------
(* The inductive invariants *)

\* Between the two halves of a call only its own line is out of step.
Masks ==
    /\ \A l \in Lines : (l \in mask <=> handlers[l] = <<>>) \/ (todo[1] # "nothing" /\ todo[2] = l)
    /\ todo[1] = "unmask" => handlers[todo[2]] # <<>>
    /\ todo[1] = "mask" => todo[2] \notin mask

\* A line without handlers that is not masked yet is silent.
Silent ==
    /\ quiet \cap irr = {}
    /\ \A l \in Lines : handlers[l] = <<>> => l \in mask \cup quiet

\* What the PICs hold in service. A slave line that was never ended blocks the cascade.
InService ==
    /\ 15 \in isr => Cascade \in isr
    /\ 7 \in isr => cpu = 7 /\ isr \cap Master = {7} /\ 15 \notin isr
    /\ cpu \notin {InTask, 7, 15} => cpu \in isr /\ handlers[cpu] # <<>>
    /\ cpu \notin {InTask, 7, 15} /\ 15 \in isr => cpu < Cascade

IInv == TypeOK /\ Masks /\ Silent /\ InService /\ ~panic

\* Only the line being handled, and the cascade for it, are in service, until vector 15
\* is taken. From then on the cascade is in service for ever, and only lines 0 and 1 come
\* before it.
OneInService ==
    IF took15
    THEN /\ Cascade \in isr
         /\ cpu \in {InTask, 0, 1, 7, 15}
         /\ isr \subseteq {cpu, Cascade, 15}
         /\ cpu \in {0, 1} => cpu \in isr
         /\ 7 \notin isr
    ELSE /\ cpu = InTask => isr = {}
         /\ cpu = 7 => isr \subseteq {7}
         /\ cpu # 15
         /\ cpu \notin {InTask, 7} => isr = {cpu, MasterLine(cpu)}

-----------------------------------------------------------------------------
(* The EOI *)

LEMMA EndHighestFacts ==
    ASSUME NEW s \in SUBSET (0 .. 15), NEW pic \in SUBSET (0 .. 15)
    PROVE  /\ EndHighest(s, pic) \subseteq s
           /\ \A m \in 0 .. 15 : s \cap pic = {m} => EndHighest(s, pic) = s \ {m}
           /\ \A a, b \in s \cap pic : a < b => b \in EndHighest(s, pic)
           /\ \A m \in 0 .. 15, k \in 0 .. 15 :
                 s \cap pic = {m, k} /\ m < k => EndHighest(s, pic) = s \ {m}
BY DEF EndHighest

LEMMA SendEoiType ==
    ASSUME NEW s \in SUBSET (0 .. 15), NEW l
    PROVE  pic_send_eoi(s, l) \subseteq s
<1>1. Master \in SUBSET (0 .. 15) /\ Slave \in SUBSET (0 .. 15)
  BY DEF Master, Slave
<1>2. EndHighest(s, Slave) \in SUBSET (0 .. 15) /\ EndHighest(s, Slave) \subseteq s
  BY <1>1, EndHighestFacts
<1> QED BY <1>1, <1>2, EndHighestFacts DEF pic_send_eoi

-----------------------------------------------------------------------------
(* Invariance *)

LEMMA InitInv == Init => IInv
<1> SUFFICES ASSUME Init PROVE IInv
  OBVIOUS
<1>1. TypeOK
  <2>1. handlers \in [Lines -> Seq(Ids)]
    BY DEF Init
  <2>2. todo \in Calls \X Lines
    BY LinesAssumption DEF Init, Calls
  <2>3. irr \subseteq Lines /\ mask \subseteq Lines /\ quiet \subseteq Lines /\ isr \subseteq 0 .. 15
    BY DEF Init
  <2> QED BY <2>1, <2>2, <2>3 DEF Init, TypeOK
<1>2. Masks /\ Silent
  BY DEF Init, Masks, Silent
<1>3. InService /\ ~panic
  BY DEF Init, InService
<1> QED BY <1>1, <1>2, <1>3 DEF IInv

LEMMA NextType ==
    ASSUME TypeOK, Next
    PROVE  TypeOK'
<1> USE LinesAssumption DEF TypeOK, Calls
<1>1. CASE isr_handler
  <2>1. isr' \subseteq isr
    <3>1. EndHighest(isr, Master) \subseteq isr
      <4>1. Master \in SUBSET (0 .. 15)
        BY DEF Master
      <4> QED BY <4>1, EndHighestFacts
    <3> QED BY <1>1, <3>1, SendEoiType DEF isr_handler, Spurious, Dispatch
  <2> QED BY <1>1, <2>1 DEF isr_handler
<1>2. CASE Finish
  BY <1>2 DEF Finish
<1>3. ASSUME NEW l \in Lines, Raise(l) PROVE TypeOK'
  BY <1>3 DEF Raise
<1>4. ASSUME NEW l \in Lines, Acknowledge(l) PROVE TypeOK'
  BY <1>4 DEF Acknowledge, MasterLine, Cascade
<1>5. ASSUME NEW l \in Lines, AcknowledgeDropped(l) PROVE TypeOK'
  <2>1. isr' \subseteq 0 .. 15
    BY <1>5 DEF AcknowledgeDropped, Cascade
  <2>2. cpu' \in {7, 15}
    BY <1>5 DEF AcknowledgeDropped
  <2> QED BY <1>5, <2>1, <2>2 DEF AcknowledgeDropped
<1>6. ASSUME NEW l \in Lines, Silence(l) PROVE TypeOK'
  BY <1>6 DEF Silence
<1>7. ASSUME NEW l \in Lines, NEW id \in Ids, request_isr(id, l) PROVE TypeOK'
  BY <1>7 DEF request_isr
<1>8. ASSUME NEW l \in Lines, NEW id \in Ids, release_isr(id, l) PROVE TypeOK'
  <2>1. PICK i \in DOMAIN handlers[l] : handlers' = [handlers EXCEPT ![l] = RemoveAt(handlers[l], i)]
    BY <1>8 DEF release_isr
  <2>2. RemoveAt(handlers[l], i) \in Seq(Ids)
    BY DEF RemoveAt
  <2> QED BY <1>8, <2>1, <2>2 DEF release_isr
<1> QED BY <1>1, <1>2, <1>3, <1>4, <1>5, <1>6, <1>7, <1>8 DEF Next

\* The steps of a task: what release_isr leaves.
LEMMA ReleaseLeaves ==
    ASSUME TypeOK, NEW l \in Lines, NEW id \in Ids, release_isr(id, l)
    PROVE  /\ \A k \in Lines \ {l} : handlers'[k] = handlers[k]
           /\ handlers[l] # <<>>
           /\ handlers'[l] = <<>> => Len(handlers[l]) = 1
<1>1. PICK i \in DOMAIN handlers[l] : handlers' = [handlers EXCEPT ![l] = RemoveAt(handlers[l], i)]
  BY DEF release_isr
<1>2. handlers[l] \in Seq(Ids)
  BY DEF TypeOK
<1>3. ASSUME NEW q \in Seq(Ids), NEW k \in DOMAIN q
      PROVE  q # <<>> /\ Len(RemoveAt(q, k)) = Len(q) - 1
  BY DEF RemoveAt
<1>4. handlers'[l] = RemoveAt(handlers[l], i)
  BY <1>1 DEF TypeOK
<1>5. \A q \in Seq(Ids) : Len(q) \in Nat
  OBVIOUS
<1>6. handlers'[l] = <<>> => Len(handlers[l]) = 1
  <2>1. Len(handlers'[l]) = Len(handlers[l]) - 1
    BY <1>2, <1>3, <1>4
  <2> QED BY <1>2, <1>5, <2>1
<1> QED BY <1>1, <1>2, <1>3, <1>6 DEF TypeOK

LEMMA NextMasks ==
    ASSUME TypeOK, Masks, Silent, Next
    PROVE  Masks' /\ Silent'
<1>0. ASSUME NEW q \in Seq(Ids), NEW id \in Ids PROVE Append(q, id) # <<>>
  <2>1. Len(q) \in Nat /\ Len(Append(q, id)) = Len(q) + 1
    OBVIOUS
  <2>2. Len(<<>>) = 0
    OBVIOUS
  <2> QED BY <2>1, <2>2
<1> USE LinesAssumption DEF TypeOK, Calls, Masks, Silent
<1>1. CASE isr_handler
  BY <1>1 DEF isr_handler
<1>2. CASE Finish
  BY <1>2 DEF Finish
<1>3. ASSUME NEW l \in Lines, Raise(l) PROVE Masks' /\ Silent'
  BY <1>3 DEF Raise
<1>4. ASSUME NEW l \in Lines, Acknowledge(l) PROVE Masks' /\ Silent'
  BY <1>4 DEF Acknowledge
<1>5. ASSUME NEW l \in Lines, AcknowledgeDropped(l) PROVE Masks' /\ Silent'
  BY <1>5 DEF AcknowledgeDropped
<1>6. ASSUME NEW l \in Lines, Silence(l) PROVE Masks' /\ Silent'
  BY <1>6 DEF Silence
<1>7. ASSUME NEW l \in Lines, NEW id \in Ids, request_isr(id, l) PROVE Masks' /\ Silent'
  <2>1. /\ handlers'[l] # <<>>
        /\ \A k \in Lines \ {l} : handlers'[k] = handlers[k]
    <3>1. Append(handlers[l], id) # <<>>
      BY <1>0
    <3> QED BY <1>7, <3>1 DEF request_isr
  <2>2. todo' = <<"unmask", l>> /\ todo[1] = "nothing" /\ UNCHANGED <<irr, mask>> /\ quiet' = quiet \ {l}
    BY <1>7 DEF request_isr
  <2> QED BY <2>1, <2>2
<1>8. ASSUME NEW l \in Lines, NEW id \in Ids, release_isr(id, l) PROVE Masks' /\ Silent'
  <2>1. /\ todo' = <<"mask", l>> /\ todo[1] = "nothing" /\ UNCHANGED <<irr, mask, quiet>>
        /\ Len(handlers[l]) = 1 => l \in quiet
    BY <1>8 DEF release_isr
  <2> QED BY <1>8, <2>1, ReleaseLeaves
<1> QED BY <1>1, <1>2, <1>3, <1>4, <1>5, <1>6, <1>7, <1>8 DEF Next

LEMMA NextService ==
    ASSUME TypeOK, Masks, Silent, InService, ~panic, Next
    PROVE  InService' /\ ~panic'
<1> USE LinesAssumption
<1>1. ASSUME isr_handler PROVE InService' /\ ~panic'
  <2>1. cpu # InTask /\ cpu' = InTask
    BY <1>1 DEF isr_handler
  <2>2. Master \in SUBSET (0 .. 15) /\ isr \in SUBSET (0 .. 15)
    BY DEF TypeOK, Master
  <2>3. CASE Spurious(cpu)
    <3>1. cpu \in {7, 15} /\ ~panic'
      BY <2>3 DEF Spurious, pic_is_spurious
    <3>2. CASE 7 \notin isr /\ UNCHANGED isr
      <4>1. isr' = isr
        BY <3>2
      <4> QED BY <2>1, <3>1, <3>2, <4>1, Zenon DEF InService
    <3>3. CASE 7 \in isr /\ isr' = EndHighest(isr, Master)
      <4>1. isr' = isr \ {7}
        <5>1. isr \cap Master = {7} /\ 7 \in 0 .. 15
          BY <3>3 DEF InService
        <5>2. \A m \in 0 .. 15 : isr \cap Master = {m} => EndHighest(isr, Master) = isr \ {m}
          BY <2>2, EndHighestFacts
        <5> QED BY <3>3, <5>1, <5>2
      <4> QED BY <2>1, <3>1, <3>3, <4>1 DEF InService, InTask
    <3> QED BY <2>3, <3>1, <3>2, <3>3 DEF Spurious
  <2>4. CASE Dispatch(cpu)
    <3>1. cpu \notin {7, 15} /\ 7 \notin isr /\ cpu \in isr
      BY <2>1, <2>4 DEF Dispatch, pic_is_spurious, InService
    <3>2. ~panic'
      BY <2>1, <2>4, <3>1 DEF Dispatch, Chain, InService, TypeOK
    <3>3. isr' = pic_send_eoi(isr, cpu) /\ isr' \subseteq isr
      BY <2>2, <2>4, SendEoiType DEF Dispatch
    <3>4. ASSUME 15 \in isr' PROVE Cascade \in isr'
      <4>1. 15 \in isr /\ Cascade \in isr /\ cpu < Cascade /\ cpu \in 0 .. 15
        BY <2>1, <2>2, <3>1, <3>3, <3>4 DEF InService
      <4>2. isr' = EndHighest(isr, Master) /\ cpu \in isr \cap Master /\ Cascade \in isr \cap Master
        BY <3>1, <3>3, <4>1 DEF pic_send_eoi, Slave, Master, Cascade
      <4> QED BY <2>2, <4>1, <4>2, EndHighestFacts
    <3> QED BY <2>1, <3>1, <3>2, <3>3, <3>4 DEF InService
  <2> QED BY <1>1, <2>3, <2>4 DEF isr_handler
<1>2. ASSUME NEW l \in Lines, Acknowledge(l) PROVE InService' /\ ~panic'
  <2>1. /\ cpu = InTask /\ cpu' = l /\ isr' = isr \cup {l, MasterLine(l)}
        /\ l \in irr \ mask /\ Free(l) /\ UNCHANGED <<handlers, panic>>
    BY <1>2 DEF Acknowledge, Highest, Deliverable
  <2>2. 7 \notin isr /\ handlers[l] # <<>> /\ l \in 0 .. 15 /\ l # 2
    <3>1. cpu # 7
      BY <2>1 DEF InTask
    <3>2. handlers[l] # <<>>
      BY <2>1 DEF Silent
    <3>3. l \in 0 .. 15 /\ l # 2
      BY <2>1 DEF Cascade
    <3> QED BY <3>1, <3>2, <3>3 DEF InService
  <2>3. MasterLine(l) = (IF l < 8 THEN l ELSE 2) /\ l # InTask
    BY <2>2 DEF MasterLine, Cascade, InTask
  <2>4. 15 \in isr' => Cascade \in isr'
    BY <2>1, <2>3 DEF InService, Cascade
  <2>5. ASSUME 7 \in isr' PROVE l = 7 /\ isr' \cap Master = {7} /\ 15 \notin isr'
    <3>1. l = 7 /\ isr' = isr \cup {7}
      BY <2>1, <2>2, <2>3, <2>5
    <3>2. isr \cap Master = {}
      BY <2>1, <2>3, <3>1 DEF Free, Master
    <3> QED BY <3>1, <3>2 DEF InService, Cascade, Master
  <2>6. ASSUME l \notin {7, 15}, 15 \in isr' PROVE l < Cascade
    <3>1. Cascade \in isr \cap Master
      BY <2>1, <2>2, <2>3, <2>6 DEF InService, Cascade, Master
    <3> QED BY <2>1, <2>2, <2>3, <3>1 DEF Free, Cascade
  <2> QED BY <2>1, <2>2, <2>4, <2>5, <2>6 DEF InService
<1>3. ASSUME NEW l \in Lines, AcknowledgeDropped(l) PROVE InService' /\ ~panic'
  <2>1. cpu = InTask /\ cpu' \in {7, 15} /\ isr' \in {isr, isr \cup {Cascade}} /\ UNCHANGED panic
    BY <1>3 DEF AcknowledgeDropped
  <2> QED BY <2>1 DEF InService, Cascade, InTask
<1>4. ASSUME UNCHANGED <<isr, cpu, panic>>, UNCHANGED handlers \/ cpu = InTask
      PROVE  InService' /\ ~panic'
  BY <1>4 DEF InService
<1>5. CASE Finish
  BY <1>4, <1>5 DEF Finish
<1>6. ASSUME NEW l \in Lines, Raise(l) \/ Silence(l) PROVE InService' /\ ~panic'
  BY <1>4, <1>6 DEF Raise, Silence
<1>7. ASSUME NEW l \in Lines, NEW id \in Ids, request_isr(id, l) \/ release_isr(id, l)
      PROVE  InService' /\ ~panic'
  BY <1>4, <1>7 DEF request_isr, release_isr, TaskRuns
<1> QED BY <1>1, <1>2, <1>3, <1>5, <1>6, <1>7 DEF Next

\* Whatever devices and drivers do, a line without a handler is masked and silent before its
\* handler table entry is used, so what isr_handler (isr.c:80-107) has taken has a handler.
THEOREM Invariance == Spec => []IInv
<1>1. ASSUME IInv, [Next]_vars PROVE IInv'
  <2>1. CASE Next
    BY <1>1, <2>1, NextType, NextMasks, NextService DEF IInv
  <2>2. CASE UNCHANGED vars
    BY <1>1, <2>2 DEF IInv, TypeOK, Masks, Silent, InService, vars
  <2> QED BY <1>1, <2>1, <2>2
<1> QED BY InitInv, <1>1, PTL DEF Spec

\* The kpanic of isr_handler for an interrupt without a handler (isr.c:103-107) is never
\* reached, whatever the lines, the order of request_irq and release_irq and the PICs' state.
THEOREM NeverUncaught == Spec => []NoUncaught
<1>1. IInv => NoUncaught
  BY DEF IInv, NoUncaught
<1> QED BY <1>1, Invariance, PTL

\* request_irq and release_irq leave a line masked exactly when it has no handler
\* (isr.c:145-150, 185-190), whatever arrives between their two halves.
THEOREM MasksFollow == Spec => []MaskFollowsHandlers
<1>1. IInv => MaskFollowsHandlers
  BY DEF IInv, Masks, MaskFollowsHandlers
<1> QED BY <1>1, Invariance, PTL

-----------------------------------------------------------------------------
(* Ending interrupts *)

\* isr_handler leaves in service what it found there, but for what it ends.
LEMMA HandlerEnds ==
    ASSUME TypeOK, OneInService, isr_handler
    PROVE  OneInService'
<1> USE LinesAssumption
<1>1. cpu # InTask /\ cpu' = InTask /\ took15' = took15
  BY DEF isr_handler
<1>2. /\ Master \in SUBSET (0 .. 15) /\ Slave \in SUBSET (0 .. 15) /\ isr \in SUBSET (0 .. 15)
      /\ Cascade = 2 /\ InTask = -1
  BY DEF Master, Slave, TypeOK, Cascade, InTask
<1>3. \A s, pic \in SUBSET (0 .. 15) : \A m \in 0 .. 15 :
        s \cap pic = {m} => EndHighest(s, pic) = s \ {m}
  BY EndHighestFacts
<1>4. CASE took15
  <2>0. /\ 2 \in isr /\ cpu \in {0, 1, 7, 15} /\ isr \subseteq {cpu, 2, 15}
        /\ (cpu \in {0, 1} => cpu \in isr) /\ 7 \notin isr
    BY <1>1, <1>2, <1>4 DEF OneInService
  <2>1. CASE cpu \in {7, 15}
    <3>1. Spurious(cpu)
      BY <2>0, <2>1 DEF isr_handler, Dispatch, pic_is_spurious
    <3>2. isr' = isr /\ isr \subseteq {2, 15}
      BY <2>0, <2>1, <3>1 DEF Spurious
    <3> QED BY <1>1, <1>2, <1>4, <2>0, <3>2 DEF OneInService
  <2>2. CASE cpu \in {0, 1}
    <3>1. isr' = pic_send_eoi(isr, cpu)
      BY <2>2 DEF isr_handler, Dispatch, Spurious, pic_is_spurious
    <3>2. isr' = EndHighest(isr, Master)
      BY <2>2, <3>1 DEF pic_send_eoi, Slave
    <3>3. isr \cap Master = {cpu, 2} /\ cpu < 2 /\ cpu \in 0 .. 15 /\ 2 \in 0 .. 15
      BY <2>0, <2>2 DEF Master
    <3>4. isr' = isr \ {cpu}
      <4>1. \A m \in 0 .. 15, k \in 0 .. 15 :
              isr \cap Master = {m, k} /\ m < k => EndHighest(isr, Master) = isr \ {m}
        BY <1>2, EndHighestFacts
      <4> QED BY <3>2, <3>3, <4>1
    <3> QED BY <1>1, <1>2, <1>4, <2>0, <2>2, <3>4 DEF OneInService
  <2> QED BY <2>0, <2>1, <2>2
<1>5. CASE ~took15
  <2>1. isr' = {}
    <3>1. CASE cpu = 7
      <4>1. isr \subseteq {7} /\ 15 \notin isr /\ 7 \in 0 .. 15
        BY <1>2, <1>5, <3>1 DEF OneInService
      <4>2. Spurious(cpu)
        BY <3>1, <4>1 DEF isr_handler, Dispatch, pic_is_spurious
      <4>3. CASE 7 \notin isr
        BY <4>1, <4>2, <4>3 DEF Spurious
      <4>4. CASE 7 \in isr
        <5>1. isr \cap Master = {7} /\ isr = {7}
          <6>1. isr = {7}
            BY <4>1, <4>4
          <6>2. {7} \cap Master = {7}
            BY DEF Master
          <6> QED BY <6>1, <6>2
        <5> QED BY <1>2, <1>3, <4>1, <4>2, <4>4, <5>1 DEF Spurious
      <4> QED BY <4>3, <4>4
    <3>2. CASE cpu # 7
      <4>1. isr = {cpu, MasterLine(cpu)} /\ cpu \in 0 .. 15 /\ cpu \notin {7, 15}
        BY <1>1, <1>2, <1>5, <3>2 DEF OneInService, TypeOK
      <4>2. isr' = pic_send_eoi(isr, cpu)
        BY <4>1 DEF isr_handler, Dispatch, Spurious, pic_is_spurious
      <4>4. CASE cpu \in Master
        <5>1. isr = {cpu} /\ isr \cap Master = {cpu} /\ cpu \notin Slave
          <6>1. MasterLine(cpu) = cpu /\ cpu \notin Slave
            BY <4>1, <4>4 DEF MasterLine, Master, Slave
          <6>2. isr = {cpu}
            BY <4>1, <6>1
          <6> QED BY <4>4, <6>1, <6>2
        <5>2. isr' = EndHighest(isr, Master)
          BY <4>2, <5>1 DEF pic_send_eoi
        <5>3. EndHighest(isr, Master) = isr \ {cpu}
          BY <1>2, <1>3, <4>1, <5>1
        <5> QED BY <5>1, <5>2, <5>3
      <4>5. CASE cpu \in Slave
        <5>1. isr = {cpu, 2} /\ isr \cap Slave = {cpu} /\ 2 \in 0 .. 15 /\ {2} \cap Master = {2}
          <6>1. MasterLine(cpu) = 2 /\ 2 \notin Slave /\ 2 \in Master /\ 2 \in 0 .. 15
            BY <4>1, <4>5 DEF MasterLine, Master, Slave, Cascade
          <6> QED BY <4>1, <4>5, <6>1
        <5>2. EndHighest(isr, Slave) = {2}
          <6>1. EndHighest(isr, Slave) = isr \ {cpu}
            BY <1>2, <1>3, <4>1, <5>1
          <6>2. cpu # 2
            BY <4>5 DEF Slave
          <6> QED BY <5>1, <6>1, <6>2
        <5>3. EndHighest({2}, Master) = {2} \ {2}
          <6>1. {2} \in SUBSET (0 .. 15) /\ 2 \in 0 .. 15
            OBVIOUS
          <6> QED BY <1>2, <1>3, <5>1, <6>1
        <5> QED BY <4>2, <4>5, <5>2, <5>3 DEF pic_send_eoi
      <4> QED BY <4>1, <4>4, <4>5 DEF Master, Slave
    <3> QED BY <3>1, <3>2
  <2> QED BY <1>1, <1>2, <1>5, <2>1 DEF OneInService
<1> QED BY <1>4, <1>5

LEMMA NextOneInService ==
    ASSUME TypeOK, OneInService, Next
    PROVE  OneInService'
<1> USE LinesAssumption
<1>0. Cascade = 2 /\ InTask = -1 /\ took15 \in BOOLEAN
  BY DEF Cascade, InTask, TypeOK
<1>1. CASE isr_handler
  BY <1>1, HandlerEnds
\* With the cascade in service only lines 0 and 1 are let through.
<1>8. ASSUME NEW l \in Lines, Highest(l), took15
      PROVE  l \in {0, 1}
  <2>1. 2 \in isr \cap Master /\ l \in 0 .. 15
    BY <1>0, <1>8 DEF OneInService, Master
  <2>2. MasterLine(l) < 2
    BY <1>8, <2>1 DEF Highest, Deliverable, Free
  <2> QED BY <1>0, <2>1, <2>2 DEF MasterLine
<1>2. ASSUME NEW l \in Lines, Acknowledge(l) PROVE OneInService'
  <2>1. /\ cpu = InTask /\ cpu' = l /\ isr' = isr \cup {l, MasterLine(l)} /\ Highest(l)
        /\ took15' = (took15 \/ l = 15) /\ l \in 0 .. 15
    BY <1>2 DEF Acknowledge
  <2>2. CASE took15
    <3>1. l \in {0, 1}
      BY <1>8, <2>1, <2>2
    <3>2. MasterLine(l) = l
      BY <3>1 DEF MasterLine
    <3>3. took15' /\ isr' = isr \cup {l} /\ cpu' = l
      BY <2>1, <2>2, <3>2
    <3>4. 2 \in isr /\ isr \subseteq {2, 15, InTask} /\ 7 \notin isr
      BY <1>0, <2>1, <2>2 DEF OneInService
    <3>5. InTask \notin isr
      BY <1>0 DEF TypeOK
    <3>6. isr' \subseteq {cpu', 2, 15} /\ 2 \in isr' /\ 7 \notin isr' /\ cpu' \in isr'
      BY <3>1, <3>3, <3>4, <3>5
    <3> QED BY <1>0, <3>1, <3>3, <3>6 DEF OneInService
  <2>3. CASE ~took15
    <3>1. isr' = {l, MasterLine(l)}
      BY <1>0, <2>1, <2>3 DEF OneInService
    <3>2. CASE l = 15
      <4>1. MasterLine(l) = 2
        BY <1>0, <3>2 DEF MasterLine
      <4>2. took15' /\ isr' = {15, 2} /\ cpu' = 15
        BY <2>1, <3>1, <3>2, <4>1
      <4> QED BY <1>0, <4>2 DEF OneInService
    <3>3. CASE l # 15
      <4>1. l = 7 => MasterLine(l) = 7
        BY DEF MasterLine
      <4> QED BY <1>0, <2>1, <2>3, <3>1, <3>3, <4>1 DEF OneInService, MasterLine
    <3> QED BY <3>2, <3>3
  <2> QED BY <2>2, <2>3
<1>3. ASSUME NEW l \in Lines, AcknowledgeDropped(l) PROVE OneInService'
  <2>1. /\ cpu = InTask /\ Highest(l) /\ l \in 0 .. 15
        /\ took15' = (took15 \/ l \in Slave)
        /\ isr' = IF l \in Slave THEN isr \cup {2} ELSE isr
        /\ cpu' = IF l \in Slave THEN 15 ELSE 7
    BY <1>0, <1>3 DEF AcknowledgeDropped
  <2>2. CASE took15
    <3>1. l \in {0, 1}
      BY <1>8, <2>1, <2>2
    <3>2. took15' /\ isr' = isr /\ cpu' = 7
      <4>1. l \notin Slave
        BY <3>1 DEF Slave
      <4> QED BY <2>1, <2>2, <4>1
    <3>3. 2 \in isr /\ isr \subseteq {2, 15, InTask} /\ 7 \notin isr
      BY <1>0, <2>1, <2>2 DEF OneInService
    <3>4. InTask \notin isr
      BY <1>0 DEF TypeOK
    <3> QED BY <1>0, <3>2, <3>3, <3>4 DEF OneInService
  <2>3. CASE ~took15
    <3>1. isr = {}
      BY <1>0, <2>1, <2>3 DEF OneInService
    <3>2. CASE l \in Slave
      <4>1. took15' /\ isr' = {2} /\ cpu' = 15
        BY <2>1, <3>1, <3>2
      <4> QED BY <1>0, <4>1 DEF OneInService
    <3>3. CASE l \notin Slave
      <4>1. ~took15' /\ isr' = {} /\ cpu' = 7
        BY <2>1, <2>3, <3>1, <3>3
      <4> QED BY <1>0, <4>1 DEF OneInService
    <3> QED BY <3>2, <3>3
  <2> QED BY <2>2, <2>3
<1>4. ASSUME UNCHANGED <<isr, cpu, took15>> PROVE OneInService'
  BY <1>4 DEF OneInService, MasterLine
<1>5. CASE Finish
  BY <1>4, <1>5 DEF Finish
<1>6. ASSUME NEW l \in Lines, Raise(l) \/ Silence(l) PROVE OneInService'
  BY <1>4, <1>6 DEF Raise, Silence
<1>7. ASSUME NEW l \in Lines, NEW id \in Ids, request_isr(id, l) \/ release_isr(id, l)
      PROVE  OneInService'
  BY <1>4, <1>7 DEF request_isr, release_isr
<1> QED BY <1>1, <1>2, <1>3, <1>5, <1>6, <1>7 DEF Next

\* isr_handler ends every interrupt at every PIC that holds it (isr.c:84-93) until vector 15
\* is taken, for a device on that line or for a slave line that drops; after that, nothing
\* but line 15 and the cascade is ever left in service (pic.c:115-126). So it is for any
\* lines, drivers and glitches.
THEOREM EndsEveryInterrupt == Spec => []StuckOnlyBy15
<1>1. Init => OneInService
  BY DEF Init, OneInService, InTask
<1>2. ASSUME IInv, OneInService, [Next]_vars PROVE OneInService'
  <2>1. CASE Next
    BY <1>2, <2>1, NextOneInService DEF IInv
  <2>2. CASE UNCHANGED vars
    BY <1>2, <2>2 DEF OneInService, MasterLine, vars
  <2> QED BY <1>2, <2>1, <2>2
<1>3. ASSUME TypeOK, OneInService PROVE StuckOnlyBy15
  <2>1. InTask = -1 /\ -1 \notin isr
    BY <1>3 DEF TypeOK, InTask
  <2> QED BY <1>3, <2>1 DEF OneInService, StuckOnlyBy15
<1>4. IInv => TypeOK
  BY DEF IInv
<1> QED BY <1>1, <1>2, <1>3, <1>4, Invariance, PTL DEF Spec

=============================================================================
