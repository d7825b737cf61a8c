------------------------- MODULE TripleBuffer_proofs -------------------------
(***************************************************************************)
(* Theorems about TripleBuffer, for every number of fields and revisions.  *)
(*                                                                         *)
(* The argument: the three indices stay a permutation of the three slots,  *)
(* so a write disturbs only the producer's slot.  The slot in shared_ is   *)
(* complete whenever the dirty bit is set and then holds the newest        *)
(* revision; when the bit is clear the consumer already has it.            *)
(***************************************************************************)
EXTENDS TripleBuffer, TLAPS

\* What the three slots hold between two steps of either thread.
Contents ==
  /\ \A f \in 1..written : slots[producer][f] = revision + 1
  /\ written > 0 => revision < MaxRevision
  /\ slots[consumer] = Frame(slots[consumer][FieldCount])
  /\ shared.dirty => /\ slots[shared.index] = Frame(revision)
                     /\ slots[consumer][FieldCount] < revision
  /\ ~shared.dirty => slots[consumer] = Frame(revision)

\* What the render thread knows while it is inside acquire() or drawing.
Reader ==
  /\ looking = "exchange" => shared.dirty /\ view = <<>>
  /\ looking = "reading" => \A i \in DOMAIN view :
                               view[i] = slots[consumer][FieldCount]
  /\ NoTornFrame

IInv == TypeOK /\ SlotsDisjoint /\ Contents /\ Reader

\* Every variable keeps its type (all members of TripleBuffer).
LEMMA InitIInv == Init => IInv
  BY FieldAssumption, RevisionAssumption
  DEF Init, IInv, TypeOK, SlotsDisjoint, Contents, Reader, NoTornFrame,
      SlotIndex, Fields, Revisions, Frame, Looking

\* Every step keeps the types.
LEMMA NextTypeOK == IInv /\ [Next]_vars => TypeOK'
<1> SUFFICES ASSUME IInv, [Next]_vars PROVE TypeOK'
  OBVIOUS
<1> USE FieldAssumption, RevisionAssumption
    DEF IInv, TypeOK, SlotIndex, Revisions, Looking
<1>1. CASE WriteField
  <2>1. revision + 1 \in Revisions /\ written + 1 \in Fields
    BY <1>1 DEF WriteField, Fields
  <2>2. slots' \in [SlotIndex -> [Fields -> Revisions]]
    BY <1>1, <2>1 DEF WriteField
  <2> QED
    BY <1>1, <2>2 DEF WriteField, consumerVars
<1>2. CASE PublishSlot
  BY <1>2 DEF PublishSlot, consumerVars, Contents
<1>3. CASE HasUpdate
  BY <1>3 DEF HasUpdate, producerVars
<1>4. CASE TakeSlot
  BY <1>4 DEF TakeSlot, producerVars
<1>5. CASE ReadField
  <2>1. Len(view) + 1 \in Fields
    BY <1>5 DEF ReadField, Fields
  <2>2. slots[consumer][Len(view) + 1] \in Revisions
    BY <2>1
  <2>3. view' \in Seq(Revisions) /\ Len(view') = Len(view) + 1
    BY <1>5, <2>2 DEF ReadField
  <2>4. Len(view') \in 0..FieldCount
    BY <2>1, <2>3 DEF Fields
  <2> QED
    BY <1>5, <2>3, <2>4 DEF ReadField, producerVars
<1>6. CASE EndFrame
  BY <1>6 DEF EndFrame, producerVars
<1>7. CASE UNCHANGED vars
  BY <1>7 DEF vars
<1> QED
  BY <1>1, <1>2, <1>3, <1>4, <1>5, <1>6, <1>7 DEF Next, Producer, Consumer

\* A write stays in the producer's slot, so nobody else's slot changes.
LEMMA WriteIsPrivate ==
  ASSUME IInv, WriteField
  PROVE  /\ \A s \in SlotIndex \ {producer} : slots'[s] = slots[s]
         /\ \A f \in Fields : slots'[producer][f] =
                IF f = written + 1 THEN revision + 1 ELSE slots[producer][f]
  BY DEF IInv, TypeOK, WriteField

\* Every step keeps the contents of the slots in order.
LEMMA NextContents == IInv /\ [Next]_vars => SlotsDisjoint' /\ Contents'
<1> SUFFICES ASSUME IInv, [Next]_vars PROVE SlotsDisjoint' /\ Contents'
  OBVIOUS
<1> USE FieldAssumption, RevisionAssumption
<1>1. CASE WriteField
  <2>1. slots'[consumer] = slots[consumer] /\ slots'[shared.index] = slots[shared.index]
    BY <1>1, WriteIsPrivate DEF IInv, TypeOK, SlotsDisjoint
  <2>2. \A f \in 1..written' : slots'[producer][f] = revision + 1
    BY <1>1, WriteIsPrivate DEF IInv, TypeOK, WriteField, Contents, Fields
  <2> QED
    BY <1>1, <2>1, <2>2
    DEF WriteField, consumerVars, IInv, SlotsDisjoint, Contents
<1>2. CASE PublishSlot
  <2>1. slots[producer] = Frame(revision + 1)
    BY <1>2 DEF PublishSlot, IInv, TypeOK, Contents, Frame, Fields
  <2>2. SlotsDisjoint'
    BY <1>2 DEF PublishSlot, consumerVars, IInv, TypeOK, SlotsDisjoint
  <2>3. slots[consumer][FieldCount] \in Revisions /\ Frame(revision)[FieldCount] = revision
    BY DEF IInv, TypeOK, Frame, Fields
  <2>4. slots[consumer][FieldCount] < revision + 1
    BY <2>3 DEF IInv, TypeOK, Contents, Revisions
  <2> QED
    BY <1>2, <2>1, <2>2, <2>4
    DEF PublishSlot, consumerVars, IInv, Contents
<1>3. CASE HasUpdate
  BY <1>3 DEF HasUpdate, producerVars, IInv, SlotsDisjoint, Contents
<1>4. CASE TakeSlot
  <2>1. shared.dirty /\ slots[shared.index] = Frame(revision)
    BY <1>4 DEF TakeSlot, IInv, Contents, Reader
  <2>2. Frame(revision)[FieldCount] = revision
    BY DEF Frame, Fields
  <2>3. SlotsDisjoint'
    BY <1>4 DEF TakeSlot, producerVars, IInv, TypeOK, SlotsDisjoint
  <2> QED
    BY <1>4, <2>1, <2>2, <2>3 DEF TakeSlot, producerVars, IInv, Contents
<1>5. CASE ReadField
  BY <1>5 DEF ReadField, producerVars, IInv, SlotsDisjoint, Contents
<1>6. CASE EndFrame
  BY <1>6 DEF EndFrame, producerVars, IInv, SlotsDisjoint, Contents
<1>7. CASE UNCHANGED vars
  BY <1>7 DEF vars, IInv, SlotsDisjoint, Contents
<1> QED
  BY <1>1, <1>2, <1>3, <1>4, <1>5, <1>6, <1>7 DEF Next, Producer, Consumer

\* Every step keeps what the render thread has read of one frame.
LEMMA NextReader == IInv /\ [Next]_vars => Reader'
<1> SUFFICES ASSUME IInv, [Next]_vars PROVE Reader'
  OBVIOUS
<1> USE FieldAssumption, RevisionAssumption
<1>1. CASE WriteField
  <2>1. slots'[consumer] = slots[consumer]
    BY <1>1, WriteIsPrivate DEF IInv, TypeOK, SlotsDisjoint
  <2> QED
    BY <1>1, <2>1 DEF WriteField, consumerVars, IInv, Reader, NoTornFrame
<1>2. CASE PublishSlot
  BY <1>2 DEF PublishSlot, consumerVars, IInv, Reader, NoTornFrame
<1>3. CASE HasUpdate
  BY <1>3 DEF HasUpdate, IInv, Reader, NoTornFrame
<1>4. CASE TakeSlot
  BY <1>4 DEF TakeSlot, IInv, Reader, NoTornFrame
<1>5. CASE ReadField
  <2>1. slots[consumer][Len(view) + 1] = slots[consumer][FieldCount]
    <3>1. Len(view) + 1 \in Fields /\ FieldCount \in Fields
      BY <1>5 DEF ReadField, IInv, TypeOK, Fields
    <3>2. slots[consumer] = [f \in Fields |-> slots[consumer][FieldCount]]
      BY DEF IInv, Contents, Frame
    <3> QED
      BY <3>1, <3>2
  <2>2. \A i \in DOMAIN view' : view'[i] = slots[consumer][FieldCount]
    BY <1>5, <2>1 DEF ReadField, IInv, TypeOK, Reader
  <2> QED
    BY <1>5, <2>2 DEF ReadField, Reader, NoTornFrame
<1>6. CASE EndFrame
  BY <1>6 DEF EndFrame, IInv, Reader, NoTornFrame
<1>7. CASE UNCHANGED vars
  BY <1>7 DEF vars, IInv, Reader, NoTornFrame
<1> QED
  BY <1>1, <1>2, <1>3, <1>4, <1>5, <1>6, <1>7 DEF Next, Producer, Consumer

-----------------------------------------------------------------------------
\* The strengthened invariant holds throughout every run of the two threads.
THEOREM Invariance == Spec => []IInv
<1>1. IInv /\ [Next]_vars => IInv'
  BY NextTypeOK, NextContents, NextReader DEF IInv
<1> QED
  BY InitIInv, <1>1, PTL DEF Spec

\* Every variable of the hand-off keeps its type, and indices stay in range.
THEOREM TypeCorrect == Spec => []TypeOK
<1>1. IInv => TypeOK
  BY DEF IInv
<1> QED
  BY Invariance, <1>1, PTL

\* The IPC thread and the render thread are never in the same slot: slots_
\* needs no lock.
THEOREM Disjoint == Spec => []SlotsDisjoint
<1>1. IInv => SlotsDisjoint
  BY DEF IInv
<1> QED
  BY Invariance, <1>1, PTL

\* The frame the renderer draws is never mixed from two publish() calls.
THEOREM NoTearing == Spec => []NoTornFrame
<1>1. IInv => NoTornFrame
  BY DEF IInv, Reader
<1> QED
  BY Invariance, <1>1, PTL

-----------------------------------------------------------------------------
\* Between two looks the renderer's frame stays or is replaced by a later one.
THEOREM Monotone == Spec => NeverOlder
<1>1. IInv /\ [Next]_vars =>
        [slots'[consumer'][FieldCount] >= slots[consumer][FieldCount]]_vars
  <2> SUFFICES ASSUME IInv, Next
               PROVE  slots'[consumer'][FieldCount] >= slots[consumer][FieldCount]
    OBVIOUS
  <2> USE FieldAssumption, RevisionAssumption
  <2>1. slots[consumer][FieldCount] \in Nat
    BY DEF IInv, TypeOK, Fields, Revisions
  <2>2. CASE WriteField
    BY <2>1, <2>2, WriteIsPrivate
    DEF WriteField, consumerVars, IInv, TypeOK, SlotsDisjoint
  <2>3. CASE TakeSlot
    <3>1. slots'[consumer'] = Frame(revision) /\ slots[consumer][FieldCount] < revision
      BY <2>3 DEF TakeSlot, IInv, Reader, Contents
    <3>2. Frame(revision)[FieldCount] = revision
      BY DEF Frame, Fields
    <3> QED
      BY <2>1, <3>1, <3>2 DEF IInv, TypeOK, Revisions
  <2>4. CASE PublishSlot \/ HasUpdate \/ ReadField \/ EndFrame
    BY <2>1, <2>4 DEF PublishSlot, HasUpdate, ReadField, EndFrame, consumerVars
  <2> QED
    BY <2>2, <2>3, <2>4 DEF Next, Producer, Consumer
<1> QED
  BY Invariance, <1>1, PTL DEF Spec, NeverOlder

\* The lock-free hand-off implements a register of whole frames: publish()
\* replaces the register, an acquire() that takes a slot looks at it, and
\* every other step of either thread leaves it alone.
THEOREM Refinement == Spec => ImplementsLatestFrame
<1> USE FieldAssumption, RevisionAssumption
<1>1. Init => Latest!Init
  BY DEF Init, Latest!Init, SlotIndex
<1>2. IInv /\ [Next]_vars => [Latest!Next]_(Latest!frameVars)
  <2> SUFFICES ASSUME IInv, [Next]_vars
               PROVE  Latest!Next \/ UNCHANGED Latest!frameVars
    BY DEF Latest!frameVars
  <2>1. CASE WriteField
    <3>1. slots'[consumer] = slots[consumer] /\ slots'[shared.index] = slots[shared.index]
      BY <2>1, WriteIsPrivate DEF IInv, TypeOK, SlotsDisjoint
    <3> QED
      BY <2>1, <3>1 DEF WriteField, consumerVars, Latest!frameVars
  <2>2. CASE PublishSlot
    <3>1. slots[producer] = Frame(revision + 1)
      BY <2>2 DEF PublishSlot, IInv, TypeOK, Contents, Frame, Fields
    <3>2. slots'[shared'.index] = Frame(revision + 1) /\ shared'.dirty
      BY <2>2, <3>1 DEF PublishSlot
    <3>3. (IF shared.dirty THEN slots[shared.index] ELSE slots[consumer])
            = Frame(revision)
      BY DEF IInv, Contents
    <3>4. <<Frame(revision), Frame(revision + 1)>> \in
            {p \in WholeFrames \X WholeFrames : p[1][FieldCount] < p[2][FieldCount]}
      <4>1. revision \in Revisions /\ revision + 1 \in Revisions
        BY <2>2 DEF PublishSlot, IInv, TypeOK, Contents, Revisions
      <4>2. Frame(revision)[FieldCount] < Frame(revision + 1)[FieldCount]
        BY <4>1 DEF Frame, Fields, Revisions
      <4> QED
        BY <4>1, <4>2 DEF WholeFrames
    <3>5. Frame(revision + 1) \in WholeFrames
      BY <3>4
    <3> QED
      BY <2>2, <3>2, <3>3, <3>4, <3>5
      DEF PublishSlot, consumerVars, Latest!Next, Latest!Publish
  <2>3. CASE TakeSlot
    BY <2>3 DEF TakeSlot, IInv, Reader, Latest!Next, Latest!Acquire
  <2>4. CASE HasUpdate \/ ReadField \/ EndFrame
    BY <2>4 DEF HasUpdate, ReadField, EndFrame, Latest!frameVars
  <2>5. CASE UNCHANGED vars
    BY <2>5 DEF vars, Latest!frameVars
  <2> QED
    BY <2>1, <2>2, <2>3, <2>4, <2>5 DEF Next, Producer, Consumer
<1> QED
  BY Invariance, <1>1, <1>2, PTL DEF Spec, ImplementsLatestFrame, Latest!Spec
=============================================================================
