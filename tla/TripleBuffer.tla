---------------------------- MODULE TripleBuffer ----------------------------
(***************************************************************************)
(* The lock-free hand-off between the overlay's IPC thread and the render  *)
(* thread: TripleBuffer<OverlayFrame> (triple_buffer.hpp), filled by       *)
(* OverlayClient::publish and emptied by acquire once per rendered frame.  *)
(*                                                                         *)
(* The one shared word, shared_, is a slot index with a dirty bit; each    *)
(* load or exchange of it is one step here.  Slots are plain memory: they  *)
(* are written and read one field at a time, so that two threads in the    *)
(* same slot would show as a frame mixed from two revisions.  The value of *)
(* a field is the revision of the publish() call that wrote it.            *)
(***************************************************************************)
EXTENDS Naturals, Sequences

CONSTANTS FieldCount,      \* fields of OverlayFrame, written in order
          MaxRevision      \* bound on revision_, a counter that only grows

ASSUME FieldAssumption    == FieldCount \in Nat \ {0}
ASSUME RevisionAssumption == MaxRevision \in Nat

VARIABLES slots,           \* slots_: the three frames
          producer,        \* producer_: the IPC thread's slot
          consumer,        \* consumer_: the render thread's slot
          shared,          \* shared_: [index, dirty]
          revision,        \* revision_: the last revision completed
          written,         \* fields of the current publish() written so far
          looking,         \* where the render thread is in acquire()
          view             \* the fields it has read of the acquired frame

vars == <<slots, producer, consumer, shared, revision, written, looking, view>>
producerVars == <<producer, revision, written>>
consumerVars == <<consumer, looking, view>>

SlotIndex == 0..2
Fields    == 1..FieldCount
Revisions == 0..MaxRevision
Frame(r)  == [f \in Fields |-> r]
Looking   == {"idle", "exchange", "reading"}

TypeOK ==
  /\ slots    \in [SlotIndex -> [Fields -> Revisions]]
  /\ producer \in SlotIndex
  /\ consumer \in SlotIndex
  /\ shared   \in [index : SlotIndex, dirty : BOOLEAN]
  /\ revision \in Revisions
  /\ written  \in 0..FieldCount
  /\ looking  \in Looking
  /\ view     \in Seq(Revisions)
  /\ Len(view) \in 0..FieldCount

Init ==
  /\ slots = [s \in SlotIndex |-> Frame(0)]
  /\ producer = 0
  /\ consumer = 2
  /\ shared = [index |-> 1, dirty |-> FALSE]
  /\ revision = 0
  /\ written = 0
  /\ looking = "idle"
  /\ view = <<>>

-----------------------------------------------------------------------------
(* The IPC thread: OverlayClient::publish. *)

\* One field assignment of publish(); the last one is frame.revision.
WriteField ==
  /\ revision < MaxRevision
  /\ written < FieldCount
  /\ slots' = [slots EXCEPT ![producer][written + 1] = revision + 1]
  /\ written' = written + 1
  /\ UNCHANGED <<producer, revision, shared, consumerVars>>

\* Mutant: goes on writing in the slot it has just handed over.
PublishAndKeep ==
  /\ written = FieldCount
  /\ shared' = [index |-> producer, dirty |-> TRUE]
  /\ revision' = revision + 1
  /\ written' = 0
  /\ UNCHANGED <<slots, producer, consumerVars>>

\* TripleBuffer::publish: hand the slot over, take back whatever was shared.
PublishSlot ==
  /\ written = FieldCount
  /\ shared' = [index |-> producer, dirty |-> TRUE]
  /\ producer' = shared.index
  /\ revision' = revision + 1
  /\ written' = 0
  /\ UNCHANGED <<slots, consumerVars>>

-----------------------------------------------------------------------------
(* The render thread: OverlayClient::acquire_frame, then drawing. *)

\* Mutant: never finds the dirty bit.
SeesNoUpdate ==
  /\ looking = "idle"
  /\ looking' = "reading"
  /\ view' = <<>>
  /\ UNCHANGED <<slots, shared, consumer, producerVars>>

\* has_update(): a load of the dirty bit.
HasUpdate ==
  /\ looking = "idle"
  /\ looking' = IF shared.dirty THEN "exchange" ELSE "reading"
  /\ view' = <<>>
  /\ UNCHANGED <<slots, shared, consumer, producerVars>>

\* Mutants: the slot given back is still marked as new; the dirty bit is not
\* masked off the index.
TakeStillDirty ==
  /\ looking = "exchange"
  /\ shared' = [index |-> consumer, dirty |-> TRUE]
  /\ consumer' = shared.index
  /\ looking' = "reading"
  /\ UNCHANGED <<slots, view, producerVars>>

TakeUnmasked ==
  /\ looking = "exchange"
  /\ shared' = [index |-> consumer, dirty |-> FALSE]
  /\ consumer' = IF shared.dirty THEN 4 + shared.index ELSE shared.index
  /\ looking' = "reading"
  /\ UNCHANGED <<slots, view, producerVars>>

\* The exchange, if there was an update.  A publish may have come between.
TakeSlot ==
  /\ looking = "exchange"
  /\ shared' = [index |-> consumer, dirty |-> FALSE]
  /\ consumer' = shared.index
  /\ looking' = "reading"
  /\ UNCHANGED <<slots, view, producerVars>>

\* The renderer reads the frame it was given, a field at a time.
ReadField ==
  /\ looking = "reading"
  /\ Len(view) < FieldCount
  /\ view' = Append(view, slots[consumer][Len(view) + 1])
  /\ UNCHANGED <<slots, shared, consumer, looking, producerVars>>

EndFrame ==
  /\ looking = "reading"
  /\ Len(view) = FieldCount
  /\ looking' = "idle"
  /\ UNCHANGED <<slots, shared, consumer, view, producerVars>>

-----------------------------------------------------------------------------
Producer == WriteField \/ PublishSlot
Consumer == HasUpdate \/ TakeSlot \/ ReadField \/ EndFrame
Next     == Producer \/ Consumer

\* The game presents frames for as long as it runs, so the render thread
\* always moves on.  Nothing is assumed of the IPC thread.
Spec == Init /\ [][Next]_vars /\ WF_vars(Consumer)

-----------------------------------------------------------------------------
(* Properties. *)

\* A frame the renderer reads is never mixed from two publish() calls, even
\* when publishes overtake the read.
NoTornFrame == \A i, j \in DOMAIN view : view[i] = view[j]

\* The two threads are never in the same slot, so slots_ needs no lock.
SlotsDisjoint ==
  /\ producer # consumer
  /\ producer # shared.index
  /\ consumer # shared.index

\* Successive acquire() calls never go back to an older frame.
NeverOlder == [][slots'[consumer'][FieldCount] >= slots[consumer][FieldCount]]_vars

\* A published frame, or one newer, is what the renderer sees in the end.
NewestIsShown ==
  \A r \in Revisions : (revision = r) ~> (slots[consumer][FieldCount] >= r)

\* acquire() is one look at a register of complete frames: at the load when
\* it finds nothing new, at the exchange otherwise.
WholeFrames == {Frame(r) : r \in Revisions}

Latest == INSTANCE LatestFrame
            WITH Frames <- WholeFrames,
                 Blank  <- Frame(0),
                 Later  <- {p \in WholeFrames \X WholeFrames :
                              p[1][FieldCount] < p[2][FieldCount]},
                 latest <- IF shared.dirty THEN slots[shared.index]
                                           ELSE slots[consumer],
                 shown  <- slots[consumer]

ImplementsLatestFrame == Latest!Spec
=============================================================================
