---------------------------- MODULE LatestFrame ----------------------------
(***************************************************************************)
(* What OverlayClient promises its renderer (overlay_client.hpp, class     *)
(* TripleBuffer's own header): a register that always holds one complete   *)
(* frame.  The IPC thread replaces it, the render thread looks at it, and  *)
(* looking shows the newest complete frame there is at that moment.        *)
(***************************************************************************)
EXTENDS Naturals

CONSTANTS Frames,          \* the frames that can exist
          Blank,           \* the default-constructed frame
          Later            \* <<f, g>> \in Later: g was built after f

VARIABLES latest,          \* the newest published frame
          shown            \* the frame the renderer holds

frameVars == <<latest, shown>>

Init == latest = Blank /\ shown = Blank

\* A whole frame, built after the one it replaces, becomes visible at once.
Publish == /\ \E f \in Frames : <<latest, f>> \in Later /\ latest' = f
           /\ UNCHANGED shown

\* Looking always shows the newest published frame, never one in between.
Acquire == shown' = latest /\ UNCHANGED latest

Next == Publish \/ Acquire

Spec == Init /\ [][Next]_frameVars
=============================================================================
