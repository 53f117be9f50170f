----------------------------- MODULE MCHardware -----------------------------
(***************************************************************************)
(* Clock, interrupt controllers and paging.  Each part has the state that  *)
(* it needs to itself: a behaviour is one of one of them.                  *)
(***************************************************************************)
EXTENDS Rtc, Interrupts, Paging

VARIABLE part

MCInit == /\ Init /\ IInit /\ PInit
          /\ part \in {"clock", "interrupts", "paging"}

MCNext ==
  /\ UNCHANGED part
  /\ \/ part = "clock" /\ Next /\ UNCHANGED <<ivars, pvars>>
     \/ part = "interrupts" /\ INext /\ UNCHANGED <<rvars, pvars>>
     \/ part = "paging" /\ PNext /\ UNCHANGED <<rvars, ivars>>

InClock == part = "clock" /\ UNCHANGED <<ivars, pvars, part>>
InInterrupts == part = "interrupts" /\ UNCHANGED <<rvars, pvars, part>>

(* The fairness of RtcSpec and of ISpec.  As part never changes, a         *)
(* condition of one and one of the other are the same as one of both.      *)
MCSpec ==
  /\ MCInit /\ [][MCNext]_<<rvars, ivars, pvars, part>>
  /\ WF_<<rvars, ivars>>((InClock /\ (Tick \/ RtcInterrupt)) \/ (InInterrupts /\ ISteps))
  /\ \A d \in 1 .. MaxFrames :
       SF_<<rvars, ivars>>(\/ InInterrupts /\ Len(frames) = d /\ Handler
                           \/ InClock /\ d = 1 /\ Program)

=============================================================================
