---------------------------- MODULE ReplyChannel ----------------------------
(***************************************************************************)
(* What the receive tasks and the frame queue promise together, without    *)
(* tasks, queue or buffers: the frames the device puts out come to the     *)
(* commands at most once each, unaltered but for damage that the checks    *)
(* catch, and on each interface in the order they were put out.  Any       *)
(* number of them may be lost on the way; none may be made up.             *)
(***************************************************************************)
EXTENDS Naturals

CONSTANTS Ifs, MaxCmds, MaxFrames, FrameKinds, NoFrame

Frame == [sn : 1 .. MaxFrames, kind : FrameKinds, cmd : 0 .. MaxCmds, hif : Ifs]

VARIABLES
  air,     \* frames put out and neither delivered nor lost
  reply,   \* the frame the running command was given
  nextSn   \* next frame's serial number

vars == <<air, reply, nextSn>>

Init == air = {} /\ reply = NoFrame /\ nextSn = 1

\* A new frame is put out; it may be lost at once.
Emit ==
  /\ nextSn' = nextSn + 1
  /\ \E f \in Frame : f.sn = nextSn /\ air' \in {air, air \cup {f}}
  /\ UNCHANGED reply

\* Frames are lost.
Lose ==
  /\ air' \in SUBSET air
  /\ UNCHANGED <<reply, nextSn>>

\* Frames are lost, and one more is damaged: its header no longer checks.
Damage ==
  /\ \E f \in air : \E rest \in SUBSET (air \ {f}) :
       air' = rest \cup {[f EXCEPT !.kind = "badhdr", !.cmd = 0]}
  /\ UNCHANGED <<reply, nextSn>>

\* A frame goes to the running command; nothing older of the same interface
\* is still to come.
Deliver ==
  \E f \in air :
    /\ \A g \in air : g.hif = f.hif => g.sn >= f.sn
    /\ reply' = f
    /\ air' = air \ {f}
    /\ UNCHANGED nextSn

\* The next command starts without one.
Clear ==
  /\ reply' = NoFrame
  /\ UNCHANGED <<air, nextSn>>

Next == Emit \/ Lose \/ Damage \/ Deliver \/ Clear

Spec == Init /\ [][Next]_vars
=============================================================================
