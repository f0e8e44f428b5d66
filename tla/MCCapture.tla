----------------------------- MODULE MCCapture ------------------------------
(* Instances of Capture.                                                   *)
EXTENDS Capture

CONSTANT Neighbour

(* The microphone and the video do not read each other, so each behaviour  *)
(* uses one of the two.  While it is the microphone, places do not matter  *)
(* and one of the peers is never called; one swap of a sender at a time.   *)
MCBound ==
  \/ mic = MicInit
  \/ /\ vid = VideoInit
     /\ "page" \notin link[Neighbour]
     /\ \A p \in Peers : Len(mic.pending[p]) <= 1
=============================================================================
