------------------------------- MODULE Mirror -------------------------------
(* What the index of one volume promises: it shows the volume as it was     *)
(* when the journal was last polled, and changes at no other moment.        *)
VARIABLES volume, shown

Init == shown = volume

Change == volume' # volume /\ shown' = shown

Sync == shown' = volume /\ volume' = volume

Spec == Init /\ [][Change \/ Sync]_<<volume, shown>>
=============================================================================
