------------------------------ MODULE MCBringUp ------------------------------
(* Microcode for BringUp: two instructions, of which the second is the pad,  *)
(* and the tool with a file that leaves the pad out, and with one too long.  *)
EXTENDS BringUp

MCBlob == <<147, 94, 2, 128, 7>>
MCRuns == {[file |-> SubSeq(MCBlob, 1, 3), ds |-> TRUE, at |-> 1],
           [file |-> MCBlob \o <<255, 255, 255>>, ds |-> FALSE, at |-> 1]}
=============================================================================
