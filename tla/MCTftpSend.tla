----------------------------- MODULE MCTftpSend -----------------------------
(* Two builds of the image: two full blocks, then none.                 *)
EXTENDS TftpSend

MCFull == <<2, 0>>

=============================================================================
