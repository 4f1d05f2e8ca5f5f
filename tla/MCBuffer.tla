------------------------------ MODULE MCBuffer ------------------------------
(* Buffer with a small initial size and a small stack buffer.              *)
EXTENDS Buffer
=============================================================================
