------------------------------ MODULE ByteQueue ------------------------------
(***************************************************************************)
(* What a Buffer promises: the bytes put in come out in the same order,    *)
(* each once.  The n-th byte ever put in is the number n.                  *)
(***************************************************************************)
EXTENDS Naturals, Sequences

VARIABLES content,      \* the bytes that can be read, oldest first
          total,        \* how many bytes were put in
          taken         \* how many bytes were taken out

queueVars == <<content, total, taken>>

QueueInit ==
    /\ content = <<>>
    /\ total = 0
    /\ taken = 0

Put ==
    /\ total' > total
    /\ content' = content \o [i \in 1 .. total' - total |-> total + i]
    /\ UNCHANGED taken

Take ==
    /\ taken' > taken
    /\ taken' - taken <= Len(content)
    /\ content' = SubSeq(content, taken' - taken + 1, Len(content))
    /\ UNCHANGED total

QueueSpec == QueueInit /\ [][Put \/ Take]_queueVars
=============================================================================
