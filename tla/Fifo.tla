-------------------------------- MODULE Fifo --------------------------------
(***************************************************************************)
(* What every queue between threads in pallette promises: what comes out   *)
(* is what was put in, in that order, nothing lost in between, doubled or  *)
(* invented; a consumer may take several items at once.  EventLoop (the    *)
(* functors), ThreadPool (the tasks) and AsyncLogging (the lines) are      *)
(* shown to implement it.                                                  *)
(***************************************************************************)
EXTENDS Naturals, Sequences

CONSTANT Items

VARIABLES
    put,   \* every item put in, in order
    got    \* every item taken out, in order

FifoInit == put = <<>> /\ got = <<>>

Put == \E x \in Items : put' = Append(put, x) /\ got' = got

Get == /\ \E n \in Len(got) + 1 .. Len(put) : got' = SubSeq(put, 1, n)
       /\ put' = put

FifoSpec == FifoInit /\ [][Put \/ Get]_<<put, got>>

=============================================================================
