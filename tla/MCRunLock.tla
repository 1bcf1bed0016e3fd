------------------------------ MODULE MCRunLock ------------------------------
(* RunLock with three interchangeable processes.                           *)
EXTENDS RunLock

CONSTANTS p1, p2, p3

MCProcess == {p1, p2, p3}

=============================================================================
