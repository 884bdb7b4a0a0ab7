--------------------------- MODULE MCCallerCapture ----------------------------
(***************************************************************************)
(* Two processes that may be the parent or adopt the client and whose pids *)
(* may be reused, two executables, one the client may not read, a name     *)
(* that looks like the end of a name and the fields behind it, and one     *)
(* that is not UTF-8.                                                      *)
(***************************************************************************)
EXTENDS CallerCapture

MCNames == {<<Word>>, <<Word, Close, Number(0), Word>>, <<Word, Garbled>>}

MCFields == <<Word>> \o [i \in 1 .. StartField - 2 |-> Number(0)]

=============================================================================
