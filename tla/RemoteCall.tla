----------------------------- MODULE RemoteCall ------------------------------
(***************************************************************************)
(* What one run of the command-line client promises whoever started it.    *)
(* Each invocation ends once, with what it knows of the fate of its        *)
(* request:                                                                *)
(*   done      the daemon committed the request                            *)
(*   unsent    the input was at fault: the request never left the process, *)
(*             and nothing is ever committed for it                        *)
(*   rejected  the daemon turned the request down and never commits it     *)
(*   unknown   anything else: the request may have been committed before,  *)
(*             or may be committed later                                   *)
(* No request is committed twice.                                          *)
(***************************************************************************)
CONSTANT Invocations

VARIABLES
  committed,   \* the invocations whose request was committed
  known        \* what each invocation that has ended said of it

vars == <<committed, known>>

Fates == {"running", "done", "unsent", "rejected", "unknown"}

Init ==
  /\ committed = {}
  /\ known = [c \in Invocations |-> "running"]

Commit(c) ==
  /\ c \notin committed
  /\ known[c] \in {"running", "unknown"}
  /\ committed' = committed \cup {c}
  /\ UNCHANGED known

End(c, fate) ==
  /\ known[c] = "running"
  /\ fate = "done" => c \in committed
  /\ fate \in {"unsent", "rejected"} => c \notin committed
  /\ known' = [known EXCEPT ![c] = fate]
  /\ UNCHANGED committed

Next ==
  \E c \in Invocations :
    \/ Commit(c)
    \/ \E fate \in Fates \ {"running"} : End(c, fate)

Spec == Init /\ [][Next]_vars

=============================================================================
