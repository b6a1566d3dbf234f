----------------------------- MODULE AtomicCalls -----------------------------
(***************************************************************************)
(* What retry_on_transient_conflict promises the caller of a decorated     *)
(* write: the write takes effect at most once, a normal return means that  *)
(* it did, and any failure except a connection lost while the transaction  *)
(* was being ended means that it did not and never will.                   *)
(***************************************************************************)
CONSTANT Calls

VARIABLES applied,   \* the calls whose write is in the database
          reply      \* what each caller was told

vars == <<applied, reply>>

Replies == {"none", "ok", "failed", "unknown"}

Init == /\ applied = {}
        /\ reply = [c \in Calls |-> "none"]

\* The write may still land after the caller was told "unknown".
Apply(c) == /\ c \notin applied
            /\ reply[c] \in {"none", "unknown"}
            /\ applied' = applied \union {c}
            /\ UNCHANGED reply

Reply(c, r) == /\ reply[c] = "none"
               /\ r = "ok" => c \in applied
               /\ r = "failed" => c \notin applied
               /\ reply' = [reply EXCEPT ![c] = r]
               /\ UNCHANGED applied

Next == \E c \in Calls : Apply(c) \/ \E r \in Replies \ {"none"} : Reply(c, r)

Spec == Init /\ [][Next]_vars
=============================================================================
