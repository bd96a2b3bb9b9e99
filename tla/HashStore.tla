----------------------------- MODULE HashStore -----------------------------
(***************************************************************************)
(* What a CHashFile promises to the task that fills it: the hashes it is   *)
(* given become durable in any order and are never lost or overwritten;    *)
(* one verdict is posted, after which nothing changes; a good verdict is   *)
(* posted only for a file that holds every hash, or for one that was never *)
(* given any; and the file outlives its handle exactly if all hashes were  *)
(* given, as far as the system grants the calls this takes.                *)
(***************************************************************************)
CONSTANT Hashes

VARIABLES given,    \* the hashes delivered, or given up half way
          stored,   \* the hashes that are in the file, at their place
          verdict,  \* "none" until WM_DONE is posted, then "good" or "bad"
          kept,     \* the file outlives its handle
          ignored   \* refused: marking the file for deletion ("mark"), cutting it
                    \* to its size ("truncate"), un-marking it ("keep")

vars == <<given, stored, verdict, kept, ignored>>

Init == given = {} /\ stored = {} /\ verdict = "none" /\ kept = FALSE /\ ignored = {}

Store == /\ verdict = "none"
         /\ given \subseteq given' /\ given' \in SUBSET Hashes
         /\ stored \subseteq stored' /\ stored' \in SUBSET given'
         /\ UNCHANGED <<verdict, kept, ignored>>

\* A file that lacks a hash is neither cut nor un-marked.
Post(v) == /\ verdict = "none"
           /\ verdict' = v
           /\ ignored' \in SUBSET IF given = Hashes THEN {"mark", "truncate", "keep"}
                                                    ELSE {"mark"}
           /\ kept' = ("mark" \in ignored' \/ (given = Hashes /\ "keep" \notin ignored'))
           /\ UNCHANGED <<given, stored>>

Succeed == stored = Hashes /\ Post("good")

\* Nobody has given anything, and nobody has failed.
SucceedWithNothing == given = {} /\ Post("good")

Fail == Post("bad")

Next == Store \/ Succeed \/ SucceedWithNothing \/ Fail

SafeSpec == Init /\ [][Next]_vars
=============================================================================
