----------------------------- MODULE AbstractPool -----------------------------
(***************************************************************************)
(* What the probe pool of pkg/loadbalancer promises to those who fill it   *)
(* and those who use it, without slices, copies, locks or budgets.  Every  *)
(* entry is admitted once and dies once; never are more than Cap alive; an *)
(* admission kills at most one entry, only when the pool is full, and      *)
(* those that have expired besides; all other deaths come in batches of    *)
(* limited size that nobody else's admission or removal can undo.          *)
(***************************************************************************)
EXTENDS Integers, FiniteSets

CONSTANTS
  Entries,  \* what may be admitted
  Cap,      \* the most entries alive
  Batch,    \* the most that die at once otherwise
  Expires   \* whether entries expire

VARIABLES live, dead

vars == <<live, dead>>

Init == live = {} /\ dead = {}

Die(gone) == gone \subseteq live /\ dead' = dead \cup gone

(* e comes alive; who dies of it has expired or is the one the full pool   *)
(* gives up.                                                               *)
Admit(e) ==
  /\ e \notin live \cup dead
  /\ \E gone \in SUBSET live :
       /\ Die(gone)
       /\ live' = (live \ gone) \cup {e}
       /\ ~Expires => gone = {} \/ (Cardinality(gone) = 1 /\ Cardinality(live) = Cap)
  /\ Cardinality(live') <= Cap

Retire ==
  \E gone \in SUBSET live :
    /\ Cardinality(gone) <= Batch
    /\ Die(gone)
    /\ live' = live \ gone

Next == Retire \/ \E e \in Entries : Admit(e)

Spec == Init /\ [][Next]_vars
=============================================================================
