-------------------------- MODULE PostingPromise ---------------------------
(***************************************************************************)
(* What docs/FINANCIAL_INTEGRITY_HARDENING.md promises of the backend      *)
(* finance outbox, without saying how: a secondary effect that is owed is  *)
(* performed at most once, is settled only when it was performed or does   *)
(* not apply, and once settled stays settled.                              *)
(***************************************************************************)
EXTENDS Naturals

CONSTANT Effects

VARIABLES
  debt,    \* debt[x]: "none", "owed" or "settled"
  times,   \* times[x]: how often effect x was performed in full
  excused  \* effects found not to apply

Init ==
  /\ debt = [x \in Effects |-> "none"]
  /\ times = [x \in Effects |-> 0]
  /\ excused = {}

\* A committed document owes some new effects.
Owe ==
  /\ debt' \in [Effects -> {"none", "owed", "settled"}]
  /\ \A x \in Effects : debt'[x] # debt[x] => debt[x] = "none" /\ debt'[x] = "owed"
  /\ UNCHANGED <<times, excused>>

Perform(x) ==
  /\ debt[x] = "owed"
  /\ times[x] = 0
  /\ times' = [times EXCEPT ![x] = 1]
  /\ UNCHANGED <<debt, excused>>

Excuse(x) ==
  /\ debt[x] = "owed"
  /\ excused' = excused \cup {x}
  /\ UNCHANGED <<debt, times>>

Settle(x) ==
  /\ debt[x] = "owed"
  /\ times[x] = 1 \/ x \in excused
  /\ debt' = [debt EXCEPT ![x] = "settled"]
  /\ UNCHANGED <<times, excused>>

Next ==
  \/ Owe
  \/ \E x \in Effects : Perform(x) \/ Excuse(x) \/ Settle(x)

Spec == Init /\ [][Next]_<<debt, times, excused>>
=============================================================================
