---------------------------- MODULE MemoryBudget ----------------------------
(***************************************************************************)
(* memory.py and main.py, _resolve_budgets: how the memory the service may *)
(* use is divided between the shared membership set and each worker's      *)
(* payload cache. A size that is not set explicitly is Automatic.          *)
(***************************************************************************)
EXTENDS Integers

CONSTANTS Automatic, Floor   \* Floor: the least payload cache that is chosen automatically

ASSUME SizesAssumption == Automatic \notin Nat /\ Floor \in Nat

AtLeast(a, b) == IF a >= b THEN a ELSE b
AtMost(a, b) == IF a =< b THEN a ELSE b

\* The cgroup's limit binds when there is one below the host's memory.
Detected(cgroup, host) == IF cgroup = Automatic THEN host ELSE AtMost(cgroup, host)

\* detect: a share of what the reserve leaves, or the override, but never more
\* than the reserve leaves. share is memory_fraction in per cent.
Usable(detected, reserve, share, override) ==
  LET left == AtLeast(0, detected - reserve)
  IN  AtMost(IF override = Automatic THEN (left * share) \div 100 ELSE override, left)

PerWorker(usable, workers) == usable \div AtLeast(1, workers)

PayloadBudget(usable, workers, explicit) ==
  IF explicit = Automatic THEN AtLeast(Floor, PerWorker(usable, workers) \div 4) ELSE explicit

MembershipBudget(usable, workers, explicit) ==
  AtLeast(0, usable - workers * PayloadBudget(usable, workers, explicit))

\* The memory a deployment has, and its settings about it.
Sizes == Nat \cup {Automatic}
Memory == [cgroup : Sizes, host : Nat, reserve : Nat, share : 0 .. 100,
           override : Sizes, workers : Nat, cache : Sizes]
UsableOf(m) == Usable(Detected(m.cgroup, m.host), m.reserve, m.share, m.override)
=============================================================================
