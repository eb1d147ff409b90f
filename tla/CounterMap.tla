------------------------------ MODULE CounterMap ------------------------------
(***************************************************************************)
(* What a shared table of counters promises: a key is added with the value *)
(* zero, counts up one at a time, and is removed; nothing that is done to  *)
(* one key ever shows in another.                                          *)
(***************************************************************************)
EXTENDS Integers

CONSTANTS Keys,
          Values,  \* a counter wraps when it comes to this
          Absent   \* what stands for no counter

VARIABLE counters

Init == counters = [k \in Keys |-> Absent]

Successors(v) == IF v = Absent THEN {0} ELSE {(v + 1) % Values, Absent}

\* A key is added, counts, or is removed.
Change(k) == /\ counters'[k] \in Successors(counters[k])
             /\ \A x \in Keys \ {k} : counters'[x] = counters[x]

Next == /\ DOMAIN counters' = Keys
        /\ \E k \in Keys : Change(k)

Spec == Init /\ [][Next]_counters
=============================================================================
