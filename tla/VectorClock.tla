---------------------------- MODULE VectorClock -----------------------------
(***************************************************************************)
(* The vector clock of pkg/taskboard/service.go.  A clock is its counters, *)
(* one for each agent: an agent that is not in the map reads as 0.  Of the *)
(* locks, Merge and Compare take that of the receiver and then that of the *)
(* other clock; here they are functions of the values.                     *)
(***************************************************************************)
EXTENDS Integers

CONSTANT Agents

Clocks == [Agents -> Nat]

NewVectorClock == [a \in Agents |-> 0]

Increment(v, a) == [v EXCEPT ![a] = @ + 1]

Merge(v, w) == [a \in Agents |-> IF w[a] > v[a] THEN w[a] ELSE v[a]]

HasGreater(v, w) == \E a \in Agents : v[a] > w[a]
HasLess(v, w) == \E a \in Agents : v[a] < w[a]

\* 0 for clocks that are equal as well as for concurrent ones.
Compare(v, w) == IF HasGreater(v, w) /\ ~HasLess(v, w) THEN 1
                 ELSE IF HasLess(v, w) /\ ~HasGreater(v, w) THEN -1
                 ELSE 0

\* What the counters say: w has seen all that v has.
Within(v, w) == \A a \in Agents : v[a] <= w[a]
=============================================================================
