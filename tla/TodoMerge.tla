----------------------------- MODULE TodoMerge ------------------------------
(***************************************************************************)
(* The values of the task board: todo items with the operations that edit  *)
(* them (pkg/messaging/types.go) and what CRDT.Merge makes of two lists    *)
(* (pkg/taskboard/service.go).                                             *)
(*                                                                         *)
(* An item is its id, its creation time, its status, and the times it was  *)
(* started and completed (0: never); a reason stands for the metadata.     *)
(* Merge goes by id, so here a list is the function from the ids in it to  *)
(* the items; TodoLists has the slices.                                    *)
(***************************************************************************)
EXTENDS Integers

Statuses == {"todo", "in_progress", "blocked", "done", "cancelled"}

Items(ids) == [id : ids, created : Nat, status : Statuses,
               started : Nat, completed : Nat, reason : BOOLEAN]

NewTodoItem(id, now) == [id |-> id, created |-> now, status |-> "todo",
                         started |-> 0, completed |-> 0, reason |-> FALSE]

-----------------------------------------------------------------------------
(* Edits.  None of them touches the creation time.                         *)

MarkInProgress(t, now) == [t EXCEPT !.status = "in_progress", !.started = now]
MarkDone(t, now) == [t EXCEPT !.status = "done", !.completed = now]
MarkBlocked(t) == [t EXCEPT !.status = "blocked", !.reason = TRUE]

IsDone(t) == t.status \in {"done", "cancelled"}

Edits(t) == {MarkInProgress(t, now) : now \in Nat}
            \cup {MarkDone(t, now) : now \in Nat} \cup {MarkBlocked(t)}

-----------------------------------------------------------------------------
(* CRDT.Merge.                                                             *)

\* A list of items with these ids, by id.
IsList(f, ids) == /\ DOMAIN f \subseteq ids
                  /\ f \in [DOMAIN f -> Items(ids)]
                  /\ \A i \in DOMAIN f : f[i].id = i

\* The remote item replaces the local one only when it was created later.
Later(mine, theirs) == IF theirs.created > mine.created THEN theirs ELSE mine

Merged(local, remote) ==
  [i \in DOMAIN local \cup DOMAIN remote |->
     IF i \notin DOMAIN remote THEN local[i]
     ELSE IF i \notin DOMAIN local THEN remote[i]
     ELSE Later(local[i], remote[i])]

\* No item is in both lists with one creation time and another content.
NoTies(f, g) == \A i \in DOMAIN f \cap DOMAIN g :
                  f[i] = g[i] \/ f[i].created # g[i].created
=============================================================================
