----------------------------- MODULE TodoLists ------------------------------
(***************************************************************************)
(* CRDT.Merge and validateTodos of pkg/taskboard/service.go on slices of   *)
(* todo items, loop by loop: the map by id, the items of the map in        *)
(* whichever order the iteration takes them, and the exchange sort.        *)
(***************************************************************************)
EXTENDS TodoMerge, FiniteSets, Sequences, SequencesExt

\* validateTodos: ids are given and differ, statuses are known.
Valid(todos, NoId) ==
  /\ \A i \in DOMAIN todos : /\ todos[i].id # NoId
                             /\ todos[i].status \in Statuses
  /\ \A i, j \in DOMAIN todos : todos[i].id = todos[j].id => i = j

-----------------------------------------------------------------------------
(* The two loops that fill byID.                                           *)

Put(byID, todo) == [i \in DOMAIN byID \cup {todo.id} |->
                      IF i = todo.id THEN todo ELSE byID[i]]

AddLocal(byID, todo) == Put(byID, todo)

\* Mutant: the remote item wins.
AddRemote_Always(byID, todo) == Put(byID, todo)
AddRemote(byID, todo) ==
  IF todo.id \in DOMAIN byID /\ ~(todo.created > byID[todo.id].created)
  THEN byID
  ELSE Put(byID, todo)

\* The loops are recursive functions of the number of turns done.
ByID(local, remote) ==
  LET mine[n \in 0 .. Len(local)] ==
        IF n = 0 THEN << >> ELSE AddLocal(mine[n - 1], local[n])
      both[n \in 0 .. Len(remote)] ==
        IF n = 0 THEN mine[Len(local)] ELSE AddRemote(both[n - 1], remote[n])
  IN both[Len(remote)]

(* sortByTime: for i, for j > i, exchange.                                 *)

Exchange(todos, i, j) == [todos EXCEPT ![i] = todos[j], ![j] = todos[i]]

InOrder(todos, i, j) ==
  IF todos[j].created < todos[i].created THEN Exchange(todos, i, j) ELSE todos

\* Mutant: neighbours only, which is one pass.
Pass_Neighbour(todos, i) ==
  IF i < Len(todos) THEN InOrder(todos, i, i + 1) ELSE todos
\* The inner loop: the item at i is compared with all behind it.
Pass(todos, i) ==
  LET inner[j \in i .. Len(todos)] ==
        IF j = i THEN todos ELSE InOrder(inner[j - 1], i, j)
  IN inner[Len(todos)]

SortByTime(todos) ==
  LET outer[i \in 0 .. Len(todos)] ==
        IF i = 0 THEN todos ELSE Pass(outer[i - 1], i)
  IN outer[Len(todos)]

\* What Merge may return: the map has no order of its own.
Merges(local, remote) ==
  LET byID == ByID(local, remote)
  IN {SortByTime([n \in DOMAIN order |-> byID[order[n]]]) :
        order \in SetToSeqs(DOMAIN byID)}

-----------------------------------------------------------------------------
(* A definition to compare it with: for each id the last local item, unless *)
(* a remote one was created later; then the first of the newest ones.      *)

IsLast(todos, k) == \A l \in DOMAIN todos : l > k => todos[l].id # todos[k].id

IsFirstNewest(todos, k) ==
  \A l \in DOMAIN todos :
    todos[l].id = todos[k].id => /\ todos[l].created <= todos[k].created
                                 /\ l < k => todos[l].created < todos[k].created

Chosen(todo, local, remote) ==
  \/ \E k \in DOMAIN local :
       /\ todo = local[k] /\ IsLast(local, k)
       /\ \A l \in DOMAIN remote :
            remote[l].id = todo.id => remote[l].created <= todo.created
  \/ \E k \in DOMAIN remote :
       /\ todo = remote[k] /\ IsFirstNewest(remote, k)
       /\ \A l \in DOMAIN local :
            local[l].id = todo.id /\ IsLast(local, l)
              => todo.created > local[l].created

IdsOf(todos) == {todos[i].id : i \in DOMAIN todos}

AsList(todos) == [i \in IdsOf(todos) |->
                    todos[CHOOSE n \in DOMAIN todos : todos[n].id = i]]

\* One item of each id, the right one; for lists that Publish accepts the
\* result is what TodoMerge defines on lists by id.
KeepsNewest(result, local, remote, NoId) ==
  /\ Len(result) = Cardinality(IdsOf(local) \cup IdsOf(remote))
  /\ IdsOf(result) = IdsOf(local) \cup IdsOf(remote)
  /\ \A i \in DOMAIN result : Chosen(result[i], local, remote)
  /\ Valid(local, NoId) /\ Valid(remote, NoId) =>
       AsList(result) = Merged(AsList(local), AsList(remote))

Sorted(todos) == \A i, j \in DOMAIN todos :
                   i < j => todos[i].created <= todos[j].created
=============================================================================
