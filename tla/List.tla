-------------------------------- MODULE List --------------------------------
(***************************************************************************)
(* include/rivet/list.h: the pointers of an intrusive circular list and    *)
(* the iteration that survives the removal of the node it stands on.       *)
(***************************************************************************)
EXTENDS Integers, Sequences, SequencesExt

CONSTANTS Nodes, Anchor

VARIABLES next, prev,
          order,       \* the nodes in the list, as its user thinks of them
          it, tmp,     \* the cursors of riv_list_for_each_safe; Anchor when idle
          present, visited   \* what was there when it began, what it has shown

list_vars == <<next, prev, order, it, tmp, present, visited>>
walk_vars == <<it, tmp, present, visited>>

ListInit ==
    /\ next = [n \in Nodes \cup {Anchor} |-> n] /\ prev = next
    /\ order = <<>>
    /\ it = Anchor /\ tmp = Anchor /\ present = <<>> /\ visited = <<>>

riv_list_insert(p, nx, n) ==
    /\ next' = [next EXCEPT ![n] = nx, ![p] = n]
    /\ prev' = [prev EXCEPT ![n] = p, ![nx] = n]

riv_list_add(n) ==
    /\ it = Anchor /\ n \notin Range(order)
    /\ riv_list_insert(Anchor, next[Anchor], n)
    /\ order' = <<n>> \o order /\ UNCHANGED walk_vars

\* Also while the list is being walked; but a node that the walk has shown is
\* not put behind it again, for then it need never end.
riv_list_add_tail(n) ==
    /\ n \notin Range(order) /\ (it = Anchor \/ n \notin Range(visited))
    /\ riv_list_insert(prev[Anchor], Anchor, n)
    /\ order' = Append(order, n) /\ UNCHANGED walk_vars

riv_list_del(n) ==
    /\ next' = [next EXCEPT ![prev[n]] = next[n], ![n] = n]
    /\ prev' = [prev EXCEPT ![next[n]] = prev[n], ![n] = n]

riv_list_pop ==
    /\ it = Anchor /\ next[Anchor] # Anchor
    /\ riv_list_del(next[Anchor])
    /\ order' = Tail(order) /\ UNCHANGED walk_vars

riv_list_pop_tail ==
    /\ it = Anchor /\ next[Anchor] # Anchor
    /\ riv_list_del(prev[Anchor])
    /\ order' = Front(order) /\ UNCHANGED walk_vars

ForEach ==
    /\ it = Anchor /\ next[Anchor] # Anchor
    /\ it' = next[Anchor] /\ tmp' = next[next[Anchor]]
    /\ present' = order /\ visited' = <<next[Anchor]>>
    /\ UNCHANGED <<next, prev, order>>

ForEachStep ==
    /\ it # Anchor
    /\ it' = tmp /\ tmp' = next[tmp]
    /\ visited' = IF it' = Anchor THEN visited ELSE Append(visited, it')
    /\ UNCHANGED <<next, prev, order, present>>

\* The body of the loop removes the current node.
RemoveCurrent ==
    /\ it # Anchor /\ it \in Range(order)
    /\ riv_list_del(it)
    /\ order' = SelectSeq(order, LAMBDA n : n # it) /\ UNCHANGED walk_vars

ListNext ==
    \/ \E n \in Nodes : riv_list_add(n) \/ riv_list_add_tail(n)
    \/ riv_list_pop \/ riv_list_pop_tail \/ ForEach \/ ForEachStep \/ RemoveCurrent

-----------------------------------------------------------------------------
\* The forward and the backward pointers both spell out the list, a node that
\* is not in it points to itself, and emptiness is seen from the head.
Spells(f, s) == /\ f[Anchor] = IF s = <<>> THEN Anchor ELSE s[1]
              /\ \A i \in DOMAIN s : f[s[i]] = IF i = Len(s) THEN Anchor ELSE s[i + 1]
PointersSpell ==
    /\ Spells(next, order) /\ Spells(prev, Reverse(order))
    /\ \A n \in Nodes \ Range(order) : next[n] = n /\ prev[n] = n

\* riv_list_for_each_safe shows every node that was in the list when it began,
\* in order and once, although its body removes nodes and others are appended.
WalkExact == IsPrefix(present, visited) \/ (it # Anchor /\ IsPrefix(visited, present))

\* The operations of list.h keep the ring of pointers, and a walk that may remove
\* its current node sees the nodes it should.
ListIntact == PointersSpell /\ WalkExact
=============================================================================
