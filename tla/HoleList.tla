------------------------------ MODULE HoleList ------------------------------
(***************************************************************************)
(* Doubly linked lists as mmu.cpp keeps them, and the list of holes.       *)
(*                                                                         *)
(* A list's nodes are a function from the addresses that are allocated now *)
(* to records with fields prev and next, so that a pointer to a node that  *)
(* has been free()d is a pointer outside the domain.  What the program     *)
(* does after it follows such a pointer, or NULL, is undefined: an         *)
(* operation that does so returns a list whose ok is FALSE, and nothing is *)
(* said of what comes after.                                               *)
(***************************************************************************)
EXTENDS Integers, FiniteSets, SequencesExt

Null == -1

(* where a walk that never leaves the list gets to *)
Nowhere == -2

SetNext(node, p, q) ==
    [x \in DOMAIN node |-> IF x = p THEN [node[x] EXCEPT !.next = q] ELSE node[x]]

SetPrev(node, p, q) ==
    [x \in DOMAIN node |-> IF x = p THEN [node[x] EXCEPT !.prev = q] ELSE node[x]]

SetWords(node, p, base, size) ==
    [x \in DOMAIN node |-> IF x = p THEN [node[x] EXCEPT !.base = base, !.size = size]
                                    ELSE node[x]]

With(node, p, new) == [x \in DOMAIN node \cup {p} |-> IF x = p THEN new ELSE node[x]]

Without(node, p) == [x \in DOMAIN node \ {p} |-> node[x]]

NullOrNode(node, p) == p \in DOMAIN node \cup {Null}

(* x, step[x], step[step[x]], ..., by the number of steps                   *)
Iterates(step, x, n) ==
    LET It[k \in 0 .. n] == IF k = 0 THEN x ELSE step[It[k - 1]]
    IN  It

(* the pointer a loop "while(p != NULL) { if(...) break; p = p->next; }"    *)
(* holds after k turns                                                     *)
Trail(head, node) ==
    LET pointers == {head} \cup DOMAIN node \cup {node[x].next : x \in DOMAIN node}
        next     == [p \in pointers |-> IF p \in DOMAIN node THEN node[p].next ELSE p]
    IN  Iterates(next, head, Cardinality(DOMAIN node))

(* and the one it stops with: a node of P, Null, a dangling pointer, or     *)
(* Nowhere when the loop never ends                                        *)
Find(head, node, P) ==
    LET At    == Trail(head, node)
        stops == {k \in DOMAIN At : At[k] \in DOMAIN node => At[k] \in P}
    IN  IF stops = {} THEN Nowhere ELSE At[Min(stops)]

(* the nodes the loop passes when P is empty                               *)
Chain(head, node) ==
    LET At    == Trail(head, node)
        stops == {k \in DOMAIN At : At[k] \notin DOMAIN node}
        n     == IF stops = {} THEN Cardinality(DOMAIN node) + 1 ELSE Min(stops)
    IN  [i \in 1 .. n |-> At[i - 1]]

(* and whether it runs off the end of the list                             *)
Ends(head, node) == Find(head, node, {}) = Null

-----------------------------------------------------------------------------

(* free_list_t: [node |-> ..., head, tail, ok]; free_list->size, which      *)
(* nothing reads, is left out                                              *)

OneHole(size) ==
    [node |-> With(<<>>, 1, [prev |-> Null, next |-> Null, base |-> 0, size |-> size]),
     head |-> 1, tail |-> 1, ok |-> TRUE]

delete_hole(hs, h) ==
    LET n == hs.node[h]
    IN  [node |-> Without(SetNext(SetPrev(hs.node, n.next, n.prev), n.prev, n.next), h),
         head |-> IF h = hs.head THEN n.next ELSE hs.head,
         tail |-> IF h = hs.tail THEN n.prev ELSE hs.tail,
         ok   |-> hs.ok /\ NullOrNode(hs.node, n.next) /\ NullOrNode(hs.node, n.prev)]

(* the first hole of at least n words                                      *)
FirstFit(hs, n) == Find(hs.head, hs.node, {h \in DOMAIN hs.node : hs.node[h].size >= n})

(* mutant: the hole shrinks but still starts where it did                  *)
CarveKeepsBase(hs, h, n) ==
    LET r      == hs.node[h]
        shrunk == [hs EXCEPT !.node = SetWords(@, h, r.base, r.size - n)]
    IN  IF shrunk.node[h].size = 0 THEN delete_hole(shrunk, h) ELSE shrunk

(* hole h also gets the n words behind it                                   *)
Grown(hs, h, n) == [hs EXCEPT !.node = SetWords(@, h, hs.node[h].base, hs.node[h].size + n)]

(* n words are taken from the front of hole h                              *)
Carve(hs, h, n) ==
    LET r      == hs.node[h]
        shrunk == [hs EXCEPT !.node = SetWords(@, h, r.base + n, r.size - n)]
    IN  IF shrunk.node[h].size = 0 THEN delete_hole(shrunk, h) ELSE shrunk

(* malloc(sizeof(hole)): an address no pointer of the list still holds.    *)
(* malloc may also return a freed one that a stale pointer holds, but an    *)
(* operation that follows such a pointer has ended with ok = FALSE before.  *)
NewHole(hs) ==
    LET held == {hs.head, hs.tail} \cup DOMAIN hs.node
                \cup {hs.node[x].next : x \in DOMAIN hs.node}
                \cup {hs.node[x].prev : x \in DOMAIN hs.node}
    IN  Min((1 .. Cardinality(held) + 1) \ held)

(* the freed words lie behind every hole                                   *)
AppendHole(hs, h, base, size) ==
    LET new  == [prev |-> hs.tail, next |-> Null, base |-> base, size |-> size]
        last == hs.node[hs.tail]
    IN  IF hs.tail = Null
        THEN [hs EXCEPT !.node = With(@, h, new), !.head = h, !.tail = h]
        ELSE IF hs.tail \notin DOMAIN hs.node THEN [hs EXCEPT !.ok = FALSE]
        ELSE IF last.base + last.size = base
        THEN Grown(hs, hs.tail, size)
        ELSE [hs EXCEPT !.node = With(SetNext(@, hs.tail, h), h, new), !.tail = h]

(* the freed words lie before loc, which has no predecessor                *)
PrependHole(hs, h, base, size, loc) ==
    LET new  == [prev |-> Null, next |-> loc, base |-> base, size |-> size]
        next == hs.node[loc]
    IN  IF next.base = base + size
        THEN [hs EXCEPT !.node = SetWords(@, loc, base, next.size + size)]
        ELSE [hs EXCEPT !.node = With(SetPrev(@, loc, h), h, new), !.head = h]

(* the freed words lie between two holes.  The order of the four            *)
(* assignments is the code's: loc->prev is read again after h->next->prev  *)
(* has been assigned, and h->next is loc.                                  *)
LinkBetween(node, h, base, size, loc) ==
    LET next  == node[node[loc].prev].next
        node1 == With(SetPrev(node, next, h), h,
                      [prev |-> Null, next |-> next, base |-> base, size |-> size])
        node2 == SetNext(node1, node1[loc].prev, h)
    IN  SetPrev(node2, h, node2[loc].prev)

InsertHoleBetween(hs, h, base, size, loc) ==
    LET p == hs.node[loc].prev
    IN  IF ~ (p \in DOMAIN hs.node /\ hs.node[p].next \in DOMAIN hs.node)
        THEN [hs EXCEPT !.ok = FALSE]
        ELSE LET linked  == [hs EXCEPT !.node = LinkBetween(@, h, base, size, loc)]
                 lp      == linked.node[loc].prev
                 left    == linked.node[lp]
                 touches == left.base + left.size = base
                 joined  == IF touches THEN delete_hole(Grown(linked, lp, size), h) ELSE linked
                 h2      == IF touches THEN joined.node[loc].prev ELSE h
                 right   == joined.node[loc]
             IN  IF h2 \notin DOMAIN joined.node THEN [joined EXCEPT !.ok = FALSE]
                 ELSE IF joined.node[h2].base + joined.node[h2].size = right.base
                 THEN delete_hole(Grown(joined, h2, right.size), loc)
                 ELSE joined

(* the second half of free_segment: size words from base become a hole      *)
InsertHole(hs, base, size) ==
    LET loc == Find(hs.head, hs.node, {x \in DOMAIN hs.node : hs.node[x].base > base})
        h   == NewHole(hs)
    IN  IF ~ NullOrNode(hs.node, loc) THEN [hs EXCEPT !.ok = FALSE]
        ELSE IF loc = Null THEN AppendHole(hs, h, base, size)
        ELSE IF hs.node[loc].prev = Null THEN PrependHole(hs, h, base, size, loc)
        ELSE InsertHoleBetween(hs, h, base, size, loc)

(* the holes are linked both ways, in the order of their addresses          *)
SortedList(hs) ==
    LET c == Chain(hs.head, hs.node)
    IN  /\ Ends(hs.head, hs.node)
        /\ \A i \in 1 .. Len(c) - 1 : /\ hs.node[c[i]].base < hs.node[c[i + 1]].base
                                      /\ hs.node[c[i + 1]].prev = c[i]
=============================================================================
