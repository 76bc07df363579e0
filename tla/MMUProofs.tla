----------------------------- MODULE MMUProofs -----------------------------
(***************************************************************************)
(* Proofs about the memory management unit, for any size of the memory,    *)
(* any arrays and any depth of the client's frames: the collector's stack  *)
(* is exact, nothing that an open frame holds is collected, no word of the *)
(* memory is given out twice and none is lost.                             *)
(***************************************************************************)
EXTENDS MMU, SequenceTheorems, FiniteSetTheorems, WellFoundedInduction, TLAPS

-----------------------------------------------------------------------------
(* Lemmas about walks over a list.                                         *)

LEMMA MinInSet ==
    ASSUME NEW S, S \subseteq Nat, S # {}
    PROVE  Min(S) \in S /\ \A k \in S : Min(S) <= k
<1>1. PICK m \in S : \A j \in S : ~ (<<j, m>> \in OpToRel(<, Nat))
  BY NatLessThanWellFounded, WFMin
<1>2. m \in S /\ \A j \in S : ~ (j < m)
  BY <1>1 DEF OpToRel
<1>3. \A j \in S : m <= j
  BY <1>2
<1> QED
  BY <1>2, <1>3 DEF Min

\* A recursive definition over the numbers up to n has the function it
\* describes: each step follows from the one before.
LEMMA IteratesDef ==
    ASSUME NEW n \in Nat, NEW step, NEW x
    PROVE  Iterates(step, x, n) =
               [k \in 0 .. n |-> IF k = 0 THEN x ELSE step[Iterates(step, x, n)[k - 1]]]
<1> DEFINE Is(f, m) == f = [k \in 0 .. m |-> IF k = 0 THEN x ELSE step[f[k - 1]]]
           Gaps == {m \in Nat : ~ \E f : Is(f, m)}
<1>1. \E f : Is(f, n)
  <2> SUFFICES ASSUME Gaps # {} PROVE FALSE
    OBVIOUS
  <2>1. PICK m \in Gaps : \A j \in Gaps : m <= j
    BY MinInSet
  <2>2. m # 0
    <3>1. Is([k \in 0 .. 0 |-> x], 0)
      OBVIOUS
    <3> QED
      BY <3>1
  <2>3. PICK f : Is(f, m - 1)
    BY <2>1, <2>2
  <2> DEFINE g == [k \in 0 .. m |-> IF k = m THEN step[f[m - 1]] ELSE f[k]]
  <2>4. \A k \in 0 .. m : g[k] = IF k = 0 THEN x ELSE step[g[k - 1]]
    <3>1. m \in Nat /\ m - 1 \in Nat
      BY <2>1, <2>2
    <3>2. \A k \in 0 .. m - 1 : f[k] = IF k = 0 THEN x ELSE step[f[k - 1]]
      BY <2>3
    <3>3. \A k \in 0 .. m - 1 : g[k] = f[k] /\ (k # 0 => g[k - 1] = f[k - 1])
      BY <3>1
    <3>4. g[m] = step[f[m - 1]] /\ g[m - 1] = f[m - 1]
      BY <3>1
    <3> HIDE DEF g
    <3> QED
      BY <2>2, <3>1, <3>2, <3>3, <3>4
  <2>5. Is(g, m)
    BY <2>4
  <2> QED
    BY <2>1, <2>5
<1>2. Is(Iterates(step, x, n), n)
  BY <1>1 DEF Iterates
<1> QED
  BY <1>2

\* A walk over a finite list moves on at every node and stays where it leaves it.
LEMMA TrailSteps ==
    ASSUME NEW node, IsFiniteSet(DOMAIN node), NEW head
    PROVE  LET At == Trail(head, node)
               n == Cardinality(DOMAIN node)
           IN  /\ n \in Nat
               /\ DOMAIN At = 0 .. n
               /\ At[0] = head
               /\ \A k \in 1 .. n : At[k - 1] \in DOMAIN node => At[k] = node[At[k - 1]].next
<1> DEFINE n == Cardinality(DOMAIN node)
           pointers == {head} \cup DOMAIN node \cup {node[x].next : x \in DOMAIN node}
           next == [p \in pointers |-> IF p \in DOMAIN node THEN node[p].next ELSE p]
           At == Iterates(next, head, n)
<1>1. n \in Nat
  BY FS_CardinalityType
<1>2. At = [k \in 0 .. n |-> IF k = 0 THEN head ELSE next[At[k - 1]]]
  <2> HIDE DEF n, next
  <2> QED
    BY <1>1, IteratesDef
<1>3. \A p \in DOMAIN node : next[p] = node[p].next
  OBVIOUS
<1>4. Trail(head, node) = At
  BY DEF Trail
<1> HIDE DEF At, next, n
<1>5. /\ DOMAIN At = 0 .. n /\ At[0] = head
      /\ \A k \in 1 .. n : At[k - 1] \in DOMAIN node => At[k] = node[At[k - 1]].next
  BY <1>1, <1>2, <1>3
<1> QED
  BY <1>1, <1>4, <1>5 DEF n

\* A search that ends at a node ends at one it was looking for.
LEMMA FindIn ==
    ASSUME NEW node, IsFiniteSet(DOMAIN node), NEW head, NEW P,
           Find(head, node, P) \in DOMAIN node, Nowhere \notin DOMAIN node
    PROVE  Find(head, node, P) \in P
<1> DEFINE At == Trail(head, node)
           stops == {k \in DOMAIN At : At[k] \in DOMAIN node => At[k] \in P}
<1>1. stops # {} /\ Find(head, node, P) = At[Min(stops)]
  BY DEF Find
<1>2. stops \subseteq Nat
  BY TrailSteps
<1>3. Min(stops) \in stops
  BY <1>1, <1>2, MinInSet
<1> QED
  BY <1>1, <1>3

\* A walk that runs off the end of a list has passed nodes, and each only once:
\* from a node it meets twice it would never get to the end.
LEMMA ChainOnce ==
    ASSUME NEW node, IsFiniteSet(DOMAIN node), NEW head, Ends(head, node), Null \notin DOMAIN node
    PROVE  LET c == Chain(head, node)
           IN  /\ c \in Seq(DOMAIN node)
               /\ \A i, j \in 1 .. Len(c) : c[i] = c[j] => i = j
<1> DEFINE At == Trail(head, node)
           n == Cardinality(DOMAIN node)
           stops == {k \in DOMAIN At : At[k] \notin DOMAIN node}
           last == Min(stops)
<1>1. /\ n \in Nat /\ DOMAIN At = 0 .. n
      /\ \A k \in 1 .. n : At[k - 1] \in DOMAIN node => At[k] = node[At[k - 1]].next
  BY TrailSteps
<1>2. stops # {}
  <2>1. stops = {k \in DOMAIN At : At[k] \in DOMAIN node => At[k] \in {}}
    OBVIOUS
  <2>2. Nowhere # Null
    BY DEF Nowhere, Null
  <2> QED
    BY <2>1, <2>2 DEF Ends, Find
<1>3. /\ last \in Nat /\ last <= n /\ At[last] \notin DOMAIN node
      /\ \A k \in Nat : k < last => At[k] \in DOMAIN node
  <2>1. stops \subseteq Nat
    BY <1>1
  <2>2. last \in stops /\ \A k \in stops : last <= k
    BY <1>2, <2>1, MinInSet
  <2> HIDE DEF last
  <2>3. last \in 0 .. n /\ At[last] \notin DOMAIN node
    BY <1>1, <2>2
  <2>4. ASSUME NEW k \in Nat, k < last PROVE At[k] \in DOMAIN node
    BY <1>1, <2>2, <2>3, <2>4
  <2> QED
    BY <1>1, <2>3, <2>4
<1>4. Chain(head, node) = [i \in 1 .. last |-> At[i - 1]]
  BY <1>2 DEF Chain
<1> HIDE DEF At, n, last
<1>5. \A i \in 1 .. last : At[i - 1] \in DOMAIN node
  BY <1>3
<1>6. \A i, j \in Nat : i < j /\ j < last => At[i] # At[j]
  <2> SUFFICES ASSUME NEW i \in Nat, NEW j \in Nat, i < j, j < last, At[i] = At[j]
               PROVE  FALSE
    OBVIOUS
  <2> DEFINE apart == {d \in Nat : j + d <= last /\ At[i + d] # At[j + d]}
  <2>1. last - j \in apart
    <3>1. i + (last - j) \in Nat /\ i + (last - j) < last /\ j + (last - j) = last
      BY <1>3
    <3> QED
      BY <1>3, <3>1
  <2>2. PICK d \in apart : \A e \in apart : d <= e
    BY <2>1, MinInSet
  <2>3. d \in Nat /\ d - 1 \in Nat
    BY <2>2
  <2>4. At[i + (d - 1)] = At[j + (d - 1)]
    BY <1>3, <2>2, <2>3
  <2>5. /\ i + d \in 1 .. n /\ j + d \in 1 .. n
        /\ (i + d) - 1 = i + (d - 1) /\ (j + d) - 1 = j + (d - 1)
        /\ i + (d - 1) \in Nat /\ j + (d - 1) \in Nat
        /\ i + (d - 1) < last /\ j + (d - 1) < last
    BY <1>1, <1>3, <2>2, <2>3
  <2>6. At[i + d] = node[At[i + (d - 1)]].next /\ At[j + d] = node[At[j + (d - 1)]].next
    BY <1>1, <1>3, <2>5
  <2> QED
    BY <2>2, <2>4, <2>6
<1>7. Chain(head, node) \in Seq(DOMAIN node) /\ Len(Chain(head, node)) = last
  BY <1>3, <1>4, <1>5
<1>8. ASSUME NEW i \in 1 .. last, NEW j \in 1 .. last, At[i - 1] = At[j - 1]
      PROVE  i = j
  <2>1. i - 1 \in Nat /\ j - 1 \in Nat /\ i - 1 < last /\ j - 1 < last
    BY <1>3
  <2>2. ~ (i - 1 < j - 1) /\ ~ (j - 1 < i - 1)
    BY <1>6, <1>8, <2>1
  <2> QED
    BY <1>3, <2>1, <2>2
<1> QED
  BY <1>4, <1>7, <1>8

-----------------------------------------------------------------------------
(* Lemmas about the two lists.                                             *)

\* A list of segments, and a list of holes, by their types.
SegList(sl) ==
    /\ sl = [node |-> sl.node, var_head |-> sl.var_head, var_tail |-> sl.var_tail,
             arr_head |-> sl.arr_head, arr_tail |-> sl.arr_tail, ok |-> sl.ok]
    /\ sl.node \in [DOMAIN sl.node -> SegRecord]
    /\ sl.var_head \in Int /\ sl.var_tail \in Int /\ sl.arr_head \in Int /\ sl.arr_tail \in Int
    /\ sl.ok \in BOOLEAN

HoleRecord == [prev : Int, next : Int, base : Nat, size : Nat]

HoleListType(hs) ==
    /\ hs = [node |-> hs.node, head |-> hs.head, tail |-> hs.tail, ok |-> hs.ok]
    /\ IsFiniteSet(DOMAIN hs.node) /\ DOMAIN hs.node \subseteq Nat
    /\ hs.node \in [DOMAIN hs.node -> HoleRecord]
    /\ hs.head \in Int /\ hs.tail \in Int /\ hs.ok \in BOOLEAN

\* The pointers of a segment may change; these stay what they are.
Contents(r) == <<r.base, r.size, r.var, r.type, r.bitmap, r.onStack>>

LEMMA NullInt == Null \in Int /\ Nowhere \in Int /\ Null \notin Nat /\ Nowhere \notin Nat
  BY DEF Null, Nowhere

LEMMA SegLinks ==
    ASSUME NEW D, NEW node \in [D -> SegRecord], NEW p, NEW q \in Int
    PROVE  /\ SetNext(node, p, q) \in [D -> SegRecord]
           /\ SetPrev(node, p, q) \in [D -> SegRecord]
           /\ \A x \in D : /\ Contents(SetNext(node, p, q)[x]) = Contents(node[x])
                           /\ SetNext(node, p, q)[x].mark = node[x].mark
                           /\ Contents(SetPrev(node, p, q)[x]) = Contents(node[x])
                           /\ SetPrev(node, p, q)[x].mark = node[x].mark
  BY DEF SetNext, SetPrev, SegRecord, Contents

LEMMA HoleLinks ==
    ASSUME NEW D, NEW node \in [D -> HoleRecord], NEW p, NEW q \in Int
    PROVE  /\ SetNext(node, p, q) \in [D -> HoleRecord]
           /\ SetPrev(node, p, q) \in [D -> HoleRecord]
  BY DEF SetNext, SetPrev, HoleRecord

\* A segment that leaves the list leaves the others as they are.
LEMMA UnlinkSegs ==
    ASSUME NEW sl, SegList(sl), NEW s \in DOMAIN sl.node
    PROVE  /\ SegList(unlink(sl, s))
           /\ DOMAIN unlink(sl, s).node = DOMAIN sl.node \ {s}
           /\ \A x \in DOMAIN sl.node \ {s} :
                  /\ Contents(unlink(sl, s).node[x]) = Contents(sl.node[x])
                  /\ unlink(sl, s).node[x].mark = sl.node[x].mark
<1> DEFINE D == DOMAIN sl.node
           n == sl.node[s]
           one == SetPrev(sl.node, n.next, n.prev)
           two == SetNext(one, n.prev, n.next)
<1>1. n \in SegRecord /\ n.next \in Int /\ n.prev \in Int
  BY DEF SegList, SegRecord
<1>2. one \in [D -> SegRecord] /\ \A x \in D : Contents(one[x]) = Contents(sl.node[x]) /\ one[x].mark = sl.node[x].mark
  BY <1>1, SegLinks DEF SegList
<1>3. two \in [D -> SegRecord] /\ \A x \in D : Contents(two[x]) = Contents(one[x]) /\ two[x].mark = one[x].mark
  <2> HIDE DEF one, n, D
  <2> QED
    BY <1>1, <1>2, SegLinks
<1>4. unlink(sl, s).node = Without(two, s)
  BY DEF unlink
<1>5. /\ Without(two, s) \in [D \ {s} -> SegRecord]
      /\ \A x \in D \ {s} : Without(two, s)[x] = two[x]
  <2> HIDE DEF two, D
  <2> QED
    BY <1>3 DEF Without
<1>6. SegList(unlink(sl, s))
  <2> HIDE DEF two, one
  <2>1. unlink(sl, s).node \in [DOMAIN unlink(sl, s).node -> SegRecord]
    BY <1>4, <1>5
  <2> QED
    BY <1>1, <2>1 DEF unlink, SegList
<1> HIDE DEF two, one, n
<1> QED
  BY <1>2, <1>3, <1>4, <1>5, <1>6

\* A node is added to a list.
LEMMA AddNode ==
    ASSUME NEW D, NEW R, NEW f \in [D -> R], NEW h, NEW r \in R
    PROVE  /\ With(f, h, r) \in [D \cup {h} -> R]
           /\ DOMAIN With(f, h, r) = D \cup {h}
           /\ With(f, h, r)[h] = r
           /\ \A x \in D \ {h} : With(f, h, r)[x] = f[x]
  BY DEF With

LEMMA DeleteHoleType ==
    ASSUME NEW hs, HoleListType(hs), NEW h \in DOMAIN hs.node
    PROVE  HoleListType(delete_hole(hs, h)) /\ DOMAIN delete_hole(hs, h).node = DOMAIN hs.node \ {h}
<1> DEFINE D == DOMAIN hs.node
           n == hs.node[h]
           one == SetPrev(hs.node, n.next, n.prev)
           two == SetNext(one, n.prev, n.next)
<1>1. n.next \in Int /\ n.prev \in Int
  BY DEF HoleListType, HoleRecord
<1>2. one \in [D -> HoleRecord]
  BY <1>1, HoleLinks DEF HoleListType
<1>3. two \in [D -> HoleRecord]
  <2> HIDE DEF one, n, D
  <2> QED
    BY <1>1, <1>2, HoleLinks
<1>4. Without(two, h) \in [D \ {h} -> HoleRecord]
  <2> HIDE DEF two, D
  <2> QED
    BY <1>3 DEF Without
<1>5. IsFiniteSet(D \ {h}) /\ D \ {h} \subseteq Nat
  BY FS_RemoveElement DEF HoleListType
<1> HIDE DEF two, one
<1>6. delete_hole(hs, h).node = Without(two, h)
  BY DEF delete_hole, two, one
<1>7. DOMAIN delete_hole(hs, h).node = D \ {h}
  BY <1>4, <1>6
<1>8. (hs.ok /\ NullOrNode(hs.node, n.next) /\ NullOrNode(hs.node, n.prev)) \in BOOLEAN
  BY DEF NullOrNode
<1> QED
  BY <1>1, <1>4, <1>5, <1>6, <1>7, <1>8 DEF delete_hole, HoleListType

\* The holes get other nodes, of the same type.
LEMMA OtherNodes ==
    ASSUME NEW hs, HoleListType(hs), NEW D, IsFiniteSet(D), D \subseteq Nat,
           NEW node \in [D -> HoleRecord], NEW head \in Int, NEW tail \in Int
    PROVE  /\ HoleListType([hs EXCEPT !.node = node]) /\ [hs EXCEPT !.node = node].node = node
           /\ HoleListType([hs EXCEPT !.node = node, !.head = head])
           /\ HoleListType([hs EXCEPT !.node = node, !.tail = tail])
           /\ HoleListType([hs EXCEPT !.node = node, !.head = head, !.tail = tail])
           /\ HoleListType([hs EXCEPT !.ok = FALSE])
<1>1. \A hd \in Int, tl \in Int, k \in BOOLEAN :
          HoleListType([node |-> node, head |-> hd, tail |-> tl, ok |-> k])
  BY DEF HoleListType
<1>2. /\ hs = [node |-> hs.node, head |-> hs.head, tail |-> hs.tail, ok |-> hs.ok]
      /\ hs.head \in Int /\ hs.tail \in Int /\ hs.ok \in BOOLEAN
  BY DEF HoleListType
<1>3. /\ [hs EXCEPT !.node = node] = [node |-> node, head |-> hs.head, tail |-> hs.tail, ok |-> hs.ok]
      /\ [hs EXCEPT !.node = node, !.head = head]
             = [node |-> node, head |-> head, tail |-> hs.tail, ok |-> hs.ok]
      /\ [hs EXCEPT !.node = node, !.tail = tail]
             = [node |-> node, head |-> hs.head, tail |-> tail, ok |-> hs.ok]
      /\ [hs EXCEPT !.node = node, !.head = head, !.tail = tail]
             = [node |-> node, head |-> head, tail |-> tail, ok |-> hs.ok]
      /\ [hs EXCEPT !.ok = FALSE] = [node |-> hs.node, head |-> hs.head, tail |-> hs.tail, ok |-> FALSE]
  <2> DEFINE a == hs.node  b == hs.head  c == hs.tail  d == hs.ok  ok == FALSE
  <2>1. hs = [node |-> a, head |-> b, tail |-> c, ok |-> d]
    BY <1>2
  <2> HIDE DEF a, b, c, d, ok
  <2>2. [hs EXCEPT !.node = node] = [node |-> node, head |-> b, tail |-> c, ok |-> d]
    BY <2>1
  <2>3. [[hs EXCEPT !.node = node] EXCEPT !.head = head] = [node |-> node, head |-> head, tail |-> c, ok |-> d]
    <3>1. [[node |-> node, head |-> b, tail |-> c, ok |-> d] EXCEPT !.head = head]
              = [node |-> node, head |-> head, tail |-> c, ok |-> d]
      OBVIOUS
    <3> QED
      BY <2>2, <3>1
  <2>4. [[hs EXCEPT !.node = node] EXCEPT !.tail = tail] = [node |-> node, head |-> b, tail |-> tail, ok |-> d]
    <3>1. [[node |-> node, head |-> b, tail |-> c, ok |-> d] EXCEPT !.tail = tail]
              = [node |-> node, head |-> b, tail |-> tail, ok |-> d]
      OBVIOUS
    <3> QED
      BY <2>2, <3>1
  <2>5. [[[hs EXCEPT !.node = node] EXCEPT !.head = head] EXCEPT !.tail = tail]
            = [node |-> node, head |-> head, tail |-> tail, ok |-> d]
    <3>1. [[node |-> node, head |-> head, tail |-> c, ok |-> d] EXCEPT !.tail = tail]
              = [node |-> node, head |-> head, tail |-> tail, ok |-> d]
      OBVIOUS
    <3> QED
      BY <2>3, <3>1
  <2>6. [hs EXCEPT !.ok = ok] = [node |-> a, head |-> b, tail |-> c, ok |-> ok]
    BY <2>1
  <2>7. /\ [hs EXCEPT !.node = node, !.head = head] = [[hs EXCEPT !.node = node] EXCEPT !.head = head]
        /\ [hs EXCEPT !.node = node, !.tail = tail] = [[hs EXCEPT !.node = node] EXCEPT !.tail = tail]
        /\ [hs EXCEPT !.node = node, !.head = head, !.tail = tail]
               = [[[hs EXCEPT !.node = node] EXCEPT !.head = head] EXCEPT !.tail = tail]
    OBVIOUS
  <2> QED
    BY <2>2, <2>3, <2>4, <2>5, <2>6, <2>7 DEF a, b, c, d, ok
<1>4. HoleListType([node |-> hs.node, head |-> hs.head, tail |-> hs.tail, ok |-> FALSE])
  BY DEF HoleListType
<1>5. [hs EXCEPT !.node = node].node = node
  BY <1>2
<1> QED
  BY <1>1, <1>2, <1>3, <1>4, <1>5

LEMMA HolesBroken ==
    ASSUME NEW hs, HoleListType(hs)
    PROVE  HoleListType([hs EXCEPT !.ok = FALSE])
<1> DEFINE D == DOMAIN hs.node  node == hs.node  head == hs.head  tail == hs.tail
<1>1. /\ IsFiniteSet(D) /\ D \subseteq Nat /\ node \in [D -> HoleRecord]
      /\ head \in Int /\ tail \in Int
  BY DEF HoleListType
<1> HIDE DEF D, node, head, tail
<1> QED
  BY <1>1, OtherNodes

\* Only the words of one hole change.
LEMMA WordsType ==
    ASSUME NEW hs, HoleListType(hs), NEW h \in DOMAIN hs.node, NEW b \in Nat, NEW n \in Nat
    PROVE  LET new == [hs EXCEPT !.node = SetWords(@, h, b, n)]
           IN  HoleListType(new) /\ DOMAIN new.node = DOMAIN hs.node
<1> DEFINE node == SetWords(hs.node, h, b, n)
           D == DOMAIN hs.node
<1>1. hs.node \in [D -> HoleRecord] /\ IsFiniteSet(D) /\ D \subseteq Nat
  BY DEF HoleListType
<1>2. node \in [D -> HoleRecord]
  BY <1>1 DEF SetWords, HoleRecord
<1> HIDE DEF node, D
<1>3. HoleListType([hs EXCEPT !.node = node]) /\ [hs EXCEPT !.node = node].node = node
  BY <1>1, <1>2, OtherNodes, NullInt
<1> QED
  BY <1>2, <1>3 DEF node, D

LEMMA GrownType ==
    ASSUME NEW hs, HoleListType(hs), NEW h \in DOMAIN hs.node, NEW n \in Nat
    PROVE  HoleListType(Grown(hs, h, n)) /\ DOMAIN Grown(hs, h, n).node = DOMAIN hs.node
<1>1. hs.node[h].base \in Nat /\ hs.node[h].size + n \in Nat
  BY DEF HoleListType, HoleRecord
<1> QED
  BY <1>1, WordsType DEF Grown

LEMMA CarveType ==
    ASSUME NEW hs, HoleListType(hs), NEW h \in DOMAIN hs.node, NEW n \in Nat, n <= hs.node[h].size
    PROVE  HoleListType(Carve(hs, h, n))
<1> DEFINE r == hs.node[h]
           shrunk == [hs EXCEPT !.node = SetWords(@, h, r.base + n, r.size - n)]
<1>1. r.base + n \in Nat /\ r.size - n \in Nat
  BY DEF HoleListType, HoleRecord
<1>2. HoleListType(shrunk) /\ DOMAIN shrunk.node = DOMAIN hs.node
  BY <1>1, WordsType
<1>3. Carve(hs, h, n) = IF shrunk.node[h].size = 0 THEN delete_hole(shrunk, h) ELSE shrunk
  BY DEF Carve
<1> HIDE DEF shrunk
<1>4. HoleListType(delete_hole(shrunk, h))
  BY <1>2, DeleteHoleType
<1> QED
  BY <1>2, <1>3, <1>4

\* The addresses a finite list holds leave a new one.
LEMMA NewHoleType ==
    ASSUME NEW hs, HoleListType(hs)
    PROVE  NewHole(hs) \in Nat /\ NewHole(hs) \notin DOMAIN hs.node
<1> DEFINE D == DOMAIN hs.node
           nexts == {hs.node[x].next : x \in D}
           prevs == {hs.node[x].prev : x \in D}
           held == {hs.head, hs.tail} \cup D \cup nexts \cup prevs
           free == (1 .. Cardinality(held) + 1) \ held
<1>1. IsFiniteSet(D)
  BY DEF HoleListType
<1>2. IsFiniteSet(nexts)
  <2>1. [x \in D |-> hs.node[x].next] \in Surjection(D, nexts)
    BY DEF Surjection
  <2> QED
    BY <1>1, <2>1, FS_Surjection
<1>3. IsFiniteSet(prevs)
  <2>1. [x \in D |-> hs.node[x].prev] \in Surjection(D, prevs)
    BY DEF Surjection
  <2> QED
    BY <1>1, <2>1, FS_Surjection
<1>4. IsFiniteSet({hs.head, hs.tail})
  <2>1. IsFiniteSet({hs.head}) /\ {hs.head, hs.tail} = {hs.head} \cup {hs.tail}
    BY FS_Singleton
  <2> QED
    BY <2>1, FS_AddElement
<1> HIDE DEF nexts, prevs
<1>5. IsFiniteSet(held)
  <2>1. IsFiniteSet({hs.head, hs.tail} \cup D)
    BY <1>1, <1>4, FS_Union
  <2>2. IsFiniteSet({hs.head, hs.tail} \cup D \cup nexts)
    BY <1>2, <2>1, FS_Union
  <2> QED
    BY <1>3, <2>2, FS_Union
<1> HIDE DEF held
<1>6. free # {}
  <2> DEFINE c == Cardinality(held)
  <2>1. c \in Nat
    BY <1>5, FS_CardinalityType
  <2> SUFFICES ASSUME 1 .. c + 1 \subseteq held PROVE FALSE
    OBVIOUS
  <2>2. Cardinality(1 .. c + 1) <= c
    BY <1>5, FS_Subset
  <2>3. Cardinality(1 .. c + 1) = c + 1
    <3> HIDE DEF c
    <3>1. 1 \in Int /\ c + 1 \in Int /\ ~ (1 > c + 1) /\ (c + 1) - 1 + 1 = c + 1
      BY <2>1
    <3> QED
      BY <3>1, FS_Interval
  <2> QED
    BY <2>1, <2>2, <2>3
<1>7. free \subseteq Nat
  BY <1>5, FS_CardinalityType
<1>8. Min(free) \in free
  BY <1>6, <1>7, MinInSet
<1>9. NewHole(hs) = Min(free)
  BY DEF NewHole, free, held, nexts, prevs
<1> QED
  BY <1>7, <1>8, <1>9 DEF held

LEMMA OneHoleType ==
    ASSUME NEW n \in Nat
    PROVE  HoleListType(OneHole(n))
<1> DEFINE r == [prev |-> Null, next |-> Null, base |-> 0, size |-> n]
           node == With(<<>>, 1, r)
<1>1. r \in HoleRecord
  BY NullInt DEF HoleRecord
<1>2. node = [x \in {1} |-> r]
  BY DEF With
<1>3. node \in [DOMAIN node -> HoleRecord] /\ DOMAIN node = {1}
  BY <1>1, <1>2
<1>4. IsFiniteSet({1})
  BY FS_Singleton
<1> HIDE DEF node
<1> QED
  BY <1>3, <1>4 DEF OneHole, HoleListType, node

LEMMA AppendHoleType ==
    ASSUME NEW hs, HoleListType(hs), NEW h \in Nat \ DOMAIN hs.node, NEW b \in Nat, NEW n \in Nat
    PROVE  HoleListType(AppendHole(hs, h, b, n))
<1> DEFINE new == [prev |-> hs.tail, next |-> Null, base |-> b, size |-> n]
           D == DOMAIN hs.node
           linked == SetNext(hs.node, hs.tail, h)
<1>1. /\ hs.node \in [D -> HoleRecord] /\ IsFiniteSet(D) /\ D \subseteq Nat
      /\ hs.head \in Int /\ hs.tail \in Int /\ h \in Int /\ new \in HoleRecord
  BY NullInt DEF HoleListType, HoleRecord
<1>2. linked \in [D -> HoleRecord]
  BY <1>1, HoleLinks
<1>3. IsFiniteSet(D \cup {h}) /\ D \cup {h} \subseteq Nat
  BY <1>1, FS_AddElement
<1>4. /\ With(hs.node, h, new) \in [D \cup {h} -> HoleRecord]
      /\ With(linked, h, new) \in [D \cup {h} -> HoleRecord]
  <2> HIDE DEF linked, new, D
  <2> QED
    BY <1>1, <1>2, AddNode
<1>5. /\ HoleListType([hs EXCEPT !.node = With(hs.node, h, new), !.head = h, !.tail = h])
      /\ HoleListType([hs EXCEPT !.node = With(linked, h, new), !.tail = h])
      /\ HoleListType([hs EXCEPT !.ok = FALSE])
  <2> HIDE DEF linked, new, D
  <2> QED
    BY <1>1, <1>3, <1>4, OtherNodes
<1>6. hs.tail \in D => HoleListType(Grown(hs, hs.tail, n))
  BY GrownType
<1> QED
  BY <1>5, <1>6 DEF AppendHole

LEMMA PrependHoleType ==
    ASSUME NEW hs, HoleListType(hs), NEW h \in Nat \ DOMAIN hs.node, NEW b \in Nat, NEW n \in Nat,
           NEW loc \in DOMAIN hs.node
    PROVE  HoleListType(PrependHole(hs, h, b, n, loc))
<1> DEFINE new == [prev |-> Null, next |-> loc, base |-> b, size |-> n]
           D == DOMAIN hs.node
           linked == SetPrev(hs.node, loc, h)
<1>1. /\ hs.node \in [D -> HoleRecord] /\ IsFiniteSet(D) /\ D \subseteq Nat
      /\ h \in Int /\ new \in HoleRecord /\ hs.node[loc].size + n \in Nat
  BY NullInt DEF HoleListType, HoleRecord
<1>2. linked \in [D -> HoleRecord]
  BY <1>1, HoleLinks
<1>3. IsFiniteSet(D \cup {h}) /\ D \cup {h} \subseteq Nat
  BY <1>1, FS_AddElement
<1>4. With(linked, h, new) \in [D \cup {h} -> HoleRecord]
  <2> HIDE DEF linked, new, D
  <2> QED
    BY <1>1, <1>2, AddNode
<1>5. HoleListType([hs EXCEPT !.node = With(linked, h, new), !.head = h])
  <2> HIDE DEF linked, new, D
  <2> QED
    BY <1>1, <1>3, <1>4, OtherNodes
<1>6. HoleListType([hs EXCEPT !.node = SetWords(@, loc, b, hs.node[loc].size + n)])
  BY <1>1, WordsType
<1> QED
  BY <1>5, <1>6 DEF PrependHole

\* A hole linked in between two others is between the one before it and loc.
LEMMA LinkBetweenType ==
    ASSUME NEW hs, HoleListType(hs), NEW h \in Nat \ DOMAIN hs.node, NEW b \in Nat, NEW n \in Nat,
           NEW loc \in DOMAIN hs.node, hs.node[loc].prev \in DOMAIN hs.node
    PROVE  LET node == LinkBetween(hs.node, h, b, n, loc)
           IN  /\ node \in [DOMAIN hs.node \cup {h} -> HoleRecord]
               /\ node[loc].prev \in DOMAIN hs.node \cup {h}
<1> DEFINE D == DOMAIN hs.node
           E == D \cup {h}
           next == hs.node[hs.node[loc].prev].next
           new == [prev |-> Null, next |-> next, base |-> b, size |-> n]
           node0 == SetPrev(hs.node, next, h)
           node1 == With(node0, h, new)
           node2 == SetNext(node1, node1[loc].prev, h)
           node3 == SetPrev(node2, h, node2[loc].prev)
<1>1. /\ hs.node \in [D -> HoleRecord] /\ h \in Int /\ next \in Int
      /\ hs.node[loc].prev \in Int /\ new \in HoleRecord
  BY NullInt DEF HoleListType, HoleRecord
<1>2. node0 \in [D -> HoleRecord] /\ node0[loc].prev \in E
  <2>1. node0 \in [D -> HoleRecord]
    <3> HIDE DEF next
    <3> QED
      BY <1>1, HoleLinks
  <2>2. node0[loc] = IF loc = next THEN [hs.node[loc] EXCEPT !.prev = h] ELSE hs.node[loc]
    BY DEF SetPrev
  <2>3. [hs.node[loc] EXCEPT !.prev = h].prev = h
    BY <1>1 DEF HoleRecord
  <2> QED
    BY <2>1, <2>2, <2>3
<1> HIDE DEF node0, new
<1>3. node1 \in [E -> HoleRecord] /\ node1[loc] = node0[loc]
  <2>1. loc \in D \ {h}
    OBVIOUS
  <2> HIDE DEF D, next
  <2> QED
    BY <1>1, <1>2, <2>1 DEF With
<1> HIDE DEF node1
<1>4. node1[loc].prev \in Int
  BY <1>3 DEF HoleRecord
<1>5. node2 \in [E -> HoleRecord] /\ node2[loc].prev = node1[loc].prev
  <2>1. node2 \in [E -> HoleRecord]
    BY <1>1, <1>3, HoleLinks
  <2>2. node2[loc] = IF loc = node1[loc].prev THEN [node1[loc] EXCEPT !.next = h] ELSE node1[loc]
    BY <1>3 DEF SetNext
  <2> QED
    BY <1>3, <2>1, <2>2 DEF HoleRecord
<1> HIDE DEF node2
<1>6. node3 \in [E -> HoleRecord]
  BY <1>4, <1>5, HoleLinks
<1>7. node3[loc] = node2[loc]
  BY <1>5 DEF SetPrev
<1>8. LinkBetween(hs.node, h, b, n, loc) = node3
  BY DEF LinkBetween, node2, node1, node0, new
<1> HIDE DEF node3
<1> QED
  BY <1>2, <1>3, <1>5, <1>6, <1>7, <1>8

LEMMA InsertHoleBetweenType ==
    ASSUME NEW hs, HoleListType(hs), NEW h \in Nat \ DOMAIN hs.node, NEW b \in Nat, NEW n \in Nat,
           NEW loc \in DOMAIN hs.node
    PROVE  HoleListType(InsertHoleBetween(hs, h, b, n, loc))
<1> DEFINE D == DOMAIN hs.node
           p == hs.node[loc].prev
           linked == [hs EXCEPT !.node = LinkBetween(@, h, b, n, loc)]
           lp == linked.node[loc].prev
           left == linked.node[lp]
           touches == left.base + left.size = b
           joined == IF touches THEN delete_hole(Grown(linked, lp, n), h) ELSE linked
           h2 == IF touches THEN joined.node[loc].prev ELSE h
           right == joined.node[loc]
           last == delete_hole(Grown(joined, h2, right.size), loc)
<1>1. HoleListType([hs EXCEPT !.ok = FALSE])
  BY HolesBroken
<1>2. ASSUME p \in D /\ hs.node[p].next \in D
      PROVE  HoleListType(InsertHoleBetween(hs, h, b, n, loc))
  <2>1. /\ LinkBetween(hs.node, h, b, n, loc) \in [D \cup {h} -> HoleRecord]
        /\ LinkBetween(hs.node, h, b, n, loc)[loc].prev \in D \cup {h}
    BY <1>2, LinkBetweenType
  <2>2. IsFiniteSet(D \cup {h}) /\ D \cup {h} \subseteq Nat
    BY FS_AddElement DEF HoleListType
  <2>3. HoleListType(linked) /\ linked.node = LinkBetween(hs.node, h, b, n, loc)
    BY <2>1, <2>2, OtherNodes, NullInt
  <2> HIDE DEF linked
  <2>4. DOMAIN linked.node = D \cup {h} /\ lp \in DOMAIN linked.node
    BY <2>1, <2>3
  <2>5. HoleListType(Grown(linked, lp, n)) /\ DOMAIN Grown(linked, lp, n).node = D \cup {h}
    BY <2>3, <2>4, GrownType
  <2>6. /\ HoleListType(delete_hole(Grown(linked, lp, n), h))
        /\ DOMAIN delete_hole(Grown(linked, lp, n), h).node = D
    <3> DEFINE grown == Grown(linked, lp, n)
    <3>1. h \in DOMAIN grown.node /\ (D \cup {h}) \ {h} = D
      BY <2>5
    <3> HIDE DEF grown
    <3>2. HoleListType(delete_hole(grown, h)) /\ DOMAIN delete_hole(grown, h).node = DOMAIN grown.node \ {h}
      BY <2>5, <3>1, DeleteHoleType DEF grown
    <3> QED
      BY <2>5, <3>1, <3>2 DEF grown
  <2>7. HoleListType(joined) /\ loc \in DOMAIN joined.node
    BY <2>3, <2>4, <2>6
  <2> HIDE DEF joined, touches
  <2>8. HoleListType([joined EXCEPT !.ok = FALSE])
    BY <2>7, HolesBroken
  <2>9. ASSUME h2 \in DOMAIN joined.node PROVE HoleListType(last)
    <3>1. right.size \in Nat
      BY <2>7 DEF HoleListType, HoleRecord
    <3> HIDE DEF h2
    <3>2. /\ HoleListType(Grown(joined, h2, right.size))
          /\ DOMAIN Grown(joined, h2, right.size).node = DOMAIN joined.node
      BY <2>7, <2>9, <3>1, GrownType
    <3> QED
      BY <2>7, <3>2, DeleteHoleType
  <2>10. InsertHoleBetween(hs, h, b, n, loc)
             = IF h2 \notin DOMAIN joined.node THEN [joined EXCEPT !.ok = FALSE]
               ELSE IF joined.node[h2].base + joined.node[h2].size = right.base THEN last ELSE joined
    BY <1>2 DEF InsertHoleBetween, joined, touches, linked
  <2> HIDE DEF h2, right, last
  <2> QED
    BY <2>7, <2>8, <2>9, <2>10
<1> QED
  BY <1>1, <1>2 DEF InsertHoleBetween

LEMMA InsertHoleType ==
    ASSUME NEW hs, HoleListType(hs), NEW b \in Nat, NEW n \in Nat
    PROVE  HoleListType(InsertHole(hs, b, n))
<1> DEFINE loc == Find(hs.head, hs.node, {x \in DOMAIN hs.node : hs.node[x].base > b})
           h == NewHole(hs)
<1>1. h \in Nat \ DOMAIN hs.node
  BY NewHoleType
<1>2. HoleListType([hs EXCEPT !.ok = FALSE])
  BY HolesBroken
<1> HIDE DEF h, loc
<1>3. HoleListType(AppendHole(hs, h, b, n))
  BY <1>1, AppendHoleType
<1>4. loc \in DOMAIN hs.node => /\ HoleListType(PrependHole(hs, h, b, n, loc))
                                /\ HoleListType(InsertHoleBetween(hs, h, b, n, loc))
  BY <1>1, PrependHoleType, InsertHoleBetweenType
<1>5. InsertHole(hs, b, n) =
          IF ~ NullOrNode(hs.node, loc) THEN [hs EXCEPT !.ok = FALSE]
          ELSE IF loc = Null THEN AppendHole(hs, h, b, n)
          ELSE IF hs.node[loc].prev = Null THEN PrependHole(hs, h, b, n, loc)
          ELSE InsertHoleBetween(hs, h, b, n, loc)
  BY DEF InsertHole, loc, h
<1> QED
  BY <1>2, <1>3, <1>4, <1>5 DEF NullOrNode

\* The list of segments gets other nodes.
LEMMA OtherSegNodes ==
    ASSUME NEW sl, SegList(sl), NEW D, NEW node \in [D -> SegRecord]
    PROVE  SegList([sl EXCEPT !.node = node]) /\ [sl EXCEPT !.node = node].node = node
<1> DEFINE a == sl.node  b == sl.var_head  c == sl.var_tail  d == sl.arr_head  e == sl.arr_tail  f == sl.ok
<1>1. /\ sl = [node |-> a, var_head |-> b, var_tail |-> c, arr_head |-> d, arr_tail |-> e, ok |-> f]
      /\ b \in Int /\ c \in Int /\ d \in Int /\ e \in Int /\ f \in BOOLEAN
      /\ a \in [DOMAIN a -> SegRecord]
  BY DEF SegList
<1>2. \A n, h, t, i, j, o :
          /\ n \in [DOMAIN n -> SegRecord] /\ h \in Int /\ t \in Int /\ i \in Int /\ j \in Int /\ o \in BOOLEAN
          => SegList([node |-> n, var_head |-> h, var_tail |-> t, arr_head |-> i, arr_tail |-> j, ok |-> o])
  BY DEF SegList
<1>3. node \in [DOMAIN node -> SegRecord]
  OBVIOUS
<1> HIDE DEF a, b, c, d, e, f
<1>4. [sl EXCEPT !.node = node] = [node |-> node, var_head |-> b, var_tail |-> c, arr_head |-> d, arr_tail |-> e, ok |-> f]
  BY <1>1
<1> QED
  BY <1>1, <1>2, <1>3, <1>4

\* Or another pointer.
LEMMA OtherSegs ==
    ASSUME NEW sl, SegList(sl), NEW p \in Int, NEW k \in BOOLEAN
    PROVE  /\ SegList([sl EXCEPT !.var_head = p]) /\ [sl EXCEPT !.var_head = p].node = sl.node
           /\ SegList([sl EXCEPT !.var_tail = p]) /\ [sl EXCEPT !.var_tail = p].node = sl.node
           /\ SegList([sl EXCEPT !.arr_head = p]) /\ [sl EXCEPT !.arr_head = p].node = sl.node
           /\ SegList([sl EXCEPT !.arr_tail = p]) /\ [sl EXCEPT !.arr_tail = p].node = sl.node
           /\ SegList([sl EXCEPT !.ok = k]) /\ [sl EXCEPT !.ok = k].node = sl.node
<1> DEFINE a == sl.node  b == sl.var_head  c == sl.var_tail  d == sl.arr_head  e == sl.arr_tail  f == sl.ok
<1>1. /\ sl = [node |-> a, var_head |-> b, var_tail |-> c, arr_head |-> d, arr_tail |-> e, ok |-> f]
      /\ b \in Int /\ c \in Int /\ d \in Int /\ e \in Int /\ f \in BOOLEAN
      /\ a \in [DOMAIN a -> SegRecord]
  BY DEF SegList
<1>2. \A n, h, t, i, j, o :
          /\ n \in [DOMAIN n -> SegRecord] /\ h \in Int /\ t \in Int /\ i \in Int /\ j \in Int /\ o \in BOOLEAN
          => SegList([node |-> n, var_head |-> h, var_tail |-> t, arr_head |-> i, arr_tail |-> j, ok |-> o])
  BY DEF SegList
<1> HIDE DEF a, b, c, d, e, f
<1>3. [sl EXCEPT !.var_head = p] = [node |-> a, var_head |-> p, var_tail |-> c, arr_head |-> d, arr_tail |-> e, ok |-> f]
  BY <1>1
<1>4. [sl EXCEPT !.var_tail = p] = [node |-> a, var_head |-> b, var_tail |-> p, arr_head |-> d, arr_tail |-> e, ok |-> f]
  BY <1>1
<1>5. [sl EXCEPT !.arr_head = p] = [node |-> a, var_head |-> b, var_tail |-> c, arr_head |-> p, arr_tail |-> e, ok |-> f]
  BY <1>1
<1>6. [sl EXCEPT !.arr_tail = p] = [node |-> a, var_head |-> b, var_tail |-> c, arr_head |-> d, arr_tail |-> p, ok |-> f]
  BY <1>1
<1>7. [sl EXCEPT !.ok = k] = [node |-> a, var_head |-> b, var_tail |-> c, arr_head |-> d, arr_tail |-> e, ok |-> k]
  BY <1>1
<1> QED
  BY <1>1, <1>2, <1>3, <1>4, <1>5, <1>6, <1>7 DEF a

\* A segment that joins the list leaves the others as they are.
LEMMA InsertSegs ==
    ASSUME NEW sl, SegList(sl), NEW n \in Nat \ DOMAIN sl.node, NEW new \in SegRecord
    PROVE  LET after == insert_after_segment(sl, n, new)
           IN  /\ SegList(after)
               /\ after.ok => /\ DOMAIN after.node = DOMAIN sl.node \cup {n}
                              /\ Contents(after.node[n]) = Contents(new)
                              /\ \A x \in DOMAIN sl.node : Contents(after.node[x]) = Contents(sl.node[x])
<1> DEFINE D == DOMAIN sl.node
           Fine(after) == /\ SegList(after)
                          /\ DOMAIN after.node = D \cup {n}
                          /\ Contents(after.node[n]) = Contents(new)
                          /\ \A x \in D : Contents(after.node[x]) = Contents(sl.node[x])
<1>1. /\ sl.node \in [D -> SegRecord] /\ n \in Int /\ n \notin D
      /\ sl.var_head \in Int /\ sl.var_tail \in Int /\ sl.arr_head \in Int /\ sl.arr_tail \in Int
      /\ \A t \in D : sl.node[t].next \in Int
  BY DEF SegList, SegRecord
<1>2. ASSUME NEW node \in [D -> SegRecord], NEW r \in SegRecord, Contents(r) = Contents(new),
             \A x \in D : Contents(node[x]) = Contents(sl.node[x])
      PROVE  Fine([sl EXCEPT !.node = With(node, n, r)])
  <2> DEFINE w == With(node, n, r)
  <2>1. /\ w \in [D \cup {n} -> SegRecord] /\ DOMAIN w = D \cup {n} /\ w[n] = r
        /\ \A x \in D : w[x] = node[x]
    BY <1>1 DEF With
  <2> HIDE DEF w, D
  <2>2. SegList([sl EXCEPT !.node = w]) /\ [sl EXCEPT !.node = w].node = w
    BY <2>1, OtherSegNodes
  <2> QED
    BY <1>2, <2>1, <2>2 DEF w
<1>3. ASSUME NEW s, Fine(s), NEW p \in Int, NEW k \in BOOLEAN
      PROVE  /\ Fine([s EXCEPT !.var_head = p]) /\ Fine([s EXCEPT !.var_tail = p])
             /\ Fine([s EXCEPT !.arr_head = p]) /\ Fine([s EXCEPT !.arr_tail = p])
             /\ Fine([s EXCEPT !.ok = k])
  <2>1. SegList(s)
    BY <1>3
  <2> HIDE DEF D
  <2>2. /\ SegList([s EXCEPT !.var_head = p]) /\ [s EXCEPT !.var_head = p].node = s.node
        /\ SegList([s EXCEPT !.var_tail = p]) /\ [s EXCEPT !.var_tail = p].node = s.node
        /\ SegList([s EXCEPT !.arr_head = p]) /\ [s EXCEPT !.arr_head = p].node = s.node
        /\ SegList([s EXCEPT !.arr_tail = p]) /\ [s EXCEPT !.arr_tail = p].node = s.node
        /\ SegList([s EXCEPT !.ok = k]) /\ [s EXCEPT !.ok = k].node = s.node
    BY <2>1, OtherSegs
  <2> QED
    BY <1>3, <2>2
<1> HIDE DEF Fine
<1>4. ASSUME NEW p \in Int, NEW q \in Int
      PROVE  /\ [new EXCEPT !.next = q] \in SegRecord
             /\ Contents([new EXCEPT !.next = q]) = Contents(new)
             /\ [new EXCEPT !.prev = p] \in SegRecord
             /\ Contents([new EXCEPT !.prev = p]) = Contents(new)
             /\ [new EXCEPT !.next = q, !.prev = p] \in SegRecord
             /\ Contents([new EXCEPT !.next = q, !.prev = p]) = Contents(new)
  BY DEF SegRecord, Contents
<1>5. SegList([sl EXCEPT !.ok = FALSE]) /\ ~ [sl EXCEPT !.ok = FALSE].ok
  <2>1. FALSE \in BOOLEAN /\ Null \in Int
    BY NullInt
  <2>2. SegList([sl EXCEPT !.ok = FALSE])
    BY <2>1, OtherSegs DEF SegList
  <2> QED
    BY <2>2 DEF SegList
<1>6. ASSUME NEW after, after = insert_variable(sl, n, new)
      PROVE  SegList(after) /\ (after.ok => Fine(after))
  <2> DEFINE t == sl.var_tail
             r1 == [new EXCEPT !.next = sl.arr_head]
             l1 == SetPrev(sl.node, sl.arr_head, n)
             s1 == [sl EXCEPT !.node = With(l1, n, r1)]
             k1 == NullOrNode(sl.node, sl.arr_head)
             r2 == [new EXCEPT !.next = sl.node[t].next, !.prev = t]
             l2 == SetPrev(sl.node, sl.node[t].next, n)
             s2 == [sl EXCEPT !.node = With(l2, n, r2)]
             k2 == NullOrNode(sl.node, sl.node[t].next)
  <2>1. /\ l1 \in [D -> SegRecord]
        /\ \A x \in D : Contents(l1[x]) = Contents(sl.node[x])
    <3> HIDE DEF D
    <3> QED
      BY <1>1, SegLinks
  <2>2. t \in D => /\ l2 \in [D -> SegRecord]
                   /\ \A x \in D : Contents(l2[x]) = Contents(sl.node[x])
    <3> HIDE DEF D
    <3> QED
      BY <1>1, SegLinks
  <2>3. r1 \in SegRecord /\ Contents(r1) = Contents(new)
    BY <1>1, <1>4
  <2>4. t \in D => r2 \in SegRecord /\ Contents(r2) = Contents(new)
    BY <1>1, <1>4
  <2>5. k1 \in BOOLEAN /\ k2 \in BOOLEAN
    BY DEF NullOrNode
  <2> HIDE DEF r1, l1, r2, l2, k1, k2
  <2>6. Fine(s1) /\ (t \in D => Fine(s2))
    BY <1>2, <2>1, <2>2, <2>3, <2>4
  <2> HIDE DEF s1, s2
  <2>7. Fine([[[s1 EXCEPT !.var_head = n] EXCEPT !.var_tail = n] EXCEPT !.ok = k1])
    BY <1>1, <1>3, <2>5, <2>6
  <2>8. t \in D => Fine([[s2 EXCEPT !.var_tail = n] EXCEPT !.ok = k2])
    BY <1>1, <1>3, <2>5, <2>6
  <2>9. after = IF sl.var_head = Null /\ t = Null
                THEN [[[s1 EXCEPT !.var_head = n] EXCEPT !.var_tail = n] EXCEPT !.ok = k1]
                ELSE IF t \notin D THEN [sl EXCEPT !.ok = FALSE]
                ELSE [[s2 EXCEPT !.var_tail = n] EXCEPT !.ok = k2]
    BY <1>6 DEF insert_variable, s1, s2, r1, l1, r2, l2, k1, k2
  <2> QED
    BY <1>5, <2>7, <2>8, <2>9 DEF Fine
<1>7. ASSUME NEW after, after = insert_array(sl, n, new)
      PROVE  Fine(after)
  <2> DEFINE t == IF sl.arr_head = Null THEN sl.var_tail ELSE sl.arr_tail
             r1 == [new EXCEPT !.prev = t]
             l1 == SetNext(sl.node, t, n)
             s1 == [sl EXCEPT !.node = With(l1, n, r1)]
             h == IF sl.arr_head = Null THEN n ELSE sl.arr_head
             k1 == t \in D \/ (t = Null /\ sl.arr_head = Null)
  <2>1. t \in Int /\ h \in Int
    BY <1>1
  <2>2. k1 \in BOOLEAN
    OBVIOUS
  <2>3. after = [sl EXCEPT !.node = With(l1, n, r1), !.arr_head = h, !.arr_tail = n, !.ok = k1]
    BY <1>7 DEF insert_array, SegList
  <2> HIDE DEF t, h, k1
  <2>4. /\ l1 \in [D -> SegRecord]
        /\ \A x \in D : Contents(l1[x]) = Contents(sl.node[x])
    <3> HIDE DEF D
    <3> QED
      BY <1>1, SegLinks
  <2>5. r1 \in SegRecord /\ Contents(r1) = Contents(new)
    BY <1>1, <1>4, <2>1
  <2> HIDE DEF r1, l1
  <2>6. Fine(s1)
    BY <1>2, <2>4, <2>5
  <2> HIDE DEF s1
  <2>7. Fine([[[s1 EXCEPT !.arr_head = h] EXCEPT !.arr_tail = n] EXCEPT !.ok = k1])
    BY <1>1, <1>3, <2>1, <2>2, <2>6
  <2>8. after = [[[s1 EXCEPT !.arr_head = h] EXCEPT !.arr_tail = n] EXCEPT !.ok = k1]
    BY <2>3 DEF s1
  <2> QED
    BY <2>7, <2>8
<1> QED
  BY <1>6, <1>7 DEF insert_after_segment, Fine

-----------------------------------------------------------------------------
(* Lemmas about a sweep.                                                   *)

\* What a sweep goes from one segment to the next with.
Lists(m) ==
    /\ m = [segs |-> m.segs, holes |-> m.holes]
    /\ SegList(m.segs)
    /\ HoleListType(m.holes)

LEMMA FreeSegment ==
    ASSUME NEW m, Lists(m), NEW s \in DOMAIN m.segs.node
    PROVE  LET after == free_segment(m, s)
           IN  /\ Lists(after)
               /\ DOMAIN after.segs.node = DOMAIN m.segs.node \ {s}
               /\ \A x \in DOMAIN after.segs.node :
                      /\ Contents(after.segs.node[x]) = Contents(m.segs.node[x])
                      /\ after.segs.node[x].mark = m.segs.node[x].mark
<1> DEFINE sl == unlink(m.segs, s)
           hs == InsertHole(m.holes, m.segs.node[s].base, m.segs.node[s].size)
<1>1. /\ SegList(sl) /\ DOMAIN sl.node = DOMAIN m.segs.node \ {s}
      /\ \A x \in DOMAIN m.segs.node \ {s} :
             /\ Contents(sl.node[x]) = Contents(m.segs.node[x])
             /\ sl.node[x].mark = m.segs.node[x].mark
  BY UnlinkSegs DEF Lists
<1>2. m.segs.node[s].base \in Nat /\ m.segs.node[s].size \in Nat
  BY DEF Lists, SegList, SegRecord
<1>3. HoleListType(hs)
  BY <1>2, InsertHoleType DEF Lists
<1>4. free_segment(m, s) = [segs |-> sl, holes |-> hs]
  BY DEF free_segment
<1> HIDE DEF sl, hs
<1> QED
  BY <1>1, <1>3, <1>4 DEF Lists

\* The mark of a segment changes, and nothing else.
LEMMA MarkCleared ==
    ASSUME NEW m, Lists(m), NEW s \in DOMAIN m.segs.node
    PROVE  LET after == [m EXCEPT !.segs.node[s].mark = FALSE]
           IN  /\ Lists(after)
               /\ DOMAIN after.segs.node = DOMAIN m.segs.node
               /\ \A x \in DOMAIN m.segs.node :
                      /\ Contents(after.segs.node[x]) = Contents(m.segs.node[x])
                      /\ x # s => after.segs.node[x].mark = m.segs.node[x].mark
<1> DEFINE r == [m.segs.node[s] EXCEPT !.mark = FALSE]
           node == [m.segs.node EXCEPT ![s] = r]
           sl == [m.segs EXCEPT !.node = node]
           after == [m EXCEPT !.segs = sl]
<1>1. /\ SegList(m.segs) /\ m.segs.node \in [DOMAIN m.segs.node -> SegRecord]
      /\ m = [segs |-> m.segs, holes |-> m.holes] /\ HoleListType(m.holes)
  BY DEF Lists, SegList
<1>2. r \in SegRecord /\ Contents(r) = Contents(m.segs.node[s])
  BY <1>1 DEF SegRecord, Contents
<1> HIDE DEF r
<1>3. /\ node \in [DOMAIN m.segs.node -> SegRecord]
      /\ \A x \in DOMAIN m.segs.node : /\ Contents(node[x]) = Contents(m.segs.node[x])
                                       /\ x # s => node[x] = m.segs.node[x]
  BY <1>1, <1>2
<1> HIDE DEF node
<1>4. SegList(sl) /\ sl.node = node
  BY <1>1, <1>3, OtherSegNodes
<1> HIDE DEF sl
<1>5. after = [segs |-> sl, holes |-> m.holes]
  <2> DEFINE a == m.segs  b == m.holes
  <2>1. m = [segs |-> a, holes |-> b]
    BY <1>1
  <2> HIDE DEF a, b
  <2>2. after = [segs |-> sl, holes |-> b]
    BY <2>1
  <2> QED
    BY <2>2 DEF b
<1>6. [m EXCEPT !.segs.node[s].mark = FALSE] = after
  BY DEF r, node, sl
<1> HIDE DEF after
<1>7. after.segs = sl /\ after.holes = m.holes
  BY <1>5
<1>8. Lists(after)
  BY <1>1, <1>4, <1>5, <1>7 DEF Lists
<1>9. DOMAIN after.segs.node = DOMAIN m.segs.node
  BY <1>3, <1>4, <1>7
<1>10. \A x \in DOMAIN m.segs.node :
           /\ Contents(after.segs.node[x]) = Contents(m.segs.node[x])
           /\ x # s => after.segs.node[x].mark = m.segs.node[x].mark
  BY <1>3, <1>4, <1>7
<1> QED
  BY <1>6, <1>8, <1>9, <1>10

\* A segment that is marked stays, one that is not is freed; of the others
\* nothing changes that matters.
LEMMA SweepOne ==
    ASSUME NEW m, Lists(m), NEW s \in DOMAIN m.segs.node
    PROVE  LET after == sweep_one(m, s)
           IN  /\ Lists(after)
               /\ DOMAIN after.segs.node \subseteq DOMAIN m.segs.node
               /\ \A x \in DOMAIN m.segs.node :
                      x # s \/ m.segs.node[s].mark => x \in DOMAIN after.segs.node
               /\ \A x \in DOMAIN after.segs.node :
                      /\ Contents(after.segs.node[x]) = Contents(m.segs.node[x])
                      /\ x # s => after.segs.node[x].mark = m.segs.node[x].mark
<1>1. CASE m.segs.node[s].mark
  <2> DEFINE after == [m EXCEPT !.segs.node[s].mark = FALSE]
  <2>1. sweep_one(m, s) = after
    BY <1>1 DEF sweep_one
  <2>2. /\ Lists(after)
        /\ DOMAIN after.segs.node = DOMAIN m.segs.node
        /\ \A x \in DOMAIN m.segs.node :
               /\ Contents(after.segs.node[x]) = Contents(m.segs.node[x])
               /\ x # s => after.segs.node[x].mark = m.segs.node[x].mark
    BY MarkCleared
  <2> HIDE DEF after
  <2> QED
    BY <2>1, <2>2
<1>2. CASE ~ m.segs.node[s].mark
  <2> DEFINE after == free_segment(m, s)
  <2>1. sweep_one(m, s) = after
    BY <1>2 DEF sweep_one
  <2>2. /\ Lists(after)
        /\ DOMAIN after.segs.node = DOMAIN m.segs.node \ {s}
        /\ \A x \in DOMAIN after.segs.node :
               /\ Contents(after.segs.node[x]) = Contents(m.segs.node[x])
               /\ after.segs.node[x].mark = m.segs.node[x].mark
    BY FreeSegment
  <2> HIDE DEF after
  <2> QED
    BY <1>2, <2>1, <2>2
<1> QED
  BY <1>1, <1>2

LEMMA SweptDef ==
    ASSUME NEW m, NEW c, Len(c) \in Nat
    PROVE  Swept(m, c) = [k \in 0 .. Len(c) |-> IF k = 0 THEN m ELSE sweep_one(Swept(m, c)[k - 1], c[k])]
<1> DEFINE Is(f, n) == f = [k \in 0 .. n |-> IF k = 0 THEN m ELSE sweep_one(f[k - 1], c[k])]
           Gaps == {n \in Nat : ~ \E f : Is(f, n)}
<1>1. \E f : Is(f, Len(c))
  <2> SUFFICES ASSUME Gaps # {} PROVE FALSE
    OBVIOUS
  <2>1. PICK n \in Gaps : \A j \in Gaps : n <= j
    BY MinInSet
  <2>2. n # 0
    <3>1. Is([k \in 0 .. 0 |-> m], 0)
      OBVIOUS
    <3> QED
      BY <3>1
  <2>3. PICK f : Is(f, n - 1)
    <3>1. n - 1 \in Nat /\ ~ (n <= n - 1)
      BY <2>1, <2>2
    <3>2. n - 1 \notin Gaps
      BY <2>1, <3>1
    <3> HIDE DEF Is
    <3> QED
      BY <3>1, <3>2
  <2> DEFINE g == [k \in 0 .. n |-> IF k = n THEN sweep_one(f[n - 1], c[n]) ELSE f[k]]
  <2>4. \A k \in 0 .. n : g[k] = IF k = 0 THEN m ELSE sweep_one(g[k - 1], c[k])
    <3>1. n \in Nat /\ n - 1 \in Nat
      BY <2>1, <2>2
    <3>2. \A k \in 0 .. n - 1 : f[k] = IF k = 0 THEN m ELSE sweep_one(f[k - 1], c[k])
      BY <2>3
    <3>3. \A k \in 0 .. n - 1 : g[k] = f[k] /\ (k # 0 => g[k - 1] = f[k - 1])
      BY <3>1
    <3>4. g[n] = sweep_one(f[n - 1], c[n]) /\ g[n - 1] = f[n - 1]
      BY <3>1
    <3> HIDE DEF g
    <3> QED
      BY <2>2, <3>1, <3>2, <3>3, <3>4
  <2>5. Is(g, n)
    BY <2>4
  <2> QED
    BY <2>1, <2>5
<1>2. Is(Swept(m, c), Len(c))
  BY <1>1 DEF Swept
<1> QED
  BY <1>2

\* A sweep that meets each segment at most once keeps, at every turn, those
\* that are marked and those it has not met yet, and of them everything but
\* pointers and marks.
LEMMA SweptSteps ==
    ASSUME NEW m, Lists(m), NEW c \in Seq(DOMAIN m.segs.node),
           \A i, j \in 1 .. Len(c) : c[i] = c[j] => i = j, NEW k \in 0 .. Len(c)
    PROVE  LET after == Swept(m, c)[k]
           IN  /\ Lists(after)
               /\ DOMAIN after.segs.node \subseteq DOMAIN m.segs.node
               /\ \A x \in DOMAIN m.segs.node : m.segs.node[x].mark => x \in DOMAIN after.segs.node
               /\ \A x \in DOMAIN after.segs.node :
                      Contents(after.segs.node[x]) = Contents(m.segs.node[x])
               /\ \A j \in k + 1 .. Len(c) : c[j] \in DOMAIN after.segs.node
<1> DEFINE D == DOMAIN m.segs.node
           After == Swept(m, c)
           Good(n) == /\ Lists(After[n])
                      /\ DOMAIN After[n].segs.node \subseteq D
                      /\ \A x \in D : m.segs.node[x].mark => x \in DOMAIN After[n].segs.node
                      /\ \A x \in DOMAIN After[n].segs.node :
                             Contents(After[n].segs.node[x]) = Contents(m.segs.node[x])
                      /\ \A j \in n + 1 .. Len(c) : /\ c[j] \in DOMAIN After[n].segs.node
                                                   /\ After[n].segs.node[c[j]].mark = m.segs.node[c[j]].mark
           Bad == {n \in 0 .. Len(c) : ~ Good(n)}
<1>1. Len(c) \in Nat /\ \A j \in 1 .. Len(c) : c[j] \in D
  OBVIOUS
<1>2. After[0] = m /\ \A n \in 1 .. Len(c) : After[n] = sweep_one(After[n - 1], c[n])
  BY <1>1, SweptDef
<1> HIDE DEF After
<1>3. Good(0)
  BY <1>1, <1>2
<1>4. ASSUME NEW n \in 1 .. Len(c), Good(n - 1)
      PROVE  Good(n)
  <2> DEFINE b == After[n - 1]
             a == After[n]
             s == c[n]
  <2>1. a = sweep_one(b, s)
    BY <1>2
  <2>2. /\ Lists(b) /\ DOMAIN b.segs.node \subseteq D
        /\ \A x \in D : m.segs.node[x].mark => x \in DOMAIN b.segs.node
        /\ \A x \in DOMAIN b.segs.node : Contents(b.segs.node[x]) = Contents(m.segs.node[x])
        /\ \A j \in n .. Len(c) : /\ c[j] \in DOMAIN b.segs.node
                                /\ b.segs.node[c[j]].mark = m.segs.node[c[j]].mark
    BY <1>1, <1>4
  <2>3. s \in DOMAIN b.segs.node /\ b.segs.node[s].mark = m.segs.node[s].mark
    BY <1>1, <2>2
  <2> HIDE DEF a, b
  <2>4. /\ Lists(a)
        /\ DOMAIN a.segs.node \subseteq DOMAIN b.segs.node
        /\ \A x \in DOMAIN b.segs.node : x # s \/ b.segs.node[s].mark => x \in DOMAIN a.segs.node
        /\ \A x \in DOMAIN a.segs.node :
               /\ Contents(a.segs.node[x]) = Contents(b.segs.node[x])
               /\ x # s => a.segs.node[x].mark = b.segs.node[x].mark
    BY <2>1, <2>2, <2>3, SweepOne
  <2>5. \A j \in n + 1 .. Len(c) : c[j] # s
    BY <1>1
  <2>6. \A j \in n + 1 .. Len(c) : j \in n .. Len(c)
    BY <1>1
  <2> HIDE DEF s
  <2>7. \A x \in D : m.segs.node[x].mark => x \in DOMAIN a.segs.node
    BY <2>2, <2>3, <2>4
  <2>8. \A x \in DOMAIN a.segs.node : Contents(a.segs.node[x]) = Contents(m.segs.node[x])
    BY <2>2, <2>4
  <2>9. ASSUME NEW j \in n + 1 .. Len(c)
        PROVE  c[j] \in DOMAIN a.segs.node /\ a.segs.node[c[j]].mark = m.segs.node[c[j]].mark
    <3>1. c[j] \in DOMAIN b.segs.node /\ b.segs.node[c[j]].mark = m.segs.node[c[j]].mark
      BY <2>2, <2>6
    <3>2. c[j] # s
      BY <2>5
    <3>3. c[j] \in DOMAIN a.segs.node
      BY <2>4, <3>1, <3>2
    <3> QED
      BY <2>4, <3>1, <3>2, <3>3
  <2> QED
    BY <2>2, <2>4, <2>7, <2>8, <2>9 DEF a
<1>5. Bad = {}
  <2> SUFFICES ASSUME Bad # {} PROVE FALSE
    OBVIOUS
  <2>1. Bad \subseteq Nat
    BY <1>1
  <2>2. PICK n \in Bad : \A j \in Bad : n <= j
    BY <2>1, MinInSet
  <2>3. n # 0 /\ n \in 0 .. Len(c)
    BY <1>3, <2>2
  <2>4. n \in 1 .. Len(c) /\ n - 1 \in 0 .. Len(c) /\ ~ (n <= n - 1)
    <3>1. \A l \in Nat : \A i \in 0 .. l : i # 0 => i \in 1 .. l /\ i - 1 \in 0 .. l /\ ~ (i <= i - 1)
      OBVIOUS
    <3>2. Len(c) \in Nat /\ n \in 0 .. Len(c) /\ n # 0
      BY <1>1, <2>3
    <3> DEFINE l == Len(c)
    <3> HIDE DEF l
    <3>3. l \in Nat /\ n \in 0 .. l /\ n # 0
      BY <3>2 DEF l
    <3>4. n \in 1 .. l /\ n - 1 \in 0 .. l /\ ~ (n <= n - 1)
      BY ONLY <3>1, <3>3
    <3> QED
      BY <3>4 DEF l
  <2>5. Good(n - 1)
    <3>1. n - 1 \notin Bad
      BY <2>2, <2>4
    <3> HIDE DEF Good
    <3> QED
      BY <2>4, <3>1
  <2> QED
    BY <1>4, <2>2, <2>4, <2>5
<1>6. Good(k)
  BY <1>1, <1>5
<1> QED
  BY <1>6 DEF After

LEMMA SweptKeeps ==
    ASSUME NEW m, Lists(m), NEW c \in Seq(DOMAIN m.segs.node),
           \A i, j \in 1 .. Len(c) : c[i] = c[j] => i = j
    PROVE  LET after == Swept(m, c)[Len(c)]
           IN  /\ Lists(after)
               /\ DOMAIN after.segs.node \subseteq DOMAIN m.segs.node
               /\ \A x \in DOMAIN m.segs.node : m.segs.node[x].mark => x \in DOMAIN after.segs.node
               /\ \A x \in DOMAIN after.segs.node :
                      Contents(after.segs.node[x]) = Contents(m.segs.node[x])
<1> DEFINE last == Len(c)
<1>1. last \in 0 .. Len(c)
  OBVIOUS
<1> HIDE DEF last
<1>2. LET after == Swept(m, c)[last]
      IN  /\ Lists(after)
          /\ DOMAIN after.segs.node \subseteq DOMAIN m.segs.node
          /\ \A x \in DOMAIN m.segs.node : m.segs.node[x].mark => x \in DOMAIN after.segs.node
          /\ \A x \in DOMAIN after.segs.node :
                 Contents(after.segs.node[x]) = Contents(m.segs.node[x])
  BY <1>1, SweptSteps
<1> QED
  BY <1>2 DEF last

-----------------------------------------------------------------------------
(* The inductive invariant.                                                *)

StackNode == [frame : BOOLEAN, ref : Nat]

\* Types, of everything a step reads.
StateType ==
    /\ GC_ENABLE \in Modes
    /\ status \in {"running", "no_memory", "bad_access", "locked"}
    /\ seg_counter \in 0 .. MaxCounter
    /\ SegList(segs) /\ DOMAIN segs.node \subseteq 0 .. seg_counter - 1
    /\ HoleListType(holes)
    /\ stack \in Seq(StackNode) /\ rbp \in 0 .. Len(stack)
    /\ handles \in Seq(HandleRecord) /\ \A k \in DOMAIN handles : handles[k].size > 0
    /\ ones \subseteq Nat
    /\ written \in [tok : Nat, var : BOOLEAN, fields : SUBSET Nat]

\* The saved rbps lead from the innermost frame through every other to the
\* sentinel, which leads to itself.
FrameInv ==
    GC_ENABLE =>
        /\ rbp \in DOMAIN stack /\ stack[rbp].frame
        /\ \A i \in DOMAIN stack : stack[i].frame => i <= rbp
        /\ stack[1] = FrameNode(1)
        /\ \A i \in DOMAIN stack : stack[i].frame /\ i # 1 =>
               /\ stack[i].ref \in 1 .. i - 1
               /\ stack[stack[i].ref].frame
               /\ \A j \in stack[i].ref + 1 .. i - 1 : ~ stack[j].frame

\* Without the collector there is no stack.
NoStack == ~ GC_ENABLE => stack = <<>>

\* What an open frame has created is on the stack, in that frame or below it.
HeldInv ==
    Running /\ GC_ENABLE =>
        \A k \in DOMAIN handles : \E i \in SegNodes :
            /\ stack[i].ref = handles[k].seg
            /\ \A j \in handles[k].frame + 1 .. i : ~ stack[j].frame

IInv == StateType /\ StackExact /\ FrameInv /\ NoStack /\ HeldInv

\* The invariant gives the properties.
LEMMA InvSafe ==
    ASSUME IInv
    PROVE  StackInv /\ (GC_ENABLE => ScopeKept)
<1>1. StackInv
  <2>1. TypeOK
    <3>1. /\ \A s \in DOMAIN segs.node : s \in 0 .. seg_counter - 1 /\ segs.node[s] \in SegRecord
          /\ {segs.var_head, segs.var_tail, segs.arr_head, segs.arr_tail} \subseteq Int
      BY DEF IInv, StateType, SegList
    <3>2. /\ \A h \in DOMAIN holes.node : h \in Nat /\ holes.node[h] \in HoleRecord
          /\ {holes.head, holes.tail} \subseteq Int
      BY DEF IInv, StateType, HoleListType
    <3>3. /\ \A i \in DOMAIN stack : stack[i] \in StackNode
          /\ \A k \in DOMAIN handles : handles[k] \in HandleRecord
          /\ written.tok \in Nat /\ written.var \in BOOLEAN /\ written.fields \subseteq Nat
      <4>1. /\ stack \in Seq(StackNode) /\ handles \in Seq(HandleRecord)
            /\ written \in [tok : Nat, var : BOOLEAN, fields : SUBSET Nat]
        BY DEF IInv, StateType
      <4>2. \A i \in DOMAIN stack : stack[i] \in StackNode
        BY <4>1
      <4>3. \A k \in DOMAIN handles : handles[k] \in HandleRecord
        BY <4>1
      <4>4. written.tok \in Nat /\ written.var \in BOOLEAN /\ written.fields \subseteq Nat
        BY <4>1
      <4> QED
        BY <4>2, <4>3, <4>4
    <3> QED
      BY <3>1, <3>2, <3>3 DEF IInv, StateType, TypeOK, HoleRecord, StackNode
  <2> QED
    BY <2>1 DEF IInv, StackInv
<1>2. ASSUME GC_ENABLE, Running, NEW k \in DOMAIN handles
      PROVE  LET t == handles[k]
             IN  /\ t.seg \in DOMAIN segs.node
                 /\ \E i \in SegNodes :
                        stack[i].ref = t.seg /\ (i < t.frame \/ \A j \in t.frame + 1 .. i : ~ stack[j].frame)
  <2>1. PICK i \in SegNodes : /\ stack[i].ref = handles[k].seg
                              /\ \A j \in handles[k].frame + 1 .. i : ~ stack[j].frame
    BY <1>2 DEF IInv, HeldInv
  <2>2. stack[i].ref \in DOMAIN segs.node
    BY <1>2 DEF IInv, StackExact
  <2> QED
    BY <2>1, <2>2
<1> QED
  BY <1>1, <1>2 DEF ScopeKept

\* One segment's record changes.
LEMMA OneSegment ==
    ASSUME NEW sl, SegList(sl), NEW s \in DOMAIN sl.node, NEW r \in SegRecord
    PROVE  LET after == [sl EXCEPT !.node = [sl.node EXCEPT ![s] = r]]
           IN  /\ SegList(after)
               /\ DOMAIN after.node = DOMAIN sl.node
               /\ after.node[s] = r
               /\ \A x \in DOMAIN sl.node \ {s} : after.node[x] = sl.node[x]
<1> DEFINE node == [sl.node EXCEPT ![s] = r]
<1>1. /\ node \in [DOMAIN sl.node -> SegRecord] /\ node[s] = r
      /\ \A x \in DOMAIN sl.node \ {s} : node[x] = sl.node[x]
  BY DEF SegList
<1> HIDE DEF node
<1>2. SegList([sl EXCEPT !.node = node]) /\ [sl EXCEPT !.node = node].node = node
  BY <1>1, OtherSegNodes
<1> QED
  BY <1>1, <1>2 DEF node

\* Segments come and go while the stack and what the client holds stay: those
\* on the stack must stay too.
LEMMA StackStays ==
    ASSUME IInv, GC_ENABLE' = GC_ENABLE, stack' = stack, rbp' = rbp,
           \A k \in DOMAIN handles' : \E j \in DOMAIN handles : handles'[k] = handles[j],
           Running' => /\ Running
                       /\ \A x \in DOMAIN segs.node : segs.node[x].onStack => x \in DOMAIN segs'.node
                       /\ \A x \in DOMAIN segs'.node :
                              x \in DOMAIN segs.node /\ segs'.node[x].onStack = segs.node[x].onStack
    PROVE  StackExact' /\ FrameInv' /\ NoStack' /\ HeldInv'
<1>1. SegNodes' = SegNodes
  BY DEF SegNodes
<1>2. FrameInv' /\ NoStack'
  BY DEF IInv, FrameInv, NoStack
<1>3. StackExact'
  <2> SUFFICES ASSUME Running' PROVE StackExact'
    BY DEF StackExact
  <2>1. /\ \A i \in SegNodes : stack[i].ref \in DOMAIN segs.node
        /\ \A i, j \in SegNodes : stack[i].ref = stack[j].ref => i = j
        /\ \A s \in DOMAIN segs.node : segs.node[s].onStack <=> \E i \in SegNodes : stack[i].ref = s
    BY DEF IInv, StackExact
  <2>2. \A i \in SegNodes : stack[i].ref \in DOMAIN segs'.node
    BY <2>1
  <2> QED
    BY <1>1, <2>1, <2>2 DEF StackExact
<1>4. HeldInv'
  BY <1>1 DEF IInv, HeldInv
<1> QED
  BY <1>2, <1>3, <1>4

\* A segment that is not on the stack yet is pushed for a new token.
LEMMA PushKeeps ==
    ASSUME IInv, Running, GC_ENABLE' = GC_ENABLE,
           NEW sl, SegList(sl), NEW n \in DOMAIN sl.node, n \in Nat,
           DOMAIN sl.node = DOMAIN segs.node \cup {n},
           \A x \in DOMAIN segs.node : sl.node[x].onStack = segs.node[x].onStack,
           n \notin DOMAIN segs.node => ~ sl.node[n].onStack,
           gc_push(sl, n),
           NEW h \in HandleRecord, h.seg = n, h.frame = rbp, handles' = Append(handles, h)
    PROVE  /\ SegList(segs') /\ DOMAIN segs'.node = DOMAIN sl.node
           /\ stack' \in Seq(StackNode) /\ rbp' \in 0 .. Len(stack')
           /\ StackExact' /\ FrameInv' /\ NoStack' /\ HeldInv'
<1>1. /\ \A i \in SegNodes : stack[i].ref \in DOMAIN segs.node
      /\ \A i, j \in SegNodes : stack[i].ref = stack[j].ref => i = j
      /\ \A s \in DOMAIN segs.node : segs.node[s].onStack <=> \E i \in SegNodes : stack[i].ref = s
  BY DEF IInv, StackExact
<1>2. /\ stack \in Seq(StackNode) /\ rbp \in 0 .. Len(stack)
      /\ handles \in Seq(HandleRecord) /\ Len(stack) \in Nat /\ Len(handles) \in Nat
      /\ GC_ENABLE \in BOOLEAN
  BY MMUAssumption DEF IInv, StateType
<1>3. \A k \in DOMAIN handles' : (k \in DOMAIN handles /\ handles'[k] = handles[k]) \/ handles'[k] = h
  BY <1>2
<1>4. CASE GC_ENABLE /\ ~ sl.node[n].onStack
  <2> DEFINE r == [sl.node[n] EXCEPT !.onStack = TRUE]
             new == [sl EXCEPT !.node = [sl.node EXCEPT ![n] = r]]
             top == Len(stack) + 1
  <2>1. segs' = new /\ stack' = Append(stack, SegNode(n)) /\ rbp' = rbp
    BY <1>4 DEF gc_push
  <2>2. r \in SegRecord /\ r.onStack = TRUE
    <3>1. sl.node[n] \in SegRecord
      BY DEF SegList
    <3> QED
      BY <3>1 DEF SegRecord
  <2> HIDE DEF r
  <2>3. /\ SegList(new) /\ DOMAIN new.node = DOMAIN sl.node /\ new.node[n] = r
        /\ \A x \in DOMAIN sl.node \ {n} : new.node[x] = sl.node[x]
    BY <2>2, OneSegment
  <2> HIDE DEF new
  <2>4. SegNode(n) \in StackNode /\ ~ SegNode(n).frame /\ SegNode(n).ref = n
    BY DEF SegNode, StackNode
  <2>5. /\ stack' \in Seq(StackNode) /\ Len(stack') = top
        /\ \A i \in 1 .. Len(stack) : stack'[i] = stack[i]
        /\ stack'[top] = SegNode(n) /\ DOMAIN stack' = DOMAIN stack \cup {top} /\ top \notin DOMAIN stack
    BY <1>2, <2>1, <2>4
  <2>6. SegNodes' = SegNodes \cup {top}
    <3>1. SegNodes' = {i \in DOMAIN stack \cup {top} : ~ stack'[i].frame}
      BY <2>5 DEF SegNodes
    <3>2. \A i \in DOMAIN stack : stack'[i] = stack[i]
      <4>1. DOMAIN stack = 1 .. Len(stack)
        BY <1>2
      <4> QED
        BY <2>5, <4>1
    <3> HIDE DEF top
    <3> QED
      BY <2>4, <2>5, <3>1, <3>2 DEF SegNodes
  <2>7. SegNodes \subseteq DOMAIN stack /\ DOMAIN stack = 1 .. Len(stack)
    BY <1>2 DEF SegNodes
  <2>8. \A i \in SegNodes : stack[i].ref # n
    <3>1. n \in DOMAIN segs.node => ~ segs.node[n].onStack
      BY <1>4
    <3> QED
      BY <1>1, <3>1
  <2>9. StackExact'
    <3>1. \A i \in SegNodes' : stack'[i].ref \in DOMAIN segs'.node
      BY <1>1, <2>1, <2>3, <2>4, <2>5, <2>6, <2>7
    <3>2. \A i, j \in SegNodes' : stack'[i].ref = stack'[j].ref => i = j
      BY <1>1, <2>4, <2>5, <2>6, <2>7, <2>8
    <3>3. ASSUME NEW s \in DOMAIN segs'.node
          PROVE  segs'.node[s].onStack <=> \E i \in SegNodes' : stack'[i].ref = s
      <4>1. CASE s = n
        BY <2>1, <2>2, <2>3, <2>4, <2>5, <2>6, <4>1
      <4>2. CASE s # n
        <5>1. s \in DOMAIN segs.node /\ segs'.node[s].onStack = segs.node[s].onStack
          BY <2>1, <2>3, <4>2
        <5>2. (\E i \in SegNodes' : stack'[i].ref = s) <=> (\E i \in SegNodes : stack[i].ref = s)
          BY <2>4, <2>5, <2>6, <2>7, <4>2
        <5> QED
          BY <1>1, <5>1, <5>2
      <4> QED
        BY <4>1, <4>2
    <3> QED
      BY <3>1, <3>2, <3>3 DEF StackExact
  <2>10. FrameInv'
    <3>1. /\ rbp \in DOMAIN stack /\ stack[rbp].frame
          /\ \A i \in DOMAIN stack : stack[i].frame => i <= rbp
          /\ stack[1] = FrameNode(1)
          /\ \A i \in DOMAIN stack : stack[i].frame /\ i # 1 =>
                 /\ stack[i].ref \in 1 .. i - 1
                 /\ stack[stack[i].ref].frame
                 /\ \A j \in stack[i].ref + 1 .. i - 1 : ~ stack[j].frame
      BY <1>4 DEF IInv, FrameInv
    <3>2. \A i \in DOMAIN stack' : stack'[i].frame => i \in 1 .. Len(stack) /\ stack[i].frame /\ stack'[i] = stack[i]
      BY <2>4, <2>5, <2>7
    <3>3. /\ rbp' \in DOMAIN stack' /\ stack'[rbp'].frame
          /\ \A i \in DOMAIN stack' : stack'[i].frame => i <= rbp'
          /\ stack'[1] = FrameNode(1)
      BY <1>2, <2>1, <2>5, <2>7, <3>1, <3>2
    <3>4. ASSUME NEW i \in DOMAIN stack', stack'[i].frame, i # 1
          PROVE  /\ stack'[i].ref \in 1 .. i - 1
                 /\ stack'[stack'[i].ref].frame
                 /\ \A j \in stack'[i].ref + 1 .. i - 1 : ~ stack'[j].frame
      <4>1. i \in 1 .. Len(stack) /\ stack[i].frame /\ stack'[i] = stack[i]
        BY <3>2, <3>4
      <4>2. /\ stack[i].ref \in 1 .. i - 1 /\ stack[stack[i].ref].frame
            /\ \A j \in stack[i].ref + 1 .. i - 1 : ~ stack[j].frame
        BY <2>7, <3>1, <3>4, <4>1
      <4>3. \A j \in 1 .. i - 1 : stack'[j] = stack[j]
        BY <1>2, <2>5, <4>1
      <4>4. \A j \in stack[i].ref + 1 .. i - 1 : j \in 1 .. i - 1
        BY <1>2, <4>1, <4>2
      <4> QED
        BY <4>1, <4>2, <4>3, <4>4
    <3> QED
      BY <3>3, <3>4 DEF FrameInv
  <2>11. HeldInv'
    <3>1. ASSUME NEW k \in DOMAIN handles', Running
          PROVE  \E i \in SegNodes' :
                     /\ stack'[i].ref = handles'[k].seg
                     /\ \A j \in handles'[k].frame + 1 .. i : ~ stack'[j].frame
      <4>1. CASE k \in DOMAIN handles /\ handles'[k] = handles[k]
        <5>1. PICK i \in SegNodes : /\ stack[i].ref = handles[k].seg
                                    /\ \A j \in handles[k].frame + 1 .. i : ~ stack[j].frame
          BY <1>4, <3>1, <4>1 DEF IInv, HeldInv
        <5>2. handles[k].frame \in Nat
          <6>1. handles[k] \in HandleRecord
            BY <1>2, <4>1
          <6> QED
            BY <6>1 DEF HandleRecord
        <5>3. i \in 1 .. Len(stack) /\ \A j \in handles[k].frame + 1 .. i : j \in 1 .. Len(stack)
          <6> DEFINE f == handles[k].frame
          <6>1. i \in 1 .. Len(stack) /\ Len(stack) \in Nat
            BY <1>2, <2>7
          <6>2. f \in Nat
            BY <5>2
          <6> HIDE DEF f
          <6> QED
            BY <6>1, <6>2 DEF f
        <5>4. /\ stack'[i] = stack[i]
              /\ \A j \in handles[k].frame + 1 .. i : stack'[j] = stack[j]
          BY <2>5, <5>3
        <5>5. i \in SegNodes'
          BY <2>6
        <5> QED
          BY <4>1, <5>1, <5>4, <5>5
      <4>2. CASE handles'[k] = h
        <5>1. \A i \in DOMAIN stack : stack[i].frame => i <= rbp
          BY <1>4 DEF IInv, FrameInv
        <5>2. ASSUME NEW j \in rbp + 1 .. top PROVE ~ stack'[j].frame
          <6>1. CASE j = top
            BY <2>4, <2>5, <6>1
          <6>2. CASE j # top
            <7>1. j \in 1 .. Len(stack) /\ ~ (j <= rbp)
              <8>1. rbp \in Nat /\ Len(stack) \in Nat
                BY <1>2
              <8> QED
                BY <6>2, <8>1
            <7> QED
              BY <2>5, <2>7, <5>1, <7>1
          <6> QED
            BY <6>1, <6>2
        <5> QED
          BY <2>4, <2>5, <2>6, <4>2, <5>2
      <4> QED
        BY <1>3, <4>1, <4>2
    <3> QED
      BY <3>1 DEF HeldInv
  <2>12. NoStack'
    BY <1>4 DEF NoStack
  <2> QED
    BY <1>2, <2>1, <2>3, <2>5, <2>9, <2>10, <2>11, <2>12
<1>5. CASE ~ (GC_ENABLE /\ ~ sl.node[n].onStack)
  <2>1. segs' = sl /\ stack' = stack /\ rbp' = rbp
    BY <1>5 DEF gc_push, gc
  <2>2. SegNodes' = SegNodes
    BY <2>1 DEF SegNodes
  <2>3. FrameInv' /\ NoStack'
    BY <2>1 DEF IInv, FrameInv, NoStack
  <2>4. ~ GC_ENABLE => SegNodes = {}
    BY DEF IInv, NoStack, SegNodes
  <2>5. StackExact'
    <3>1. \A i \in SegNodes : stack[i].ref \in DOMAIN sl.node
      BY <1>1
    <3>2. ASSUME NEW s \in DOMAIN sl.node
          PROVE  sl.node[s].onStack <=> \E i \in SegNodes : stack[i].ref = s
      <4>1. CASE s \in DOMAIN segs.node
        BY <1>1, <4>1
      <4>2. CASE s \notin DOMAIN segs.node
        BY <1>1, <1>5, <2>4, <4>2
      <4> QED
        BY <4>1, <4>2
    <3> QED
      BY <1>1, <2>1, <2>2, <3>1, <3>2 DEF StackExact
  <2>6. HeldInv'
    <3>1. ASSUME NEW k \in DOMAIN handles', Running, GC_ENABLE
          PROVE  \E i \in SegNodes :
                     /\ stack[i].ref = handles'[k].seg
                     /\ \A j \in handles'[k].frame + 1 .. i : ~ stack[j].frame
      <4>1. CASE k \in DOMAIN handles /\ handles'[k] = handles[k]
        BY <3>1, <4>1 DEF IInv, HeldInv
      <4>2. CASE handles'[k] = h
        <5>1. n \in DOMAIN segs.node /\ segs.node[n].onStack
          BY <1>5, <3>1
        <5>2. PICK i \in SegNodes : stack[i].ref = n
          BY <1>1, <5>1
        <5>3. ASSUME NEW j \in rbp + 1 .. i PROVE ~ stack[j].frame
          <6>1. \A q \in DOMAIN stack : stack[q].frame => q <= rbp
            BY <3>1 DEF IInv, FrameInv
          <6>2. i \in 1 .. Len(stack)
            BY <1>2 DEF SegNodes
          <6>3. rbp \in Nat /\ Len(stack) \in Nat
            BY <1>2
          <6>4. j \in 1 .. Len(stack) /\ ~ (j <= rbp)
            BY <6>2, <6>3
          <6> QED
            BY <1>2, <6>1, <6>4
        <5> QED
          BY <4>2, <5>2, <5>3
      <4> QED
        BY <1>3, <4>1, <4>2
    <3> QED
      BY <2>1, <2>2, <3>1 DEF HeldInv
  <2> QED
    BY <1>2, <2>1, <2>3, <2>5, <2>6
<1> QED
  BY <1>4, <1>5

-----------------------------------------------------------------------------
(* One lemma per operation.                                                *)

LEMMA Types0 ==
    ASSUME IInv
    PROVE  /\ GC_ENABLE \in BOOLEAN /\ seg_counter \in Nat
           /\ SegList(segs) /\ IsFiniteSet(DOMAIN segs.node) /\ DOMAIN segs.node \subseteq Nat
           /\ HoleListType(holes)
           /\ stack \in Seq(StackNode) /\ Len(stack) \in Nat /\ DOMAIN stack = 1 .. Len(stack)
           /\ \A i \in DOMAIN stack : stack[i].frame \in BOOLEAN /\ stack[i].ref \in Nat
           /\ rbp \in Nat /\ rbp <= Len(stack)
           /\ handles \in Seq(HandleRecord) /\ Len(handles) \in Nat /\ DOMAIN handles = 1 .. Len(handles)
           /\ \A k \in DOMAIN handles : handles[k] \in HandleRecord /\ handles[k].frame \in Nat
<1>1. /\ GC_ENABLE \in Modes /\ seg_counter \in 0 .. MaxCounter
      /\ SegList(segs) /\ DOMAIN segs.node \subseteq 0 .. seg_counter - 1
      /\ HoleListType(holes)
      /\ stack \in Seq(StackNode) /\ rbp \in 0 .. Len(stack) /\ handles \in Seq(HandleRecord)
  BY DEF IInv, StateType
<1>2. GC_ENABLE \in BOOLEAN /\ seg_counter \in Nat
  BY <1>1, MMUAssumption
<1>3. IsFiniteSet(DOMAIN segs.node) /\ DOMAIN segs.node \subseteq Nat
  <2>1. IsFiniteSet(0 .. seg_counter - 1)
    BY <1>2, FS_Interval
  <2> QED
    BY <1>1, <1>2, <2>1, FS_Subset
<1>4. /\ Len(stack) \in Nat /\ DOMAIN stack = 1 .. Len(stack) /\ rbp \in Nat /\ rbp <= Len(stack)
      /\ Len(handles) \in Nat /\ DOMAIN handles = 1 .. Len(handles)
  BY <1>1
<1>5. \A i \in DOMAIN stack : stack[i].frame \in BOOLEAN /\ stack[i].ref \in Nat
  <2>1. \A i \in DOMAIN stack : stack[i] \in StackNode
    BY <1>1
  <2> QED
    BY <2>1 DEF StackNode
<1>6. \A k \in DOMAIN handles : handles[k] \in HandleRecord /\ handles[k].frame \in Nat
  <2>1. \A k \in DOMAIN handles : handles[k] \in HandleRecord
    BY <1>1
  <2> QED
    BY <2>1 DEF HandleRecord
<1> QED
  BY <1>1, <1>2, <1>3, <1>4, <1>5, <1>6

\* The parts of the stack's invariants, unfolded.
LEMMA Frames ==
    ASSUME IInv, GC_ENABLE
    PROVE  /\ rbp \in 1 .. Len(stack) /\ stack[rbp].frame
           /\ \A i \in 1 .. Len(stack) : stack[i].frame => i <= rbp
           /\ stack[1] = FrameNode(1) /\ stack[1].frame /\ stack[1].ref = 1
           /\ \A i \in 1 .. Len(stack) : stack[i].frame /\ i # 1 =>
                  /\ stack[i].ref \in 1 .. i - 1
                  /\ stack[stack[i].ref].frame
                  /\ \A j \in stack[i].ref + 1 .. i - 1 : ~ stack[j].frame
<1>1. DOMAIN stack = 1 .. Len(stack)
  BY Types0
<1>2. FrameInv
  BY DEF IInv
<1> QED
  BY <1>1, <1>2 DEF FrameInv, FrameNode

LEMMA PushRbpKeeps ==
    ASSUME IInv, push_rbp
    PROVE  IInv'
<1> DEFINE top == Len(stack) + 1
<1>1. /\ Running /\ GC_ENABLE
      /\ stack' = Append(stack, FrameNode(rbp)) /\ rbp' = top
      /\ UNCHANGED <<GC_ENABLE, status, segs, holes, seg_counter, handles, ones, written>>
  BY DEF push_rbp, memory
<1>2. /\ stack \in Seq(StackNode) /\ Len(stack) \in Nat /\ DOMAIN stack = 1 .. Len(stack) /\ rbp \in Nat
      /\ DOMAIN handles = 1 .. Len(handles)
      /\ \A k \in DOMAIN handles : handles[k].frame \in Nat
  BY Types0
<1>3. FrameNode(rbp) \in StackNode /\ FrameNode(rbp).frame /\ FrameNode(rbp).ref = rbp
  BY <1>2 DEF FrameNode, StackNode
<1>4. /\ stack' \in Seq(StackNode) /\ Len(stack') = top /\ DOMAIN stack' = 1 .. top
      /\ \A i \in 1 .. Len(stack) : stack'[i] = stack[i]
      /\ stack'[top] = FrameNode(rbp)
  BY <1>1, <1>2, <1>3
<1>5. SegNodes' = SegNodes /\ SegNodes \subseteq 1 .. Len(stack)
  <2>1. \A i \in 1 .. top : i = top \/ i \in 1 .. Len(stack)
    BY <1>2
  <2>2. SegNodes' = {i \in 1 .. top : ~ stack'[i].frame} /\ SegNodes = {i \in 1 .. Len(stack) : ~ stack[i].frame}
    BY <1>2, <1>4 DEF SegNodes
  <2>3. top \notin SegNodes' /\ \A i \in 1 .. Len(stack) : i \in 1 .. top
    BY <1>2, <1>3, <1>4, <2>2
  <2> HIDE DEF top
  <2> QED
    BY <1>4, <2>1, <2>2, <2>3
<1>6. StateType'
  <2>1. rbp' \in 0 .. Len(stack')
    BY <1>1, <1>2, <1>4
  <2> QED
    BY <1>1, <1>4, <2>1 DEF IInv, StateType
<1>7. StackExact'
  <2>1. StackExact /\ (\A i \in SegNodes : stack'[i] = stack[i]) /\ Running' = Running
    BY <1>1, <1>4, <1>5 DEF IInv, Running
  <2> QED
    BY <1>1, <1>5, <2>1 DEF StackExact
<1>8. FrameInv'
  <2>1. /\ rbp \in 1 .. Len(stack) /\ stack[rbp].frame
        /\ \A i \in 1 .. Len(stack) : stack[i].frame => i <= rbp
        /\ stack[1] = FrameNode(1)
        /\ \A i \in 1 .. Len(stack) : stack[i].frame /\ i # 1 =>
               /\ stack[i].ref \in 1 .. i - 1
               /\ stack[stack[i].ref].frame
               /\ \A j \in stack[i].ref + 1 .. i - 1 : ~ stack[j].frame
    BY <1>1, Frames
  <2>2. /\ rbp' \in DOMAIN stack' /\ stack'[rbp'].frame
        /\ \A i \in DOMAIN stack' : stack'[i].frame => i <= rbp'
        /\ stack'[1] = FrameNode(1)
    BY <1>1, <1>2, <1>3, <1>4, <2>1
  <2>3. ASSUME NEW i \in DOMAIN stack', stack'[i].frame, i # 1
        PROVE  /\ stack'[i].ref \in 1 .. i - 1
               /\ stack'[stack'[i].ref].frame
               /\ \A j \in stack'[i].ref + 1 .. i - 1 : ~ stack'[j].frame
    <3>1. CASE i = top
      <4>1. stack'[i].ref = rbp /\ rbp \in 1 .. i - 1 /\ stack'[rbp].frame
        BY <1>2, <1>3, <1>4, <2>1, <3>1
      <4>2. ASSUME NEW j \in rbp + 1 .. i - 1 PROVE ~ stack'[j].frame
        <5>1. j \in 1 .. Len(stack) /\ ~ (j <= rbp)
          BY <1>2, <3>1
        <5> QED
          BY <1>4, <2>1, <5>1
      <4> QED
        BY <4>1, <4>2
    <3>2. CASE i # top
      <4>1. i \in 1 .. Len(stack) /\ stack[i].frame /\ stack'[i] = stack[i]
        BY <1>2, <1>4, <2>3, <3>2
      <4>2. /\ stack[i].ref \in 1 .. i - 1 /\ stack[stack[i].ref].frame
            /\ \A j \in stack[i].ref + 1 .. i - 1 : ~ stack[j].frame
        BY <2>1, <2>3, <4>1
      <4>3. \A j \in 1 .. i - 1 : stack'[j] = stack[j]
        BY <1>2, <1>4, <4>1
      <4>4. \A j \in stack[i].ref + 1 .. i - 1 : j \in 1 .. i - 1
        BY <1>2, <4>1, <4>2
      <4> QED
        BY <4>1, <4>2, <4>3, <4>4
    <3> QED
      BY <3>1, <3>2
  <2> QED
    BY <2>2, <2>3 DEF FrameInv
<1>9. NoStack'
  BY <1>1 DEF NoStack
<1>10. HeldInv'
  <2>1. ASSUME NEW k \in DOMAIN handles
        PROVE  \E i \in SegNodes : /\ stack'[i].ref = handles[k].seg
                                   /\ \A j \in handles[k].frame + 1 .. i : ~ stack'[j].frame
    <3>1. PICK i \in SegNodes : /\ stack[i].ref = handles[k].seg
                                /\ \A j \in handles[k].frame + 1 .. i : ~ stack[j].frame
      BY <1>1 DEF IInv, HeldInv
    <3>2. i \in 1 .. Len(stack) /\ handles[k].frame \in Nat
      BY <1>2, <1>5
    <3>3. \A j \in handles[k].frame + 1 .. i : j \in 1 .. Len(stack)
      BY <1>2, <3>2
    <3> QED
      BY <1>4, <3>1, <3>2, <3>3
  <2> QED
    BY <1>1, <1>5, <2>1 DEF HeldInv
<1> QED
  BY <1>6, <1>7, <1>8, <1>9, <1>10 DEF IInv

\* The client forgets the tokens of the frame it leaves, and those it got later.
LEMMA HandlesBelowPrefix ==
    ASSUME IInv, NEW r \in Nat
    PROVE  /\ HandlesBelow(r) \in Seq(HandleRecord)
           /\ \A k \in DOMAIN HandlesBelow(r) :
                  k \in DOMAIN handles /\ HandlesBelow(r)[k] = handles[k] /\ handles[k].frame < r
<1> DEFINE stops == {k \in 1 .. Len(handles) + 1 : k \in DOMAIN handles => handles[k].frame >= r}
           n == Min(stops) - 1
<1>1. /\ handles \in Seq(HandleRecord) /\ Len(handles) \in Nat /\ DOMAIN handles = 1 .. Len(handles)
      /\ \A k \in DOMAIN handles : handles[k].frame \in Nat
  BY Types0
<1>2. Len(handles) + 1 \in stops /\ stops \subseteq Nat
  BY <1>1
<1>3. Min(stops) \in stops /\ \A k \in stops : Min(stops) <= k
  BY <1>2, MinInSet
<1>4. n \in 0 .. Len(handles)
  <2>1. Min(stops) \in 1 .. Len(handles) + 1
    BY <1>3
  <2> HIDE DEF stops
  <2> QED
    BY <1>1, <2>1
<1>5. ASSUME NEW k \in 1 .. n PROVE k \in DOMAIN handles /\ handles[k].frame < r
  <2>1. k \in 1 .. Len(handles) + 1 /\ k \in DOMAIN handles /\ ~ (Min(stops) <= k)
    BY <1>1, <1>3, <1>4
  <2>2. k \notin stops
    BY <1>3, <2>1
  <2> QED
    BY <1>1, <2>1, <2>2
<1>6. HandlesBelow(r) = SubSeq(handles, 1, n)
  BY DEF HandlesBelow
<1> HIDE DEF n
<1>7. /\ SubSeq(handles, 1, n) \in Seq(HandleRecord)
      /\ DOMAIN SubSeq(handles, 1, n) = 1 .. n
      /\ \A k \in 1 .. n : SubSeq(handles, 1, n)[k] = handles[k]
  BY <1>1, <1>4
<1> QED
  BY <1>5, <1>6, <1>7

LEMMA GiveUpType ==
    ASSUME IInv, NEW held, NEW words, words \subseteq Nat, GiveUp(held, words)
    PROVE  ones' \subseteq Nat /\ written' \in [tok : Nat, var : BOOLEAN, fields : SUBSET Nat]
<1>1. Nothing \in [tok : Nat, var : BOOLEAN, fields : SUBSET Nat]
  BY DEF Nothing
<1>2. written \in [tok : Nat, var : BOOLEAN, fields : SUBSET Nat]
  BY DEF IInv, StateType
<1>3. (written' = written /\ ones' = words) \/ (written' = Nothing /\ ones' = {})
  BY DEF GiveUp
<1> QED
  BY <1>1, <1>2, <1>3

LEMMA PopFrameKeeps ==
    ASSUME IInv, gc_pop_frame
    PROVE  IInv'
<1> DEFINE popped == {stack[i].ref : i \in rbp + 1 .. Len(stack)}
           node == [x \in DOMAIN segs.node |->
                       IF x \in popped THEN [segs.node[x] EXCEPT !.onStack = ~ @] ELSE segs.node[x]]
           r == stack[rbp].ref
<1>0. segs' = IF popped \subseteq DOMAIN segs.node
              THEN [segs EXCEPT !.node = node] ELSE [segs EXCEPT !.ok = FALSE]
  BY Zenon DEF gc_pop_frame
<1>1. /\ Running /\ GC_ENABLE /\ rbp > 1
      /\ rbp' = r /\ stack' = SubSeq(stack, 1, rbp - 1)
      /\ handles' = HandlesBelow(rbp) /\ GiveUp(handles', ones)
      /\ UNCHANGED <<GC_ENABLE, status, holes, seg_counter>>
  BY DEF gc_pop_frame
<1>2. /\ stack \in Seq(StackNode) /\ Len(stack) \in Nat /\ DOMAIN stack = 1 .. Len(stack) /\ rbp \in Nat
      /\ \A i \in DOMAIN stack : stack[i].frame \in BOOLEAN
      /\ SegList(segs)
      /\ DOMAIN handles = 1 .. Len(handles) /\ \A k \in DOMAIN handles : handles[k].frame \in Nat
  BY Types0
<1>3. /\ rbp \in 1 .. Len(stack) /\ stack[rbp].frame
      /\ \A i \in 1 .. Len(stack) : stack[i].frame => i <= rbp
      /\ stack[1] = FrameNode(1)
      /\ \A i \in 1 .. Len(stack) : stack[i].frame /\ i # 1 =>
             /\ stack[i].ref \in 1 .. i - 1
             /\ stack[stack[i].ref].frame
             /\ \A j \in stack[i].ref + 1 .. i - 1 : ~ stack[j].frame
  BY <1>1, Frames
<1>4. r \in 1 .. rbp - 1 /\ stack[r].frame /\ \A j \in r + 1 .. rbp - 1 : ~ stack[j].frame
  BY <1>1, <1>3
<1>5. /\ stack' \in Seq(StackNode) /\ Len(stack') = rbp - 1 /\ DOMAIN stack' = 1 .. rbp - 1
      /\ \A i \in 1 .. rbp - 1 : stack'[i] = stack[i] /\ i \in 1 .. Len(stack)
  BY <1>1, <1>2, <1>3
<1>6. SegNodes' = {i \in SegNodes : i < rbp} /\ SegNodes \subseteq 1 .. Len(stack)
  <2>1. \A i \in 1 .. Len(stack) : i < rbp <=> i \in 1 .. rbp - 1
    BY <1>2
  <2>2. SegNodes' = {i \in 1 .. rbp - 1 : ~ stack'[i].frame} /\ SegNodes = {i \in 1 .. Len(stack) : ~ stack[i].frame}
    BY <1>2, <1>5 DEF SegNodes
  <2> QED
    BY <1>5, <2>1, <2>2
<1>7. /\ \A i \in SegNodes : stack[i].ref \in DOMAIN segs.node
      /\ \A i, j \in SegNodes : stack[i].ref = stack[j].ref => i = j
      /\ \A s \in DOMAIN segs.node : segs.node[s].onStack <=> \E i \in SegNodes : stack[i].ref = s
  BY <1>1 DEF IInv, StackExact
<1>8. \A i \in rbp + 1 .. Len(stack) : i \in SegNodes /\ ~ (i < rbp)
  <2>1. \A i \in rbp + 1 .. Len(stack) : i \in 1 .. Len(stack) /\ ~ (i <= rbp) /\ ~ (i < rbp)
    BY <1>2
  <2> QED
    BY <1>2, <1>3, <2>1 DEF SegNodes
<1>9. \A i \in SegNodes : i < rbp \/ i \in rbp + 1 .. Len(stack)
  <2>1. \A i \in SegNodes : i # rbp /\ i \in 1 .. Len(stack)
    BY <1>3, <1>6 DEF SegNodes
  <2> QED
    BY <1>2, <2>1
<1>10. node \in [DOMAIN segs.node -> SegRecord]
  <2>1. \A x \in DOMAIN segs.node : segs.node[x] \in SegRecord
    BY <1>2 DEF SegList
  <2>2. \A q \in SegRecord : [q EXCEPT !.onStack = ~ @] \in SegRecord
    BY DEF SegRecord
  <2> QED
    BY <2>1, <2>2
<1>11. popped \subseteq DOMAIN segs.node
  BY <1>7, <1>8
<1>12. \A x \in DOMAIN segs.node : node[x].onStack <=> (segs.node[x].onStack /\ x \notin popped)
  <2>1. \A x \in popped : segs.node[x].onStack
    BY <1>7, <1>8, <1>11
  <2>2. \A x \in DOMAIN segs.node : segs.node[x] \in SegRecord
    BY <1>2 DEF SegList
  <2>3. \A q \in SegRecord : q.onStack => ~ [q EXCEPT !.onStack = ~ @].onStack
    BY DEF SegRecord
  <2> QED
    BY <2>1, <2>2, <2>3
<1>13. SegList(segs') /\ segs'.node = node
  <2> HIDE DEF node
  <2> QED
    BY <1>0, <1>2, <1>10, <1>11, OtherSegNodes
<1>14. /\ handles' \in Seq(HandleRecord)
       /\ \A k \in DOMAIN handles' : k \in DOMAIN handles /\ handles'[k] = handles[k] /\ handles[k].frame < rbp
  BY <1>1, <1>2, HandlesBelowPrefix
<1>15. StateType'
  <2>1. rbp' \in 0 .. Len(stack')
    BY <1>1, <1>4, <1>5
  <2>2. \A k \in DOMAIN handles' : handles'[k].size > 0
    BY <1>14 DEF IInv, StateType
  <2>3. DOMAIN segs'.node \subseteq 0 .. seg_counter - 1
    BY <1>13 DEF IInv, StateType
  <2>4. ones' \subseteq Nat /\ written' \in [tok : Nat, var : BOOLEAN, fields : SUBSET Nat]
    BY <1>1, GiveUpType DEF IInv, StateType
  <2> QED
    BY <1>1, <1>5, <1>13, <1>14, <2>1, <2>2, <2>3, <2>4 DEF IInv, StateType
<1>16. StackExact'
  <2>1. \A i \in SegNodes' : stack'[i] = stack[i] /\ i \in SegNodes /\ i < rbp
    <3>1. \A i \in SegNodes' : i \in 1 .. rbp - 1
      BY <1>2, <1>6
    <3> QED
      BY <1>5, <1>6, <3>1
  <2>2. DOMAIN segs'.node = DOMAIN segs.node
    BY <1>13
  <2>3. ASSUME NEW s \in DOMAIN segs.node
        PROVE  node[s].onStack <=> \E i \in SegNodes' : stack'[i].ref = s
    <3>1. CASE \E i \in SegNodes' : stack'[i].ref = s
      <4>1. PICK i \in SegNodes' : stack'[i].ref = s
        BY <3>1
      <4>2. i \in SegNodes /\ stack[i].ref = s /\ i < rbp
        BY <2>1, <4>1
      <4>3. s \notin popped
        BY <1>7, <1>8, <4>2
      <4> QED
        BY <1>7, <1>12, <3>1, <4>2, <4>3
    <3>2. CASE node[s].onStack
      <4>1. segs.node[s].onStack /\ s \notin popped
        BY <1>12, <3>2
      <4>2. PICK i \in SegNodes : stack[i].ref = s
        BY <1>7, <4>1
      <4>3. i \in SegNodes'
        BY <1>6, <1>9, <4>1, <4>2
      <4> QED
        BY <2>1, <3>2, <4>2, <4>3
    <3> HIDE DEF node
    <3> QED
      BY <3>1, <3>2
  <2> HIDE DEF node
  <2> QED
    BY <1>7, <1>13, <2>1, <2>2, <2>3 DEF StackExact
<1>17. FrameInv'
  <2>1. rbp' \in DOMAIN stack' /\ stack'[rbp'].frame /\ stack'[1] = FrameNode(1)
    BY <1>1, <1>2, <1>3, <1>4, <1>5
  <2>2. ASSUME NEW i \in DOMAIN stack', stack'[i].frame PROVE i <= rbp'
    <3>1. i \in 1 .. rbp - 1 /\ stack[i].frame
      BY <1>5, <2>2
    <3>2. i \notin r + 1 .. rbp - 1
      BY <1>4, <3>1
    <3> QED
      BY <1>1, <1>2, <1>4, <3>1, <3>2
  <2>3. ASSUME NEW i \in DOMAIN stack', stack'[i].frame, i # 1
        PROVE  /\ stack'[i].ref \in 1 .. i - 1
               /\ stack'[stack'[i].ref].frame
               /\ \A j \in stack'[i].ref + 1 .. i - 1 : ~ stack'[j].frame
    <3>1. i \in 1 .. rbp - 1 /\ i \in 1 .. Len(stack) /\ stack[i].frame /\ stack'[i] = stack[i]
      BY <1>5, <2>3
    <3>2. /\ stack[i].ref \in 1 .. i - 1 /\ stack[stack[i].ref].frame
          /\ \A j \in stack[i].ref + 1 .. i - 1 : ~ stack[j].frame
      BY <1>3, <2>3, <3>1
    <3>3. \A j \in 1 .. i - 1 : stack'[j] = stack[j]
      BY <1>2, <1>5, <3>1
    <3>4. \A j \in stack[i].ref + 1 .. i - 1 : j \in 1 .. i - 1
      BY <1>2, <3>1, <3>2
    <3> QED
      BY <3>1, <3>2, <3>3, <3>4
  <2> QED
    BY <2>1, <2>2, <2>3 DEF FrameInv
<1>18. NoStack'
  BY <1>1 DEF NoStack
<1>19. HeldInv'
  <2>1. ASSUME NEW k \in DOMAIN handles'
        PROVE  \E i \in SegNodes' : /\ stack'[i].ref = handles'[k].seg
                                    /\ \A j \in handles'[k].frame + 1 .. i : ~ stack'[j].frame
    <3>1. k \in DOMAIN handles /\ handles'[k] = handles[k] /\ handles[k].frame < rbp /\ handles[k].frame \in Nat
      BY <1>2, <1>14
    <3>2. PICK i \in SegNodes : /\ stack[i].ref = handles[k].seg
                                /\ \A j \in handles[k].frame + 1 .. i : ~ stack[j].frame
      BY <1>1, <3>1 DEF IInv, HeldInv
    <3>3. i \in Nat /\ i < rbp
      <4>1. i \in rbp + 1 .. Len(stack) => rbp \in handles[k].frame + 1 .. i
        BY <1>2, <3>1
      <4> QED
        BY <1>3, <1>6, <1>9, <3>2, <4>1
    <3>4. \A j \in handles[k].frame + 1 .. i : j \in 1 .. rbp - 1
      BY <1>2, <3>1, <3>3
    <3>5. i \in SegNodes' /\ i \in 1 .. rbp - 1
      BY <1>2, <1>6, <3>3
    <3> QED
      BY <1>5, <3>1, <3>2, <3>4, <3>5
  <2> QED
    BY <2>1 DEF HeldInv
<1> QED
  BY <1>15, <1>16, <1>17, <1>18, <1>19 DEF IInv

\* The chain of saved rbps passes every frame node, and nothing else.
LEMMA SavedFrames ==
    ASSUME IInv, GC_ENABLE
    PROVE  LET Saved == Iterates([i \in DOMAIN stack |-> stack[i].ref], rbp, Len(stack))
           IN  {Saved[k] : k \in DOMAIN Saved} = {i \in DOMAIN stack : stack[i].frame}
<1> DEFINE step == [i \in DOMAIN stack |-> stack[i].ref]
           L == Len(stack)
           Saved == Iterates(step, rbp, L)
           Stray == {k \in 0 .. L : ~ (Saved[k] \in DOMAIN stack /\ stack[Saved[k]].frame)}
           Above(i, k) == i < Saved[k] /\ Saved[k] <= rbp - k
<1>1. L \in Nat /\ DOMAIN stack = 1 .. L /\ rbp \in Nat
  BY Types0
<1>2. /\ rbp \in 1 .. L /\ stack[rbp].frame
      /\ \A i \in 1 .. L : stack[i].frame => i <= rbp
      /\ stack[1].frame /\ stack[1].ref = 1
      /\ \A i \in 1 .. L : stack[i].frame /\ i # 1 =>
             /\ stack[i].ref \in 1 .. i - 1
             /\ stack[stack[i].ref].frame
             /\ \A j \in stack[i].ref + 1 .. i - 1 : ~ stack[j].frame
  BY Frames
<1>3. Saved = [k \in 0 .. L |-> IF k = 0 THEN rbp ELSE step[Saved[k - 1]]]
  <2> HIDE DEF step, L
  <2> QED
    BY <1>1, IteratesDef
<1> HIDE DEF Saved
<1>4. /\ DOMAIN Saved = 0 .. L /\ Saved[0] = rbp
      /\ \A k \in 1 .. L : Saved[k] = step[Saved[k - 1]]
  <2> HIDE DEF L, step
  <2>1. /\ 0 \in 0 .. L /\ \A k \in 1 .. L : k \in 0 .. L /\ k # 0
    BY <1>1
  <2>2. DOMAIN Saved = 0 .. L
    BY <1>3
  <2>3. \A k \in 0 .. L : Saved[k] = IF k = 0 THEN rbp ELSE step[Saved[k - 1]]
    BY <1>3
  <2> QED
    BY <2>1, <2>2, <2>3
<1>5. \A i \in 1 .. L : step[i] = stack[i].ref
  BY <1>1
<1> HIDE DEF step, L
<1>6. Stray = {}
  <2> SUFFICES ASSUME Stray # {} PROVE FALSE
    OBVIOUS
  <2>1. PICK k \in Stray : \A j \in Stray : k <= j
    <3>1. Stray \subseteq Nat
      BY <1>1
    <3> HIDE DEF Stray
    <3> QED
      BY <3>1, MinInSet
  <2>2. k # 0
    BY <1>1, <1>2, <1>4, <2>1
  <2>3. k \in 1 .. L /\ k - 1 \in 0 .. L /\ ~ (k <= k - 1)
    BY <1>1, <2>1, <2>2
  <2>4. Saved[k - 1] \in 1 .. L /\ stack[Saved[k - 1]].frame
    BY <1>1, <2>1, <2>3
  <2>5. Saved[k] = stack[Saved[k - 1]].ref
    BY <1>4, <1>5, <2>3, <2>4
  <2>6. Saved[k] \in 1 .. L /\ stack[Saved[k]].frame
    <3>1. CASE Saved[k - 1] = 1
      BY <1>1, <1>2, <2>4, <2>5, <3>1
    <3>2. CASE Saved[k - 1] # 1
      <4>1. Saved[k] \in 1 .. Saved[k - 1] - 1 /\ stack[Saved[k]].frame
        BY <1>2, <2>4, <2>5, <3>2
      <4> QED
        BY <1>1, <2>4, <4>1
    <3> QED
      BY <3>1, <3>2
  <2> QED
    BY <1>1, <2>1, <2>6
<1>7. ASSUME NEW i \in 1 .. L, stack[i].frame
      PROVE  \E k \in 0 .. L : Saved[k] = i
  <2> SUFFICES ASSUME \A k \in 0 .. L : Saved[k] # i PROVE FALSE
    OBVIOUS
  <2> DEFINE Lost == {k \in 0 .. L : ~ Above(i, k)}
  <2>1. \A k \in 0 .. L : Saved[k] \in 1 .. L /\ stack[Saved[k]].frame
    BY <1>1, <1>6
  <2>2. Above(i, 0)
    <3>1. i <= rbp /\ rbp # i /\ i \in Nat /\ rbp \in Nat
      BY <1>1, <1>2, <1>4, <1>7
    <3> QED
      BY <1>4, <3>1
  <2>3. ASSUME NEW k \in 1 .. L, Above(i, k - 1) PROVE Above(i, k)
    <3> DEFINE a == Saved[k - 1]
               b == Saved[k]
    <3>1. k \in Nat /\ k \in 0 .. L /\ k - 1 \in 0 .. L /\ k - 1 \in Nat
      BY <1>1
    <3>2. /\ a \in 1 .. L /\ stack[a].frame /\ a \in Nat /\ i < a /\ a <= rbp - (k - 1)
          /\ i \in Nat /\ i >= 1
      BY <1>1, <2>1, <2>3, <3>1
    <3>3. b = stack[a].ref
      BY <1>4, <1>5, <3>2
    <3>4. a # 1
      BY <3>2
    <3>5. b \in 1 .. a - 1 /\ \A j \in b + 1 .. a - 1 : ~ stack[j].frame
      BY <1>2, <3>2, <3>3, <3>4
    <3>6. i \notin b + 1 .. a - 1
      BY <1>7, <3>5
    <3>7. b # i
      BY <3>1
    <3> HIDE DEF a, b
    <3>8. i < b /\ b <= rbp - k
      BY <1>1, <3>1, <3>2, <3>5, <3>6, <3>7
    <3> QED
      BY <3>8 DEF b
  <2> HIDE DEF Above
  <2>4. Lost = {}
    <3> SUFFICES ASSUME Lost # {} PROVE FALSE
      OBVIOUS
    <3>1. PICK k \in Lost : \A j \in Lost : k <= j
      <4>1. Lost \subseteq Nat
        BY <1>1
      <4> HIDE DEF Lost
      <4> QED
        BY <4>1, MinInSet
    <3>2. k # 0 /\ k \in 0 .. L
      BY <2>2, <3>1
    <3>3. k \in 1 .. L /\ k - 1 \in 0 .. L /\ ~ (k <= k - 1)
      BY <1>1, <3>2
    <3>4. Above(i, k - 1)
      BY <3>1, <3>3
    <3> QED
      BY <2>3, <3>1, <3>3, <3>4
  <2>5. L \in 0 .. L
    BY <1>1
  <2>6. Above(i, L) /\ Saved[L] \in 1 .. L
    BY <2>1, <2>4, <2>5
  <2>7. rbp <= L /\ rbp \in Nat /\ i >= 1 /\ i \in Nat /\ Saved[L] \in Nat
    BY <1>1, <1>2, <2>6
  <2> QED
    BY <1>1, <2>6, <2>7 DEF Above
<1>8. {Saved[k] : k \in DOMAIN Saved} = {i \in DOMAIN stack : stack[i].frame}
  <2>1. \A k \in DOMAIN Saved : Saved[k] \in DOMAIN stack /\ stack[Saved[k]].frame
    BY <1>4, <1>6
  <2>2. \A i \in DOMAIN stack : stack[i].frame => \E k \in DOMAIN Saved : Saved[k] = i
    BY <1>1, <1>4, <1>7
  <2> QED
    BY <2>1, <2>2
<1> QED
  BY <1>8 DEF Saved, step, L

\* Every segment on the stack is marked, and nothing but marks changes.
LEMMA MarkSegs ==
    ASSUME IInv, Running, GC_ENABLE
    PROVE  /\ SegList(gc_mark(segs))
           /\ DOMAIN gc_mark(segs).node = DOMAIN segs.node
           /\ \A x \in DOMAIN segs.node :
                  /\ Contents(gc_mark(segs).node[x]) = Contents(segs.node[x])
                  /\ segs.node[x].onStack => gc_mark(segs).node[x].mark
<1> DEFINE Saved == Iterates([i \in DOMAIN stack |-> stack[i].ref], rbp, Len(stack))
           frames == {Saved[k] : k \in DOMAIN Saved}
           held == {stack[i].ref : i \in DOMAIN stack \ frames}
           node == [x \in DOMAIN segs.node |->
                       IF x \in held THEN [segs.node[x] EXCEPT !.mark = TRUE] ELSE segs.node[x]]
<1>1. frames = {i \in DOMAIN stack : stack[i].frame}
  BY SavedFrames
<1>2. gc_mark(segs) = IF held \subseteq DOMAIN segs.node
                      THEN [segs EXCEPT !.node = node] ELSE [segs EXCEPT !.ok = FALSE]
  BY DEF gc_mark
<1> HIDE DEF frames
<1>3. held = {stack[i].ref : i \in SegNodes}
  BY <1>1 DEF SegNodes
<1>4. /\ \A i \in SegNodes : stack[i].ref \in DOMAIN segs.node
      /\ \A s \in DOMAIN segs.node : segs.node[s].onStack <=> \E i \in SegNodes : stack[i].ref = s
  BY DEF IInv, StackExact
<1>5. held \subseteq DOMAIN segs.node /\ \A x \in DOMAIN segs.node : segs.node[x].onStack => x \in held
  BY <1>3, <1>4
<1> HIDE DEF held
<1>6. SegList(segs) /\ \A x \in DOMAIN segs.node : segs.node[x] \in SegRecord
  BY Types0 DEF SegList
<1>7. \A q \in SegRecord : /\ [q EXCEPT !.mark = TRUE] \in SegRecord
                            /\ Contents([q EXCEPT !.mark = TRUE]) = Contents(q)
                            /\ [q EXCEPT !.mark = TRUE].mark
  BY DEF SegRecord, Contents
<1>8. /\ node \in [DOMAIN segs.node -> SegRecord]
      /\ \A x \in DOMAIN segs.node : /\ Contents(node[x]) = Contents(segs.node[x])
                                     /\ x \in held => node[x].mark
  BY <1>6, <1>7
<1> HIDE DEF node
<1>9. SegList([segs EXCEPT !.node = node]) /\ [segs EXCEPT !.node = node].node = node
  BY <1>6, <1>8, OtherSegNodes
<1> QED
  BY <1>2, <1>5, <1>8, <1>9

LEMMA GcRunKeeps ==
    ASSUME IInv, gc_run
    PROVE  IInv'
<1> DEFINE marked == [segs |-> gc_mark(segs), holes |-> holes]
           head == get_segment_head(marked.segs)
           c == Chain(head, marked.segs.node)
           m == gc_sweep(marked)
<1>1. /\ Running /\ GC_ENABLE
      /\ segs' = m.segs /\ holes' = m.holes /\ ones' = Kept(m.segs)
      /\ UNCHANGED <<GC_ENABLE, status, seg_counter, stack, rbp, handles, written>>
  BY DEF gc_run, gc
<1>2. /\ SegList(gc_mark(segs)) /\ DOMAIN gc_mark(segs).node = DOMAIN segs.node
      /\ \A x \in DOMAIN segs.node :
             /\ Contents(gc_mark(segs).node[x]) = Contents(segs.node[x])
             /\ segs.node[x].onStack => gc_mark(segs).node[x].mark
  BY <1>1, MarkSegs
<1>3. /\ IsFiniteSet(DOMAIN segs.node) /\ DOMAIN segs.node \subseteq Nat /\ HoleListType(holes)
  BY Types0
<1>4. /\ Lists(marked) /\ DOMAIN marked.segs.node = DOMAIN segs.node
      /\ \A x \in DOMAIN segs.node : /\ Contents(marked.segs.node[x]) = Contents(segs.node[x])
                                     /\ segs.node[x].onStack => marked.segs.node[x].mark
  <2>1. marked.segs = gc_mark(segs) /\ marked.holes = holes
    OBVIOUS
  <2>2. marked = [segs |-> marked.segs, holes |-> marked.holes]
    OBVIOUS
  <2> HIDE DEF marked
  <2> QED
    BY <1>2, <1>3, <2>1, <2>2 DEF Lists
<1> HIDE DEF marked
<1>5. /\ SegList(m.segs) /\ HoleListType(m.holes)
      /\ DOMAIN m.segs.node \subseteq DOMAIN segs.node
      /\ m.segs.ok => /\ \A x \in DOMAIN segs.node : segs.node[x].onStack => x \in DOMAIN m.segs.node
                      /\ \A x \in DOMAIN m.segs.node : Contents(m.segs.node[x]) = Contents(segs.node[x])
  <2>1. CASE Ends(head, marked.segs.node)
    <3> DEFINE after == Swept(marked, c)[Len(c)]
    <3>1. m = after
      BY <2>1 DEF gc_sweep
    <3>2. /\ c \in Seq(DOMAIN marked.segs.node)
          /\ \A i, j \in 1 .. Len(c) : c[i] = c[j] => i = j
      <4>1. IsFiniteSet(DOMAIN marked.segs.node) /\ Null \notin DOMAIN marked.segs.node
        BY <1>3, <1>4, NullInt
      <4> HIDE DEF head
      <4> QED
        BY <2>1, <4>1, ChainOnce
    <3>3. /\ Lists(after)
          /\ DOMAIN after.segs.node \subseteq DOMAIN marked.segs.node
          /\ \A x \in DOMAIN marked.segs.node : marked.segs.node[x].mark => x \in DOMAIN after.segs.node
          /\ \A x \in DOMAIN after.segs.node :
                 Contents(after.segs.node[x]) = Contents(marked.segs.node[x])
      <4> HIDE DEF c
      <4> QED
        BY <1>4, <3>2, SweptKeeps
    <3> HIDE DEF after, m
    <3> QED
      BY <1>4, <3>1, <3>3 DEF Lists
  <2>2. CASE ~ Ends(head, marked.segs.node)
    <3> DEFINE a == marked.segs  b == marked.holes  lost == [a EXCEPT !.ok = FALSE]
    <3>1. m = [marked EXCEPT !.segs = lost]
      BY <2>2 DEF gc_sweep
    <3>2. marked = [segs |-> a, holes |-> b] /\ SegList(a) /\ HoleListType(b)
      BY <1>4 DEF Lists
    <3>3. SegList(lost) /\ lost.node = a.node /\ ~ lost.ok
      <4>1. a.var_head \in Int /\ FALSE \in BOOLEAN
        BY <3>2 DEF SegList
      <4>2. SegList(lost) /\ lost.node = a.node
        BY <3>2, <4>1, OtherSegs
      <4>3. ~ lost.ok
        BY <3>2 DEF SegList
      <4> QED
        BY <4>2, <4>3
    <3>4. DOMAIN a.node = DOMAIN segs.node
      BY <1>4
    <3> HIDE DEF a, b, lost
    <3>5. [marked EXCEPT !.segs = lost] = [segs |-> lost, holes |-> b]
      BY <3>2
    <3> HIDE DEF m
    <3>6. m.segs = lost /\ m.holes = b
      BY <3>1, <3>5
    <3> QED
      BY <3>2, <3>3, <3>4, <3>6
  <2> QED
    BY <2>1, <2>2
<1> HIDE DEF m
<1>6. StateType'
  <2>1. ones' \subseteq Nat
    BY <1>1 DEF Kept, IInv, StateType
  <2>2. DOMAIN segs'.node \subseteq 0 .. seg_counter - 1
    BY <1>1, <1>5 DEF IInv, StateType
  <2> QED
    BY <1>1, <1>5, <2>1, <2>2 DEF IInv, StateType
<1>7. StackExact' /\ FrameInv' /\ NoStack' /\ HeldInv'
  <2>1. ASSUME Running'
        PROVE  /\ \A x \in DOMAIN segs.node : segs.node[x].onStack => x \in DOMAIN segs'.node
               /\ \A x \in DOMAIN segs'.node :
                      x \in DOMAIN segs.node /\ segs'.node[x].onStack = segs.node[x].onStack
    <3>1. m.segs.ok
      BY <1>1, <2>1 DEF Running
    <3> QED
      BY <1>1, <1>5, <3>1 DEF Contents
  <2> QED
    BY <1>1, <2>1, StackStays
<1> QED
  BY <1>6, <1>7 DEF IInv

LEMMA ExitKeeps ==
    ASSUME IInv, NEW why \in {"no_memory", "bad_access", "locked"}, Exit(why)
    PROVE  IInv'
<1>1. /\ status' = why /\ status' # "running"
      /\ UNCHANGED <<GC_ENABLE, segs, holes, seg_counter, stack, rbp, handles, ones, written>>
  BY DEF Exit, gc, memory
<1>2. StateType'
  BY <1>1 DEF IInv, StateType
<1>3. StackExact' /\ FrameInv' /\ NoStack' /\ HeldInv'
  BY <1>1, StackStays DEF Running
<1> QED
  BY <1>2, <1>3 DEF IInv

LEMMA AstrayKeeps ==
    ASSUME IInv, Astray
    PROVE  IInv'
<1>1. /\ segs' = [segs EXCEPT !.ok = FALSE]
      /\ UNCHANGED <<GC_ENABLE, status, holes, seg_counter, stack, rbp, handles, ones, written>>
  BY DEF Astray, gc, memory
<1>2. SegList(segs') /\ segs'.node = segs.node /\ ~ segs'.ok
  <2>1. SegList(segs) /\ segs.var_head \in Int /\ FALSE \in BOOLEAN
    BY Types0 DEF SegList
  <2>2. SegList([segs EXCEPT !.ok = FALSE]) /\ [segs EXCEPT !.ok = FALSE].node = segs.node
    BY <2>1, OtherSegs
  <2>3. ~ [segs EXCEPT !.ok = FALSE].ok
    BY <2>1 DEF SegList
  <2> QED
    BY <1>1, <2>2, <2>3
<1>3. StateType'
  BY <1>1, <1>2 DEF IInv, StateType
<1>4. StackExact' /\ FrameInv' /\ NoStack' /\ HeldInv'
  BY <1>1, <1>2, StackStays DEF Running
<1> QED
  BY <1>3, <1>4 DEF IInv

\* A token of a segment, of a type the client uses.
LEMMA HandleType ==
    ASSUME IInv, NEW tok \in Nat, NEW var \in BOOLEAN, NEW type \in Types, NEW n \in Nat,
           NEW size \in Nat, size > 0, Got(Handle(tok, var, type, n, size))
    PROVE  /\ Handle(tok, var, type, n, size) \in HandleRecord
           /\ Handle(tok, var, type, n, size).seg = n /\ Handle(tok, var, type, n, size).frame = rbp
           /\ handles' = Append(handles, Handle(tok, var, type, n, size))
           /\ handles' \in Seq(HandleRecord) /\ \A k \in DOMAIN handles' : handles'[k].size > 0
<1> DEFINE h == Handle(tok, var, type, n, size)
<1>1. rbp \in Nat /\ handles \in Seq(HandleRecord) /\ Len(handles) \in Nat
  BY Types0
<1>2. h \in HandleRecord /\ h.seg = n /\ h.frame = rbp /\ h.size = size
  BY <1>1 DEF Handle, HandleRecord
<1>3. handles' = Append(handles, h)
  BY DEF Got
<1> HIDE DEF h
<1>4. handles' \in Seq(HandleRecord)
  BY <1>1, <1>2, <1>3
<1>5. \A k \in DOMAIN handles' : (k \in DOMAIN handles /\ handles'[k] = handles[k]) \/ handles'[k] = h
  BY <1>1, <1>2, <1>3
<1>6. \A k \in DOMAIN handles' : handles'[k].size > 0
  BY <1>2, <1>5 DEF IInv, StateType
<1> QED
  BY <1>2, <1>3, <1>4, <1>6 DEF h

LEMMA UseSlabKeeps ==
    ASSUME IInv, Running, NEW s \in DOMAIN segs.node, NEW type \in Types, UseSlab(s, type)
    PROVE  IInv'
<1> DEFINE i == FreeSlot(segs.node[s].bitmap)
           r == [segs.node[s] EXCEPT !.bitmap = segs.node[s].bitmap \cup {i}]
           sl == [segs EXCEPT !.node = [segs.node EXCEPT ![s] = r]]
           h == Handle(Slots * s + i, TRUE, type, s, 1)
<1>1. /\ gc_push(sl, s) /\ Got(h)
      /\ UNCHANGED <<GC_ENABLE, status, holes, seg_counter, ones, written>>
  BY DEF UseSlab, memory
<1>2. /\ SegList(segs) /\ s \in Nat /\ segs.node[s] \in SegRecord
  BY Types0 DEF SegList
<1>3. i \in 0 .. Slots - 1 /\ i \in Nat /\ Slots * s + i \in Nat
  <2>1. i \in {0, 1}
    BY DEF FreeSlot
  <2> HIDE DEF i
  <2> QED
    BY <1>2, <2>1 DEF Slots
<1> HIDE DEF i
<1>4. r \in SegRecord /\ r.onStack = segs.node[s].onStack
  <2>1. segs.node[s].bitmap \cup {i} \subseteq 0 .. Slots - 1
    BY <1>2, <1>3 DEF SegRecord
  <2> QED
    BY <1>2, <2>1 DEF SegRecord
<1> HIDE DEF r
<1>5. /\ SegList(sl) /\ DOMAIN sl.node = DOMAIN segs.node /\ sl.node[s] = r
      /\ \A x \in DOMAIN segs.node \ {s} : sl.node[x] = segs.node[x]
  BY <1>2, <1>4, OneSegment
<1> HIDE DEF sl
<1>6. /\ h \in HandleRecord /\ h.seg = s /\ h.frame = rbp /\ handles' = Append(handles, h)
      /\ handles' \in Seq(HandleRecord) /\ \A k \in DOMAIN handles' : handles'[k].size > 0
  <2> DEFINE tok == Slots * s + i
             var == TRUE
             size == 1
  <2>1. tok \in Nat /\ var \in BOOLEAN /\ size \in Nat /\ size > 0
    BY <1>3
  <2>2. h = Handle(tok, var, type, s, size)
    OBVIOUS
  <2> HIDE DEF tok, var, size, h
  <2>3. Got(Handle(tok, var, type, s, size))
    BY <1>1, <2>2
  <2>4. LET g == Handle(tok, var, type, s, size)
        IN  /\ g \in HandleRecord /\ g.seg = s /\ g.frame = rbp /\ handles' = Append(handles, g)
            /\ handles' \in Seq(HandleRecord) /\ \A k \in DOMAIN handles' : handles'[k].size > 0
    BY <1>2, <2>1, <2>3, HandleType
  <2> QED
    BY <2>2, <2>4
<1> HIDE DEF h
<1>7. /\ SegList(segs') /\ DOMAIN segs'.node = DOMAIN sl.node
      /\ stack' \in Seq(StackNode) /\ rbp' \in 0 .. Len(stack')
      /\ StackExact' /\ FrameInv' /\ NoStack' /\ HeldInv'
  <2>1. /\ DOMAIN sl.node = DOMAIN segs.node \cup {s} /\ s \in DOMAIN sl.node
        /\ \A x \in DOMAIN segs.node : sl.node[x].onStack = segs.node[x].onStack
    BY <1>4, <1>5
  <2> QED
    BY <1>1, <1>2, <1>5, <1>6, <2>1, PushKeeps
<1>8. StateType'
  BY <1>1, <1>5, <1>6, <1>7 DEF IInv, StateType
<1> QED
  BY <1>7, <1>8 DEF IInv

LEMMA NewSegmentKeeps ==
    ASSUME IInv, Running, NEW size \in Nat, size > 0, NEW type \in Types, NEW var \in BOOLEAN,
           NEW bitmap \in SUBSET (0 .. Slots - 1), NEW tok \in Nat,
           seg_counter + size <= MaxCounter, NewSegment(size, type, var, bitmap, tok)
    PROVE  IInv'
<1> DEFINE h == FirstFit(holes, size)
           n == seg_counter
           new == [prev |-> Null, next |-> Null, base |-> holes.node[h].base, size |-> size,
                   var |-> var, type |-> type, bitmap |-> bitmap, mark |-> FALSE, onStack |-> FALSE]
           sl == insert_after_segment(segs, n, new)
           held == IF var THEN 1 ELSE size
           t == Handle(tok, var, type, n, held)
<1>1. \/ Exit("no_memory") \/ Astray
      \/ /\ h \in DOMAIN holes.node /\ sl.ok
         /\ gc_push(sl, n) /\ holes' = Carve(holes, h, size)
         /\ seg_counter' = seg_counter + size /\ Got(t)
         /\ UNCHANGED <<GC_ENABLE, status, ones, written>>
  BY DEF NewSegment, memory
<1>2. CASE Exit("no_memory")
  BY <1>2, ExitKeeps
<1>3. CASE Astray
  BY <1>3, AstrayKeeps
<1>4. CASE /\ h \in DOMAIN holes.node /\ sl.ok
           /\ gc_push(sl, n) /\ holes' = Carve(holes, h, size)
           /\ seg_counter' = seg_counter + size /\ Got(t)
           /\ UNCHANGED <<GC_ENABLE, status, ones, written>>
  <2>1. /\ SegList(segs) /\ HoleListType(holes) /\ n \in Nat /\ DOMAIN segs.node \subseteq 0 .. n - 1
        /\ IsFiniteSet(DOMAIN holes.node) /\ DOMAIN holes.node \subseteq Nat
        /\ MaxCounter \in Nat
    BY Types0, MMUAssumption DEF IInv, StateType, HoleListType
  <2>2. h \in {x \in DOMAIN holes.node : holes.node[x].size >= size}
    <3>1. Nowhere \notin DOMAIN holes.node
      BY <2>1, NullInt
    <3>2. Find(holes.head, holes.node, {x \in DOMAIN holes.node : holes.node[x].size >= size})
              \in {x \in DOMAIN holes.node : holes.node[x].size >= size}
      BY <1>4, <2>1, <3>1, FindIn DEF FirstFit
    <3> QED
      BY <3>2 DEF FirstFit
  <2> HIDE DEF h
  <2>3. holes.node[h].base \in Nat /\ holes.node[h].size \in Nat /\ size <= holes.node[h].size
    <3>1. holes.node[h] \in HoleRecord
      BY <2>1, <2>2 DEF HoleListType
    <3> QED
      BY <2>2, <3>1 DEF HoleRecord
  <2>4. HoleListType(holes')
    BY <1>4, <2>1, <2>2, <2>3, CarveType
  <2>5. new \in SegRecord /\ ~ new.onStack
    <3>1. type \in 0 .. 3
      BY MMUAssumption
    <3> QED
      BY <2>3, <3>1, NullInt DEF SegRecord
  <2> HIDE DEF new
  <2>6. n \notin DOMAIN segs.node
    BY <2>1
  <2>7. /\ SegList(sl) /\ DOMAIN sl.node = DOMAIN segs.node \cup {n}
        /\ Contents(sl.node[n]) = Contents(new)
        /\ \A x \in DOMAIN segs.node : Contents(sl.node[x]) = Contents(segs.node[x])
    <3> HIDE DEF n
    <3> QED
      BY <1>4, <2>1, <2>5, <2>6, InsertSegs
  <2> HIDE DEF sl
  <2>8. /\ ~ sl.node[n].onStack
        /\ \A x \in DOMAIN segs.node : sl.node[x].onStack = segs.node[x].onStack
    BY <2>5, <2>7 DEF Contents
  <2>9. held \in Nat /\ held > 0
    OBVIOUS
  <2> HIDE DEF held
  <2>10. /\ t \in HandleRecord /\ t.seg = n /\ t.frame = rbp /\ handles' = Append(handles, t)
         /\ handles' \in Seq(HandleRecord) /\ \A k \in DOMAIN handles' : handles'[k].size > 0
    BY <1>4, <2>1, <2>9, HandleType
  <2> HIDE DEF t
  <2>11. /\ SegList(segs') /\ DOMAIN segs'.node = DOMAIN sl.node
         /\ stack' \in Seq(StackNode) /\ rbp' \in 0 .. Len(stack')
         /\ StackExact' /\ FrameInv' /\ NoStack' /\ HeldInv'
    <3>1. n \in DOMAIN sl.node
      BY <2>7
    <3> QED
      BY <1>4, <2>1, <2>7, <2>8, <2>10, <3>1, PushKeeps
  <2>12. seg_counter' \in 0 .. MaxCounter /\ DOMAIN segs'.node \subseteq 0 .. seg_counter' - 1
    BY <1>4, <2>1, <2>7, <2>11
  <2>13. StateType'
    BY <1>4, <2>4, <2>10, <2>11, <2>12 DEF IInv, StateType
  <2> QED
    BY <2>11, <2>13 DEF IInv
<1> QED
  BY <1>1, <1>2, <1>3, <1>4

LEMMA CreateVarKeeps ==
    ASSUME IInv, NEW type \in Types, create_var(type)
    PROVE  IInv'
<1> DEFINE s == FindSlab(type)
<1>1. Running /\ seg_counter + Slots <= MaxCounter
  BY DEF create_var
<1>2. \/ Astray
      \/ s \in DOMAIN segs.node /\ UseSlab(s, type)
      \/ \E g \in Garbage : NewSegment(Slots, type, TRUE, {0} \cup g, Slots * seg_counter)
  BY DEF create_var, Found
<1>3. ASSUME NEW g \in Garbage, NewSegment(Slots, type, TRUE, {0} \cup g, Slots * seg_counter)
      PROVE  IInv'
  <2> DEFINE b == {0} \cup g
             tok == Slots * seg_counter
  <2>1. /\ b \in SUBSET (0 .. Slots - 1) /\ Slots \in Nat /\ Slots > 0
        /\ TRUE \in BOOLEAN
    BY MMUAssumption DEF Slots
  <2>2. tok \in Nat
    BY Types0 DEF Slots
  <2>3. NewSegment(Slots, type, TRUE, b, tok)
    BY <1>3
  <2> HIDE DEF b, tok
  <2> QED
    BY <1>1, <2>1, <2>2, <2>3, NewSegmentKeeps
<1> QED
  BY <1>1, <1>2, <1>3, AstrayKeeps, UseSlabKeeps

LEMMA CreateArrKeeps ==
    ASSUME IInv, NEW type \in Types, NEW size \in ArraySizes, create_arr(type, size)
    PROVE  IInv'
<1>1. Running /\ seg_counter + size <= MaxCounter /\ NewSegment(size, type, FALSE, {}, seg_counter)
  BY DEF create_arr
<1>2. size \in Nat /\ size > 0 /\ {} \in SUBSET (0 .. Slots - 1) /\ FALSE \in BOOLEAN /\ seg_counter \in Nat
  BY MMUAssumption, Types0
<1> QED
  BY <1>1, <1>2, NewSegmentKeeps

\* What is written through a token is in the words of a segment of the list.
LEMMA AssignKeeps ==
    ASSUME IInv, NEW k \in DOMAIN handles, NEW fields, NEW meant \in SUBSET Nat, NEW value \in {0, 1},
           Lookup(handles[k]) \in DOMAIN segs.node => fields \subseteq Nat,
           assign(handles[k], fields, meant, value)
    PROVE  IInv'
<1> DEFINE t == handles[k]
           s == Lookup(t)
           words == {Word(t, s, i) : i \in fields}
<1>1. \/ Astray \/ Exit("bad_access")
      \/ /\ s \in DOMAIN segs.node
         /\ ones' = IF value = 1 THEN ones \cup words ELSE ones \ words
         /\ written' = Meant(t, meant, value)
         /\ UNCHANGED <<GC_ENABLE, status, segs, holes, seg_counter, stack, rbp, handles>>
  BY DEF assign, gc, NullOrNode
<1>2. CASE /\ s \in DOMAIN segs.node
           /\ ones' = IF value = 1 THEN ones \cup words ELSE ones \ words
           /\ written' = Meant(t, meant, value)
           /\ UNCHANGED <<GC_ENABLE, status, segs, holes, seg_counter, stack, rbp, handles>>
  <2>1. /\ t \in HandleRecord /\ SegList(segs) /\ IsFiniteSet(DOMAIN segs.node) /\ DOMAIN segs.node \subseteq Nat
        /\ ones \subseteq Nat /\ written \in [tok : Nat, var : BOOLEAN, fields : SUBSET Nat]
    BY Types0 DEF IInv, StateType
  <2>2. t.var => s \in {x \in DOMAIN segs.node : t.tok \in Slots * x .. Slots * x + 31}
    <3>1. Nowhere \notin DOMAIN segs.node
      BY <2>1, NullInt
    <3> DEFINE P == {x \in DOMAIN segs.node : t.tok \in Slots * x .. Slots * x + 31}
               head == get_segment_head(segs)
    <3>2. t.var => s = Find(head, segs.node, P)
      BY DEF Lookup, LookupVar
    <3> HIDE DEF s, t, P, head
    <3>3. t.var => s \in P
      BY <1>2, <2>1, <3>1, <3>2, FindIn
    <3> QED
      BY <3>3 DEF P, t
  <2>3. t.tok \in Nat /\ t.var \in BOOLEAN /\ s \in Nat /\ segs.node[s].base \in Nat
    <3>1. segs.node[s] \in SegRecord
      BY <1>2, <2>1 DEF SegList
    <3> QED
      BY <1>2, <2>1, <3>1 DEF HandleRecord, SegRecord
  <2>4. fields \subseteq Nat
    BY <1>2
  <2>5. \A i \in fields : Word(t, s, i) \in Nat
    <3> HIDE DEF s, t
    <3>1. t.var => t.tok - Slots * s \in Nat
      BY <2>2, <2>3 DEF Slots
    <3>2. ASSUME NEW i \in fields PROVE (IF t.var THEN t.tok - Slots * s ELSE i) \in Nat
      BY <2>4, <3>1
    <3>3. \A a, b \in Nat : a + b \in Nat
      OBVIOUS
    <3> QED
      BY <2>3, <3>2, <3>3 DEF Word
  <2>6. ones' \subseteq Nat
    BY <1>2, <2>1, <2>5
  <2>7. written' \in [tok : Nat, var : BOOLEAN, fields : SUBSET Nat]
    <3> HIDE DEF s, t
    <3>1. [tok |-> t.tok, var |-> t.var, fields |-> meant] \in [tok : Nat, var : BOOLEAN, fields : SUBSET Nat]
      BY <2>3
    <3>2. [written EXCEPT !.fields = @ \ meant] \in [tok : Nat, var : BOOLEAN, fields : SUBSET Nat]
      BY <2>1
    <3> QED
      BY <1>2, <2>1, <3>1, <3>2 DEF Meant
  <2>8. StateType'
    BY <1>2, <2>6, <2>7 DEF IInv, StateType
  <2>9. StackExact' /\ FrameInv' /\ NoStack' /\ HeldInv'
    BY <1>2, StackStays DEF Running
  <2> QED
    BY <2>8, <2>9 DEF IInv
<1> QED
  BY <1>1, <1>2, AstrayKeeps, ExitKeeps

LEMMA AssignmentsKeep ==
    ASSUME IInv, NEW k \in DOMAIN handles, NEW value \in {0, 1},
           \/ assign_var(handles[k], value)
           \/ assign_arr(handles[k], value)
           \/ assign_arr_at(handles[k], value, handles[k].size - 1)
    PROVE  IInv'
<1>1. handles[k].size \in Nat /\ handles[k].size - 1 \in Nat
  <2>1. handles[k] \in HandleRecord /\ handles[k].size > 0
    BY Types0 DEF IInv, StateType
  <2> QED
    BY <2>1 DEF HandleRecord
<1>2. CASE assign_var(handles[k], value)
  <2>1. {0} \subseteq Nat
    OBVIOUS
  <2> QED
    BY <1>2, <2>1, AssignKeeps DEF assign_var
<1>3. CASE assign_arr(handles[k], value)
  <2> DEFINE fields == 0 .. segs.node[Lookup(handles[k])].size - 1
             meant == 0 .. handles[k].size - 1
  <2>1. meant \subseteq Nat
    OBVIOUS
  <2>2. fields \subseteq Nat
    OBVIOUS
  <2>3. assign(handles[k], fields, meant, value)
    BY <1>3 DEF assign_arr
  <2> HIDE DEF fields, meant
  <2> QED
    BY <2>1, <2>2, <2>3, AssignKeeps
<1>4. CASE assign_arr_at(handles[k], value, handles[k].size - 1)
  <2>1. {handles[k].size - 1} \subseteq Nat
    BY <1>1
  <2> QED
    BY <1>4, <2>1, AssignKeeps DEF assign_arr_at
<1> QED
  BY <1>2, <1>3, <1>4

\* With the collector a segment is released by marking it; without it, freed.
LEMMA ReleaseKeeps ==
    ASSUME IInv, NEW sl, SegList(sl), NEW s \in DOMAIN sl.node, Release(sl, s)
    PROVE  /\ SegList(segs') /\ HoleListType(holes')
           /\ DOMAIN segs'.node \subseteq DOMAIN sl.node
           /\ GC_ENABLE => DOMAIN segs'.node = DOMAIN sl.node
           /\ \A x \in DOMAIN segs'.node : segs'.node[x].onStack = sl.node[x].onStack
<1>1. CASE GC_ENABLE
  <2> DEFINE r == [sl.node[s] EXCEPT !.mark = TRUE]
             new == [sl EXCEPT !.node = [sl.node EXCEPT ![s] = r]]
  <2>1. segs' = new /\ holes' = holes
    BY <1>1 DEF Release
  <2>2. sl.node[s] \in SegRecord
    BY DEF SegList
  <2>3. r \in SegRecord /\ r.onStack = sl.node[s].onStack
    BY <2>2 DEF SegRecord
  <2> HIDE DEF r
  <2>4. /\ SegList(new) /\ DOMAIN new.node = DOMAIN sl.node /\ new.node[s] = r
        /\ \A x \in DOMAIN sl.node \ {s} : new.node[x] = sl.node[x]
    BY <2>3, OneSegment
  <2> HIDE DEF new
  <2>5. HoleListType(holes)
    BY Types0
  <2> QED
    BY <2>1, <2>3, <2>4, <2>5
<1>2. CASE ~ GC_ENABLE
  <2> DEFINE m == [segs |-> sl, holes |-> holes]
             after == free_segment(m, s)
  <2>1. segs' = after.segs /\ holes' = after.holes
    BY <1>2 DEF Release
  <2>2. m.segs = sl /\ m.holes = holes /\ m = [segs |-> m.segs, holes |-> m.holes]
    OBVIOUS
  <2>3. HoleListType(holes)
    BY Types0
  <2> HIDE DEF m
  <2>4. Lists(m)
    BY <2>2, <2>3 DEF Lists
  <2>5. /\ Lists(after) /\ DOMAIN after.segs.node = DOMAIN m.segs.node \ {s}
        /\ \A x \in DOMAIN after.segs.node : Contents(after.segs.node[x]) = Contents(m.segs.node[x])
    BY <2>2, <2>4, FreeSegment
  <2> HIDE DEF after
  <2> QED
    BY <1>2, <2>1, <2>2, <2>5 DEF Lists, Contents
<1> QED
  BY <1>1, <1>2

LEMMA FreeElemKeeps ==
    ASSUME IInv, NEW i \in DOMAIN handles, free_elem(i)
    PROVE  IInv'
<1> DEFINE s == LookupElem(handles[i].tok)
           r == [segs.node[s] EXCEPT !.bitmap = SymDiff(segs.node[s].bitmap, {0})]
           sl == [segs EXCEPT !.node = [segs.node EXCEPT ![s] = r]]
<1>1. \/ Astray \/ Exit("locked")
      \/ /\ s \in DOMAIN segs.node
         /\ Release(segs, s) \/ Release(sl, s) \/ (segs' = sl /\ holes' = holes)
         /\ handles' = RemoveAt(handles, i)
         /\ GiveUp(handles', Kept(segs'))
         /\ Running /\ UNCHANGED <<GC_ENABLE, status, seg_counter, stack, rbp>>
  BY DEF free_elem, gc, NullOrNode
<1>2. CASE /\ s \in DOMAIN segs.node
           /\ Release(segs, s) \/ Release(sl, s) \/ (segs' = sl /\ holes' = holes)
           /\ handles' = RemoveAt(handles, i)
           /\ GiveUp(handles', Kept(segs'))
           /\ Running /\ UNCHANGED <<GC_ENABLE, status, seg_counter, stack, rbp>>
  <2>1. /\ SegList(segs) /\ HoleListType(holes)
        /\ handles \in Seq(HandleRecord) /\ Len(handles) \in Nat /\ DOMAIN handles = 1 .. Len(handles)
        /\ GC_ENABLE \in BOOLEAN
    BY Types0
  <2> HIDE DEF s
  <2>2. r \in SegRecord /\ r.onStack = segs.node[s].onStack
    <3>1. segs.node[s] \in SegRecord
      BY <1>2, <2>1 DEF SegList
    <3>2. SymDiff(segs.node[s].bitmap, {0}) \subseteq 0 .. Slots - 1
      BY <3>1 DEF SymDiff, SegRecord, Slots
    <3> HIDE DEF s
    <3> QED
      BY <3>1, <3>2 DEF SegRecord
  <2> HIDE DEF r
  <2>3. /\ SegList(sl) /\ DOMAIN sl.node = DOMAIN segs.node /\ sl.node[s] = r
        /\ \A x \in DOMAIN segs.node \ {s} : sl.node[x] = segs.node[x]
    BY <1>2, <2>1, <2>2, OneSegment
  <2> HIDE DEF sl
  <2>4. \A x \in DOMAIN segs.node : sl.node[x].onStack = segs.node[x].onStack
    BY <2>2, <2>3
  <2>5. /\ SegList(segs') /\ HoleListType(holes')
        /\ DOMAIN segs'.node \subseteq DOMAIN segs.node
        /\ GC_ENABLE => DOMAIN segs'.node = DOMAIN segs.node
        /\ \A x \in DOMAIN segs'.node : segs'.node[x].onStack = segs.node[x].onStack
    <3>1. CASE Release(segs, s)
      BY <1>2, <2>1, <3>1, ReleaseKeeps
    <3>2. CASE Release(sl, s)
      <4>1. s \in DOMAIN sl.node
        BY <1>2, <2>3
      <4>2. /\ SegList(segs') /\ HoleListType(holes')
            /\ DOMAIN segs'.node \subseteq DOMAIN sl.node
            /\ GC_ENABLE => DOMAIN segs'.node = DOMAIN sl.node
            /\ \A x \in DOMAIN segs'.node : segs'.node[x].onStack = sl.node[x].onStack
        BY <2>3, <3>2, <4>1, ReleaseKeeps
      <4> QED
        BY <2>3, <2>4, <4>2
    <3>3. CASE segs' = sl /\ holes' = holes
      BY <2>1, <2>3, <2>4, <3>3
    <3> QED
      BY <1>2, <3>1, <3>2, <3>3
  <2>6. /\ handles' \in Seq(HandleRecord)
        /\ \A k \in DOMAIN handles' : \E j \in DOMAIN handles : handles'[k] = handles[j]
    <3> DEFINE a == SubSeq(handles, 1, i - 1)
               b == SubSeq(handles, i + 1, Len(handles))
    <3>1. handles' = a \o b
      BY <1>2 DEF RemoveAt
    <3>2. /\ a \in Seq(HandleRecord) /\ Len(a) = i - 1
          /\ \A k \in 1 .. i - 1 : a[k] = handles[k]
      BY <2>1
    <3>3. /\ b \in Seq(HandleRecord) /\ Len(b) = Len(handles) - i
          /\ \A k \in 1 .. Len(handles) - i : b[k] = handles[i + k]
      <4> DEFINE i1 == i + 1
                 h == Len(handles)
      <4>1. /\ i1 \in Int /\ h \in Int /\ h - i1 + 1 = h - i /\ i <= h
            /\ (IF i1 <= h THEN h - i1 + 1 ELSE 0) = h - i
            /\ \A k \in 1 .. h - i : i1 + k - 1 = i + k
            /\ \A k \in i1 .. h : handles[k] \in HandleRecord
        BY <2>1
      <4>2. b = SubSeq(handles, i1, h)
        OBVIOUS
      <4> HIDE DEF b, i1, h
      <4>3. /\ b \in Seq(HandleRecord) /\ Len(b) = h - i
            /\ \A k \in 1 .. h - i : b[k] = handles[i1 + k - 1]
        BY <4>1, <4>2, SubSeqProperties
      <4> QED
        BY <4>1, <4>3 DEF h
    <3> HIDE DEF a, b
    <3>4. handles' \in Seq(HandleRecord) /\ DOMAIN handles' = 1 .. Len(handles) - 1
      <4>1. handles' \in Seq(HandleRecord) /\ Len(handles') = Len(a) + Len(b)
        <5>1. a \o b \in Seq(HandleRecord) /\ Len(a \o b) = Len(a) + Len(b)
          BY <3>2, <3>3, ConcatProperties
        <5> QED
          BY <3>1, <5>1
      <4>2. i \in 1 .. Len(handles) /\ (i - 1) + (Len(handles) - i) = Len(handles) - 1
        BY <2>1
      <4>3. Len(handles') = Len(handles) - 1
        BY <3>2, <3>3, <4>1, <4>2
      <4> QED
        BY <4>1, <4>3
    <3>5. ASSUME NEW k \in 1 .. Len(handles) - 1
          PROVE  handles'[k] = handles[k] \/ handles'[k] = handles[k + 1]
      <4>1. CASE k \in 1 .. i - 1
        BY <2>1, <3>1, <3>2, <3>3, <4>1
      <4>2. CASE k \notin 1 .. i - 1
        <5>1. /\ k - (i - 1) \in 1 .. Len(handles) - i
              /\ i + (k - (i - 1)) = k + 1
          BY <2>1, <4>2
        <5>2. handles'[k] = b[k - (i - 1)]
          <6>1. /\ \A n \in 1 .. Len(a) + Len(b) :
                       handles'[n] = IF n <= Len(a) THEN a[n] ELSE b[n - Len(a)]
            BY <3>1, <3>2, <3>3, ConcatProperties
          <6>2. k \in 1 .. Len(a) + Len(b) /\ ~ (k <= Len(a)) /\ Len(a) = i - 1
            BY <2>1, <3>2, <3>3, <4>2
          <6> QED
            BY <6>1, <6>2
        <5>3. b[k - (i - 1)] = handles[i + (k - (i - 1))]
          BY <3>3, <5>1
        <5> QED
          BY <5>1, <5>2, <5>3
      <4> QED
        BY <4>1, <4>2
    <3>6. \A k \in 1 .. Len(handles) - 1 : k \in DOMAIN handles /\ k + 1 \in DOMAIN handles
      BY <2>1
    <3> QED
      BY <3>4, <3>5, <3>6
  <2>7. StateType'
    <3>1. \A k \in DOMAIN handles' : handles'[k].size > 0
      BY <2>6 DEF IInv, StateType
    <3>2. Kept(segs') \subseteq Nat
      BY DEF Kept, IInv, StateType
    <3>3. ones' \subseteq Nat /\ written' \in [tok : Nat, var : BOOLEAN, fields : SUBSET Nat]
      BY <1>2, <3>2, GiveUpType
    <3>4. DOMAIN segs'.node \subseteq 0 .. seg_counter - 1
      BY <2>5 DEF IInv, StateType
    <3> QED
      BY <1>2, <2>5, <2>6, <3>1, <3>3, <3>4 DEF IInv, StateType
  <2>8. StackExact' /\ FrameInv' /\ NoStack' /\ HeldInv'
    <3>1. \A x \in DOMAIN segs.node : segs.node[x].onStack => x \in DOMAIN segs'.node
      <4>1. CASE GC_ENABLE
        BY <2>5, <4>1
      <4>2. CASE ~ GC_ENABLE
        <5>1. SegNodes = {}
          BY <4>2 DEF IInv, NoStack, SegNodes
        <5> QED
          BY <1>2, <5>1 DEF IInv, StackExact
      <4> QED
        BY <4>1, <4>2
    <3> QED
      BY <1>2, <2>5, <2>6, <3>1, StackStays
  <2> QED
    BY <2>7, <2>8 DEF IInv
<1> QED
  BY <1>1, <1>2, AstrayKeeps, ExitKeeps

-----------------------------------------------------------------------------
(* The theorems.                                                           *)

LEMMA InitInv ==
    ASSUME Init
    PROVE  IInv
<1> DEFINE none == [node |-> <<>>, var_head |-> Null, var_tail |-> Null,
                    arr_head |-> Null, arr_tail |-> Null, ok |-> TRUE]
<1>1. /\ GC_ENABLE \in Modes /\ status = "running" /\ segs = none
      /\ holes = OneHole(Words) /\ seg_counter = 0 /\ handles = <<>> /\ ones = {} /\ written = Nothing
      /\ stack = IF GC_ENABLE THEN <<FrameNode(1), FrameNode(1)>> ELSE <<>>
      /\ rbp = IF GC_ENABLE THEN 2 ELSE 0
  BY DEF Init
<1>2. GC_ENABLE \in BOOLEAN /\ Words \in Nat /\ MaxCounter \in Nat
  BY <1>1, MMUAssumption
<1>3. SegList(segs) /\ DOMAIN segs.node = {}
  <2> DEFINE empty == <<>>
  <2>1. empty \in [{} -> SegRecord] /\ DOMAIN empty = {}
    OBVIOUS
  <2> HIDE DEF empty
  <2>2. segs = [node |-> empty, var_head |-> Null, var_tail |-> Null,
                arr_head |-> Null, arr_tail |-> Null, ok |-> TRUE]
    BY <1>1 DEF empty
  <2> QED
    BY <2>1, <2>2, NullInt DEF SegList
<1>4. HoleListType(holes)
  BY <1>1, <1>2, OneHoleType
<1>5. /\ FrameNode(1) \in StackNode /\ FrameNode(1).frame /\ FrameNode(1).ref = 1
  BY DEF FrameNode, StackNode
<1>6. Nothing \in [tok : Nat, var : BOOLEAN, fields : SUBSET Nat]
  BY DEF Nothing
<1>7. handles \in Seq(HandleRecord) /\ DOMAIN handles = {}
  <2>1. <<>> \in Seq(HandleRecord) /\ DOMAIN <<>> = {}
    OBVIOUS
  <2> QED
    BY <1>1, <2>1
<1>8. /\ stack \in Seq(StackNode) /\ rbp \in 0 .. Len(stack)
      /\ GC_ENABLE => DOMAIN stack = 1 .. 2 /\ stack[1] = FrameNode(1) /\ stack[2] = FrameNode(1) /\ rbp = 2
      /\ ~ GC_ENABLE => stack = <<>> /\ DOMAIN stack = {}
  <2>1. CASE GC_ENABLE
    BY <1>1, <1>5, <2>1
  <2>2. CASE ~ GC_ENABLE
    <3>1. <<>> \in Seq(StackNode) /\ DOMAIN <<>> = {} /\ Len(<<>>) = 0
      OBVIOUS
    <3> QED
      BY <1>1, <2>2, <3>1
  <2> QED
    BY <2>1, <2>2
<1>9. StateType
  BY <1>1, <1>2, <1>3, <1>4, <1>6, <1>7, <1>8 DEF StateType
<1>10. SegNodes = {}
  BY <1>2, <1>5, <1>8 DEF SegNodes
<1>11. StackExact /\ HeldInv
  BY <1>3, <1>7, <1>10 DEF StackExact, HeldInv
<1>12. NoStack
  BY <1>8 DEF NoStack
<1>13. FrameInv
  <2> SUFFICES ASSUME GC_ENABLE PROVE FrameInv
    BY DEF FrameInv
  <2>1. \A i \in DOMAIN stack : i \in {1, 2} /\ stack[i] = FrameNode(1)
    BY <1>8
  <2>2. \A i \in DOMAIN stack : i <= rbp /\ stack[i].ref = 1 /\ (i # 1 => i = 2)
    BY <1>5, <1>8, <2>1
  <2>3. \A i \in DOMAIN stack : i # 1 => /\ stack[i].ref \in 1 .. i - 1
                                        /\ \A j \in stack[i].ref + 1 .. i - 1 : FALSE
    BY <2>2
  <2>4. rbp \in DOMAIN stack /\ stack[rbp].frame /\ stack[1] = FrameNode(1) /\ 1 \in DOMAIN stack
    BY <1>5, <1>8
  <2>5. ASSUME NEW i \in DOMAIN stack, i # 1
        PROVE  stack[i].ref = 1 /\ stack[stack[i].ref].frame
    BY <1>5, <2>2, <2>4
  <2> QED
    BY <2>2, <2>3, <2>4, <2>5 DEF FrameInv
<1> QED
  BY <1>9, <1>11, <1>12, <1>13 DEF IInv

LEMMA NextKeeps ==
    ASSUME IInv, [Next]_vars
    PROVE  IInv'
<1>1. CASE UNCHANGED vars
  <2>1. UNCHANGED <<GC_ENABLE, status, segs, holes, seg_counter, stack, rbp, handles, ones, written>>
    BY <1>1 DEF vars, gc, memory
  <2>2. StateType'
    BY <2>1 DEF IInv, StateType
  <2>3. StackExact' /\ FrameInv' /\ NoStack' /\ HeldInv'
    BY <2>1, StackStays DEF Running
  <2> QED
    BY <2>2, <2>3 DEF IInv
<1>2. CASE Next
  BY <1>2, PushRbpKeeps, PopFrameKeeps, GcRunKeeps, CreateVarKeeps, CreateArrKeeps, AssignmentsKeep,
     FreeElemKeeps DEF Next
<1> QED
  BY <1>1, <1>2

LEMMA Invariance == Spec => []IInv
<1>1. Init => IInv
  BY InitInv
<1>2. IInv /\ [Next]_vars => IInv'
  BY NextKeeps
<1> QED
  BY <1>1, <1>2, PTL DEF Spec

\* However the client opens and leaves frames, creates, writes and releases,
\* and whenever the collector runs: the collector's stack has a node for each
\* segment whose bit says so and for no other (gc_push, gc_pop_frame).
THEOREM CollectorStackExact == Spec => []StackInv
<1>1. IInv => StackInv
  BY InvSafe
<1> QED
  BY <1>1, Invariance, PTL

\* With the collector, no round of it frees what an open frame has created
\* (gc_mark, gc_sweep).
THEOREM ScopesSafe == Spec => [](GC_ENABLE => ScopeKept)
<1>1. IInv => (GC_ENABLE => ScopeKept)
  BY InvSafe
<1> QED
  BY <1>1, Invariance, PTL

-----------------------------------------------------------------------------
(* Lemmas about the words that the holes and the segments take up.         *)

In(w, b, n) == b <= w /\ w < b + n

Blocks(node) == \A x \in DOMAIN node : node[x].base \in Nat /\ node[x].size \in Nat

SameSpan(r, q) == r.base = q.base /\ r.size = q.size

\* Word w belongs to a node of the list, whether or not a walk finds that node.
Covers(node, w) == \E x \in DOMAIN node : In(w, node[x].base, node[x].size)

\* No node is empty, and no word belongs to two.
Apart(node) ==
    /\ \A x \in DOMAIN node : node[x].size # 0
    /\ \A x, y \in DOMAIN node, w \in Nat :
           In(w, node[x].base, node[x].size) /\ In(w, node[y].base, node[y].size) => x = y

\* Pointers are of no account.
LEMMA WordsStay ==
    ASSUME NEW node, NEW new, DOMAIN new = DOMAIN node,
           \A x \in DOMAIN node : SameSpan(new[x], node[x])
    PROVE  /\ Blocks(node) => Blocks(new)
           /\ Apart(node) => Apart(new)
           /\ \A w \in Nat : Covers(new, w) <=> Covers(node, w)
  BY DEF SameSpan, Blocks, Apart, Covers

\* Node h is new, with n words from b on, and the others keep theirs.
Adds(node, new, h, b, n) ==
    /\ h \notin DOMAIN node /\ DOMAIN new = DOMAIN node \cup {h}
    /\ \A x \in DOMAIN node : SameSpan(new[x], node[x])
    /\ new[h].base = b /\ new[h].size = n

\* Node h gets n words more, from b on, that lie before or behind its own.
Grows(node, new, h, b, n) ==
    /\ DOMAIN new = DOMAIN node
    /\ \A x \in DOMAIN node \ {h} : SameSpan(new[x], node[x])
    /\ new[h].size = node[h].size + n
    /\ \/ new[h].base = node[h].base /\ node[h].base + node[h].size = b
       \/ new[h].base = b /\ node[h].base = b + n

\* Node h is gone, and p has its words.
Joins(node, new, p, h) ==
    /\ DOMAIN new = DOMAIN node \ {h}
    /\ \A x \in DOMAIN node \ {h, p} : SameSpan(new[x], node[x])
    /\ new[p].base = node[p].base /\ new[p].size = node[p].size + node[h].size

\* The first n words of node h are gone, and h if it has no others.
Takes(node, new, h, n) ==
    /\ \A x \in DOMAIN node \ {h} : SameSpan(new[x], node[x])
    /\ IF n = node[h].size THEN DOMAIN new = DOMAIN node \ {h}
       ELSE /\ DOMAIN new = DOMAIN node
            /\ new[h].base = node[h].base + n /\ new[h].size = node[h].size - n

\* Words of no node become a node of their own.
LEMMA WordsAdded ==
    ASSUME NEW node, Blocks(node), Apart(node), NEW b \in Nat, NEW n \in Nat \ {0},
           \A w \in Nat : In(w, b, n) => ~ Covers(node, w),
           NEW h, NEW new, Adds(node, new, h, b, n)
    PROVE  /\ Blocks(new) /\ Apart(new)
           /\ \A w \in Nat : Covers(new, w) <=> Covers(node, w) \/ In(w, b, n)
<1>1. Blocks(new)
  BY DEF Adds, Blocks, SameSpan
<1>2. \A x \in DOMAIN node, w \in Nat : In(w, new[x].base, new[x].size) => ~ In(w, b, n)
  BY DEF Adds, SameSpan, Covers
<1>3. Apart(new)
  BY <1>2 DEF Adds, SameSpan, Apart
<1>4. ASSUME NEW w \in Nat
      PROVE  Covers(new, w) <=> Covers(node, w) \/ In(w, b, n)
  BY DEF Adds, SameSpan, Covers
<1> QED
  BY <1>1, <1>3, <1>4

\* Words of no node are added to the node before or behind them.
LEMMA WordsGrown ==
    ASSUME NEW node, Blocks(node), Apart(node), NEW b \in Nat, NEW n \in Nat,
           \A w \in Nat : In(w, b, n) => ~ Covers(node, w),
           NEW h \in DOMAIN node, NEW new, Grows(node, new, h, b, n)
    PROVE  /\ Blocks(new) /\ Apart(new)
           /\ \A w \in Nat : Covers(new, w) <=> Covers(node, w) \/ In(w, b, n)
<1>1. Blocks(new)
  BY DEF Grows, Blocks, SameSpan
<1>2. \A w \in Nat : In(w, new[h].base, new[h].size)
                        <=> In(w, node[h].base, node[h].size) \/ In(w, b, n)
  BY DEF Grows, Blocks, In
<1>3. new[h].size # 0
  BY DEF Grows, Blocks, Apart
<1>4. \A x \in DOMAIN node, w \in Nat : In(w, node[x].base, node[x].size) => ~ In(w, b, n)
  BY DEF Covers
<1>5. ASSUME NEW x \in DOMAIN node, NEW y \in DOMAIN node, NEW w \in Nat,
             In(w, new[x].base, new[x].size), In(w, new[y].base, new[y].size)
      PROVE  x = y
  BY <1>2, <1>4, <1>5 DEF Grows, SameSpan, Apart
<1>6. ASSUME NEW w \in Nat
      PROVE  Covers(new, w) <=> Covers(node, w) \/ In(w, b, n)
  BY <1>2 DEF Grows, SameSpan, Covers
<1> QED
  BY <1>1, <1>3, <1>5, <1>6 DEF Grows, SameSpan, Apart

\* A node takes over the words of the one behind it.
LEMMA WordsJoined ==
    ASSUME NEW node, Blocks(node), Apart(node), NEW p \in DOMAIN node, NEW h \in DOMAIN node \ {p},
           node[p].base + node[p].size = node[h].base,
           NEW new, Joins(node, new, p, h)
    PROVE  /\ Blocks(new) /\ Apart(new)
           /\ \A w \in Nat : Covers(new, w) <=> Covers(node, w)
<1>1. Blocks(new)
  BY DEF Joins, Blocks, SameSpan
<1>2. \A w \in Nat : In(w, new[p].base, new[p].size)
                        <=> \/ In(w, node[p].base, node[p].size)
                            \/ In(w, node[h].base, node[h].size)
  BY DEF Joins, Blocks, In
<1>3. new[p].size # 0
  BY DEF Joins, Blocks, Apart
<1>4. ASSUME NEW x \in DOMAIN new, NEW y \in DOMAIN new, NEW w \in Nat,
             In(w, new[x].base, new[x].size), In(w, new[y].base, new[y].size)
      PROVE  x = y
  BY <1>2, <1>4 DEF Joins, SameSpan, Apart
<1>5. ASSUME NEW w \in Nat
      PROVE  Covers(new, w) <=> Covers(node, w)
  BY <1>2 DEF Joins, SameSpan, Covers
<1> QED
  BY <1>1, <1>3, <1>4, <1>5 DEF Joins, SameSpan, Apart

\* The first m words are taken from a node, which goes if no word is left.
LEMMA WordsTaken ==
    ASSUME NEW node, Blocks(node), Apart(node), NEW h \in DOMAIN node,
           NEW m \in Nat, m <= node[h].size, NEW new, Takes(node, new, h, m)
    PROVE  /\ Blocks(new) /\ Apart(new)
           /\ \A w \in Nat : Covers(new, w) <=> Covers(node, w) /\ ~ In(w, node[h].base, m)
<1>1. Blocks(new)
  BY DEF Takes, Blocks, SameSpan
<1>2. h \in DOMAIN new => /\ new[h].size # 0
                          /\ \A w \in Nat : In(w, new[h].base, new[h].size)
                                 <=> In(w, node[h].base, node[h].size) /\ ~ In(w, node[h].base, m)
  BY DEF Takes, Blocks, In
<1>3. h \notin DOMAIN new => m = node[h].size
  BY DEF Takes
<1>4. \A w \in Nat : In(w, node[h].base, m) => In(w, node[h].base, node[h].size)
  BY DEF Takes, Blocks, In
<1>5. ASSUME NEW x \in DOMAIN new, NEW y \in DOMAIN new, NEW w \in Nat,
             In(w, new[x].base, new[x].size), In(w, new[y].base, new[y].size)
      PROVE  x = y
  BY <1>2, <1>5 DEF Takes, SameSpan, Apart
<1>6. ASSUME NEW w \in Nat
      PROVE  Covers(new, w) <=> Covers(node, w) /\ ~ In(w, node[h].base, m)
  <2>1. ASSUME Covers(new, w) PROVE Covers(node, w) /\ ~ In(w, node[h].base, m)
    <3>1. PICK x \in DOMAIN new : In(w, new[x].base, new[x].size)
      BY <2>1 DEF Takes, Covers
    <3>2. x \in DOMAIN node /\ In(w, node[x].base, node[x].size)
      BY <1>2, <3>1 DEF Takes, SameSpan
    <3>3. ~ In(w, node[h].base, m)
      BY <1>2, <1>4, <3>1, <3>2 DEF Takes, Apart
    <3> QED
      BY <3>2, <3>3 DEF Takes, Covers
  <2>2. ASSUME Covers(node, w), ~ In(w, node[h].base, m) PROVE Covers(new, w)
    BY <1>2, <1>3, <2>2 DEF Takes, SameSpan, Covers
  <2> QED
    BY <2>1, <2>2
<1> QED
  BY <1>1, <1>2, <1>5, <1>6 DEF Takes, SameSpan, Apart

\* A node leaves the list.
LEMMA WordsDropped ==
    ASSUME NEW node, Blocks(node), Apart(node), NEW s \in DOMAIN node,
           NEW new, DOMAIN new = DOMAIN node \ {s},
           \A x \in DOMAIN new : SameSpan(new[x], node[x])
    PROVE  /\ Blocks(new) /\ Apart(new)
           /\ \A w \in Nat : Covers(new, w) <=> Covers(node, w) /\ ~ In(w, node[s].base, node[s].size)
<1>1. Blocks(new) /\ Apart(new)
  BY DEF Blocks, SameSpan, Apart
<1>2. ASSUME NEW w \in Nat
      PROVE  Covers(new, w) <=> Covers(node, w) /\ ~ In(w, node[s].base, node[s].size)
  BY DEF SameSpan, Covers, Apart
<1> QED
  BY <1>1, <1>2

LEMMA HoleBlocks ==
    ASSUME NEW hs, HoleListType(hs)
    PROVE  Blocks(hs.node)
  BY DEF HoleListType, HoleRecord, Blocks

LEMMA LinkSpans ==
    ASSUME NEW D, NEW node \in [D -> HoleRecord], NEW p, NEW q \in Int
    PROVE  /\ \A x \in D : SameSpan(SetNext(node, p, q)[x], node[x])
           /\ \A x \in D : SameSpan(SetPrev(node, p, q)[x], node[x])
  BY DEF SetNext, SetPrev, HoleRecord, SameSpan

\* A hole that leaves the list leaves the others their words.
LEMMA DeleteHoleSpans ==
    ASSUME NEW hs, HoleListType(hs), NEW h \in DOMAIN hs.node
    PROVE  /\ DOMAIN delete_hole(hs, h).node = DOMAIN hs.node \ {h}
           /\ \A x \in DOMAIN hs.node \ {h} : SameSpan(delete_hole(hs, h).node[x], hs.node[x])
           /\ delete_hole(hs, h).ok => hs.ok
<1> DEFINE D == DOMAIN hs.node
           n == hs.node[h]
           one == SetPrev(hs.node, n.next, n.prev)
           two == SetNext(one, n.prev, n.next)
<1>1. n.next \in Int /\ n.prev \in Int /\ hs.node \in [D -> HoleRecord]
  BY DEF HoleListType, HoleRecord
<1>2. one \in [D -> HoleRecord] /\ \A x \in D : SameSpan(one[x], hs.node[x])
  <2> HIDE DEF n, D
  <2> QED
    BY <1>1, HoleLinks, LinkSpans
<1>3. two \in [D -> HoleRecord] /\ \A x \in D : SameSpan(two[x], one[x])
  <2> HIDE DEF one, n, D
  <2> QED
    BY <1>1, <1>2, HoleLinks, LinkSpans
<1>4. delete_hole(hs, h).node = Without(two, h) /\ (delete_hole(hs, h).ok => hs.ok)
  BY DEF delete_hole
<1> HIDE DEF two, one
<1>5. /\ DOMAIN Without(two, h) = D \ {h}
      /\ \A x \in D \ {h} : Without(two, h)[x] = two[x]
  BY <1>3 DEF Without
<1> QED
  BY <1>2, <1>3, <1>4, <1>5 DEF SameSpan

LEMMA WordsSpans ==
    ASSUME NEW hs, HoleListType(hs), NEW h \in DOMAIN hs.node, NEW b \in Nat, NEW n \in Nat
    PROVE  LET new == [hs EXCEPT !.node = SetWords(@, h, b, n)]
           IN  /\ DOMAIN new.node = DOMAIN hs.node
               /\ \A x \in DOMAIN hs.node \ {h} : SameSpan(new.node[x], hs.node[x])
               /\ new.node[h].base = b /\ new.node[h].size = n
               /\ new.ok = hs.ok
<1> DEFINE node == SetWords(hs.node, h, b, n)
           D == DOMAIN hs.node
           new == [hs EXCEPT !.node = node]
<1>1. hs.node \in [D -> HoleRecord]
  BY DEF HoleListType
<1>2. DOMAIN node = D /\ node[h].base = b /\ node[h].size = n /\ \A x \in D \ {h} : node[x] = hs.node[x]
  BY <1>1 DEF SetWords, HoleRecord
<1> HIDE DEF node
<1>3. new.node = node /\ new.ok = hs.ok
  BY DEF HoleListType
<1> QED
  BY <1>2, <1>3 DEF SameSpan, node

\* The holes have got, besides what they had, n words from b on; only a list
\* that is broken may have lost some.
Gains(hs, after, b, n) ==
    /\ Apart(after.node)
    /\ \A w \in Nat : Covers(after.node, w) => Covers(hs.node, w) \/ In(w, b, n)
    /\ after.ok => hs.ok /\ \A w \in Nat : Covers(hs.node, w) \/ In(w, b, n) => Covers(after.node, w)

\* Words that are no hole's.
Free(hs, b, n) ==
    /\ HoleListType(hs) /\ Apart(hs.node)
    /\ \A w \in Nat : In(w, b, n) => ~ Covers(hs.node, w)

LEMMA NothingGained ==
    ASSUME NEW hs, NEW b \in Nat, NEW n \in Nat, Free(hs, b, n)
    PROVE  Gains(hs, [hs EXCEPT !.ok = FALSE], b, n)
<1>1. [hs EXCEPT !.ok = FALSE].node = hs.node /\ [hs EXCEPT !.ok = FALSE].ok = FALSE
  BY DEF Free, HoleListType
<1> QED
  BY <1>1 DEF Free, Gains

LEMMA GrownGains ==
    ASSUME NEW hs, NEW b \in Nat, NEW n \in Nat, Free(hs, b, n),
           NEW h \in DOMAIN hs.node, hs.node[h].base + hs.node[h].size = b
    PROVE  Gains(hs, Grown(hs, h, n), b, n)
<1> DEFINE after == Grown(hs, h, n)
<1>1. Blocks(hs.node) /\ hs.node[h].base \in Nat /\ hs.node[h].size + n \in Nat
  BY HoleBlocks DEF Free, Blocks
<1>2. /\ DOMAIN after.node = DOMAIN hs.node
      /\ \A x \in DOMAIN hs.node \ {h} : SameSpan(after.node[x], hs.node[x])
      /\ after.node[h].base = hs.node[h].base /\ after.node[h].size = hs.node[h].size + n
      /\ after.ok = hs.ok
  BY <1>1, WordsSpans DEF Grown, Free
<1> HIDE DEF after
<1>3. /\ Apart(after.node)
      /\ \A w \in Nat : Covers(after.node, w) <=> Covers(hs.node, w) \/ In(w, b, n)
  <2>1. Apart(hs.node) /\ \A w \in Nat : In(w, b, n) => ~ Covers(hs.node, w)
    BY DEF Free
  <2>2. Grows(hs.node, after.node, h, b, n)
    BY <1>2 DEF Grows
  <2> QED
    BY <1>1, <2>1, <2>2, WordsGrown
<1> QED
  BY <1>2, <1>3 DEF Gains, after

LEMMA AppendHoleGains ==
    ASSUME NEW hs, NEW b \in Nat, NEW n \in Nat \ {0}, Free(hs, b, n),
           NEW h \in Nat \ DOMAIN hs.node
    PROVE  Gains(hs, AppendHole(hs, h, b, n), b, n)
<1> DEFINE new == [prev |-> hs.tail, next |-> Null, base |-> b, size |-> n]
           D == DOMAIN hs.node
           linked == SetNext(hs.node, hs.tail, h)
           first == [hs EXCEPT !.node = With(hs.node, h, new), !.head = h, !.tail = h]
           last == [hs EXCEPT !.node = With(linked, h, new), !.tail = h]
<1>1. /\ hs.node \in [D -> HoleRecord] /\ h \in Int /\ h \notin D /\ Blocks(hs.node)
      /\ new \in HoleRecord
  BY NullInt, HoleBlocks DEF Free, HoleListType, HoleRecord
<1>2. linked \in [D -> HoleRecord] /\ \A x \in D : SameSpan(linked[x], hs.node[x])
  <2> HIDE DEF new, D
  <2> QED
    BY <1>1, HoleLinks, LinkSpans
<1>3. new.base = b /\ new.size = n
  OBVIOUS
<1>4. ASSUME NEW node \in [D -> HoleRecord], \A x \in D : SameSpan(node[x], hs.node[x]),
             NEW after, after.node = With(node, h, new), after.ok = hs.ok
      PROVE  Gains(hs, after, b, n)
  <2> HIDE DEF new, D, linked
  <2>1. /\ DOMAIN With(node, h, new) = D \cup {h} /\ With(node, h, new)[h] = new
        /\ \A x \in D \ {h} : With(node, h, new)[x] = node[x]
    BY <1>4 DEF With
  <2>2. /\ DOMAIN after.node = DOMAIN hs.node \cup {h}
        /\ after.node[h].base = b /\ after.node[h].size = n
        /\ \A x \in DOMAIN hs.node : SameSpan(after.node[x], hs.node[x])
    BY <1>1, <1>3, <1>4, <2>1 DEF D
  <2>3. /\ Apart(after.node)
        /\ \A w \in Nat : Covers(after.node, w) <=> Covers(hs.node, w) \/ In(w, b, n)
    <3>1. Adds(hs.node, after.node, h, b, n)
      BY <2>2 DEF Adds
    <3>2. Apart(hs.node) /\ \A w \in Nat : In(w, b, n) => ~ Covers(hs.node, w)
      BY DEF Free
    <3> QED
      BY <1>1, <3>1, <3>2, WordsAdded
  <2> QED
    BY <1>4, <2>3 DEF Gains
<1>5. \A x \in D : SameSpan(hs.node[x], hs.node[x])
  BY DEF SameSpan
<1>6. /\ first.node = With(hs.node, h, new) /\ first.ok = hs.ok
      /\ last.node = With(linked, h, new) /\ last.ok = hs.ok
  <2> HIDE DEF new, linked
  <2> QED
    BY DEF Free, HoleListType
<1>7. AppendHole(hs, h, b, n) =
          IF hs.tail = Null THEN first
          ELSE IF hs.tail \notin D THEN [hs EXCEPT !.ok = FALSE]
          ELSE IF hs.node[hs.tail].base + hs.node[hs.tail].size = b THEN Grown(hs, hs.tail, n)
          ELSE last
  BY DEF AppendHole
<1> HIDE DEF new, linked, first, last, D
<1>8. Gains(hs, first, b, n) /\ Gains(hs, last, b, n)
  BY <1>1, <1>2, <1>4, <1>5, <1>6
<1>9. hs.tail \in DOMAIN hs.node /\ hs.node[hs.tail].base + hs.node[hs.tail].size = b
          => Gains(hs, Grown(hs, hs.tail, n), b, n)
  BY GrownGains
<1>10. Gains(hs, [hs EXCEPT !.ok = FALSE], b, n)
  BY NothingGained
<1> QED
  BY <1>7, <1>8, <1>9, <1>10 DEF D

LEMMA PrependHoleGains ==
    ASSUME NEW hs, NEW b \in Nat, NEW n \in Nat \ {0}, Free(hs, b, n),
           NEW h \in Nat \ DOMAIN hs.node, NEW loc \in DOMAIN hs.node
    PROVE  Gains(hs, PrependHole(hs, h, b, n, loc), b, n)
<1> DEFINE new == [prev |-> Null, next |-> loc, base |-> b, size |-> n]
           D == DOMAIN hs.node
           linked == SetPrev(hs.node, loc, h)
           first == [hs EXCEPT !.node = With(linked, h, new), !.head = h]
           joined == [hs EXCEPT !.node = SetWords(@, loc, b, hs.node[loc].size + n)]
<1>1. /\ hs.node \in [D -> HoleRecord] /\ h \in Int /\ h \notin D /\ Blocks(hs.node)
      /\ new \in HoleRecord /\ hs.node[loc].size + n \in Nat
  BY NullInt, HoleBlocks DEF Free, HoleListType, HoleRecord
<1>2. linked \in [D -> HoleRecord] /\ \A x \in D : SameSpan(linked[x], hs.node[x])
  <2> HIDE DEF new, D
  <2> QED
    BY <1>1, HoleLinks, LinkSpans
<1>3. new.base = b /\ new.size = n
  OBVIOUS
<1>4. first.node = With(linked, h, new) /\ first.ok = hs.ok
  <2> HIDE DEF new, linked
  <2> QED
    BY DEF Free, HoleListType
<1>5. PrependHole(hs, h, b, n, loc) = IF hs.node[loc].base = b + n THEN joined ELSE first
  BY DEF PrependHole
<1>6. ASSUME hs.node[loc].base = b + n
      PROVE  Gains(hs, joined, b, n)
  <2>1. /\ DOMAIN joined.node = D
        /\ \A x \in D \ {loc} : SameSpan(joined.node[x], hs.node[x])
        /\ joined.node[loc].base = b /\ joined.node[loc].size = hs.node[loc].size + n
        /\ joined.ok = hs.ok
    BY <1>1, WordsSpans DEF Free
  <2> HIDE DEF joined
  <2>2. /\ Apart(joined.node)
        /\ \A w \in Nat : Covers(joined.node, w) <=> Covers(hs.node, w) \/ In(w, b, n)
    <3>1. Grows(hs.node, joined.node, loc, b, n)
      BY <1>6, <2>1 DEF Grows
    <3>2. Apart(hs.node) /\ \A w \in Nat : In(w, b, n) => ~ Covers(hs.node, w)
      BY DEF Free
    <3> QED
      BY <1>1, <3>1, <3>2, WordsGrown
  <2> QED
    BY <2>1, <2>2 DEF Gains
<1> HIDE DEF new, linked, first, joined, D
<1>7. Gains(hs, first, b, n)
  <2>1. /\ DOMAIN With(linked, h, new) = D \cup {h} /\ With(linked, h, new)[h] = new
        /\ \A x \in D \ {h} : With(linked, h, new)[x] = linked[x]
    BY <1>2 DEF With
  <2>2. /\ DOMAIN first.node = DOMAIN hs.node \cup {h}
        /\ first.node[h].base = b /\ first.node[h].size = n
        /\ \A x \in DOMAIN hs.node : SameSpan(first.node[x], hs.node[x])
    BY <1>1, <1>2, <1>3, <1>4, <2>1 DEF D
  <2>3. /\ Apart(first.node)
        /\ \A w \in Nat : Covers(first.node, w) <=> Covers(hs.node, w) \/ In(w, b, n)
    <3>1. Adds(hs.node, first.node, h, b, n)
      BY <2>2 DEF Adds
    <3>2. Apart(hs.node) /\ \A w \in Nat : In(w, b, n) => ~ Covers(hs.node, w)
      BY DEF Free
    <3> QED
      BY <1>1, <3>1, <3>2, WordsAdded
  <2> QED
    BY <1>4, <2>3 DEF Gains
<1> QED
  BY <1>5, <1>6, <1>7

LEMMA LinkBetweenSpans ==
    ASSUME NEW hs, HoleListType(hs), NEW h \in Nat \ DOMAIN hs.node, NEW b \in Nat, NEW n \in Nat,
           NEW loc \in DOMAIN hs.node, hs.node[loc].prev \in DOMAIN hs.node
    PROVE  Adds(hs.node, LinkBetween(hs.node, h, b, n, loc), h, b, n)
<1> DEFINE D == DOMAIN hs.node
           E == D \cup {h}
           next == hs.node[hs.node[loc].prev].next
           new == [prev |-> Null, next |-> next, base |-> b, size |-> n]
           node0 == SetPrev(hs.node, next, h)
           node1 == With(node0, h, new)
           node2 == SetNext(node1, node1[loc].prev, h)
           node3 == SetPrev(node2, h, node2[loc].prev)
<1>1. /\ hs.node \in [D -> HoleRecord] /\ h \in Int /\ h \notin D /\ loc \in D /\ next \in Int
      /\ new \in HoleRecord /\ new.base = b /\ new.size = n
  BY NullInt DEF HoleListType, HoleRecord
<1>2. node0 \in [D -> HoleRecord] /\ \A x \in D : SameSpan(node0[x], hs.node[x])
  <2> HIDE DEF next, D
  <2> QED
    BY <1>1, HoleLinks, LinkSpans
<1> HIDE DEF node0, new, next
<1>3. /\ node1 \in [E -> HoleRecord]
      /\ node1[h].base = b /\ node1[h].size = n /\ \A x \in D : SameSpan(node1[x], hs.node[x])
  <2>1. /\ DOMAIN node1 = E /\ node1[h] = new /\ \A x \in D : node1[x] = node0[x]
    <3> HIDE DEF D
    <3> QED
      BY <1>1, <1>2 DEF With
  <2>2. node1 \in [E -> HoleRecord]
    <3> HIDE DEF D
    <3> QED
      BY <1>1, <1>2 DEF With
  <2> QED
    BY <1>1, <1>2, <2>1, <2>2
<1> HIDE DEF node1
<1>4. node1[loc].prev \in Int
  BY <1>3 DEF HoleRecord
<1>5. node2 \in [E -> HoleRecord] /\ \A x \in E : SameSpan(node2[x], node1[x])
  <2> HIDE DEF E
  <2> QED
    BY <1>1, <1>3, HoleLinks, LinkSpans
<1>6. node2[loc].prev \in Int
  BY <1>5 DEF HoleRecord
<1> HIDE DEF node2
<1>7. node3 \in [E -> HoleRecord] /\ \A x \in E : SameSpan(node3[x], node2[x])
  <2> HIDE DEF E
  <2> QED
    BY <1>5, <1>6, HoleLinks, LinkSpans
<1>8. LinkBetween(hs.node, h, b, n, loc) = node3
  BY DEF LinkBetween, node2, node1, node0, new, next
<1> HIDE DEF node3
<1>9. DOMAIN node3 = DOMAIN hs.node \cup {h}
  BY <1>7
<1>10. /\ node3[h].base = b /\ node3[h].size = n
       /\ \A x \in DOMAIN hs.node : SameSpan(node3[x], hs.node[x])
  BY <1>3, <1>5, <1>7 DEF SameSpan
<1> QED
  BY <1>1, <1>8, <1>9, <1>10 DEF Adds

\* A hole takes over the words of the one behind it, which is deleted.
LEMMA HolesJoined ==
    ASSUME NEW hs, HoleListType(hs), Apart(hs.node),
           NEW p \in DOMAIN hs.node, NEW h \in DOMAIN hs.node, p # h,
           hs.node[p].base + hs.node[p].size = hs.node[h].base
    PROVE  LET after == delete_hole(Grown(hs, p, hs.node[h].size), h)
           IN  /\ HoleListType(after) /\ Apart(after.node)
               /\ DOMAIN after.node = DOMAIN hs.node \ {h}
               /\ \A w \in Nat : Covers(after.node, w) <=> Covers(hs.node, w)
               /\ after.ok => hs.ok
<1> DEFINE n == hs.node[h].size
           grown == Grown(hs, p, n)
           after == delete_hole(grown, h)
<1>1. Blocks(hs.node) /\ n \in Nat /\ hs.node[p].base \in Nat /\ hs.node[p].size + n \in Nat
  BY HoleBlocks DEF Blocks
<1>2. HoleListType(grown) /\ DOMAIN grown.node = DOMAIN hs.node
  BY <1>1, GrownType
<1>3. /\ \A x \in DOMAIN hs.node \ {p} : SameSpan(grown.node[x], hs.node[x])
      /\ grown.node[p].base = hs.node[p].base /\ grown.node[p].size = hs.node[p].size + n
      /\ grown.ok = hs.ok
  BY <1>1, WordsSpans DEF Grown
<1> HIDE DEF grown
<1>4. /\ HoleListType(after) /\ DOMAIN after.node = DOMAIN grown.node \ {h}
      /\ \A x \in DOMAIN grown.node \ {h} : SameSpan(after.node[x], grown.node[x])
      /\ after.ok => grown.ok
  BY <1>2, DeleteHoleType, DeleteHoleSpans
<1> HIDE DEF after
<1>5. Joins(hs.node, after.node, p, h)
  <2>1. DOMAIN after.node = DOMAIN hs.node \ {h}
    BY <1>2, <1>4
  <2>2. \A x \in DOMAIN hs.node \ {h, p} : SameSpan(after.node[x], hs.node[x])
    BY <1>2, <1>3, <1>4 DEF SameSpan
  <2>3. after.node[p].base = hs.node[p].base /\ after.node[p].size = hs.node[p].size + hs.node[h].size
    BY <1>2, <1>3, <1>4 DEF SameSpan
  <2> QED
    BY <2>1, <2>2, <2>3 DEF Joins
<1>6. Apart(after.node) /\ \A w \in Nat : Covers(after.node, w) <=> Covers(hs.node, w)
  BY <1>1, <1>5, WordsJoined
<1> QED
  BY <1>3, <1>4, <1>5, <1>6 DEF Joins, after, grown

LEMMA InsertHoleBetweenGains ==
    ASSUME NEW hs, NEW b \in Nat, NEW n \in Nat \ {0}, Free(hs, b, n),
           NEW h \in Nat \ DOMAIN hs.node, NEW loc \in DOMAIN hs.node
    PROVE  Gains(hs, InsertHoleBetween(hs, h, b, n, loc), b, n)
<1> DEFINE D == DOMAIN hs.node
           p == hs.node[loc].prev
           linked == [hs EXCEPT !.node = LinkBetween(@, h, b, n, loc)]
           lp == linked.node[loc].prev
           left == linked.node[lp]
           touches == left.base + left.size = b
           joined == IF touches THEN delete_hole(Grown(linked, lp, n), h) ELSE linked
           h2 == IF touches THEN joined.node[loc].prev ELSE h
           right == joined.node[loc]
           last == delete_hole(Grown(joined, h2, right.size), loc)
<1>1. /\ HoleListType(hs) /\ Blocks(hs.node) /\ Apart(hs.node)
      /\ \A w \in Nat : In(w, b, n) => ~ Covers(hs.node, w)
  BY HoleBlocks DEF Free
<1>2. Gains(hs, [hs EXCEPT !.ok = FALSE], b, n)
  BY NothingGained
<1>3. ASSUME p \in D /\ hs.node[p].next \in D
      PROVE  Gains(hs, InsertHoleBetween(hs, h, b, n, loc), b, n)
  <2>1. /\ LinkBetween(hs.node, h, b, n, loc) \in [D \cup {h} -> HoleRecord]
        /\ LinkBetween(hs.node, h, b, n, loc)[loc].prev \in D \cup {h}
    BY <1>1, <1>3, LinkBetweenType
  <2>2. IsFiniteSet(D \cup {h}) /\ D \cup {h} \subseteq Nat
    BY <1>1, FS_AddElement DEF HoleListType
  <2>3. HoleListType(linked) /\ linked.node = LinkBetween(hs.node, h, b, n, loc) /\ linked.ok = hs.ok
    <3>1. HoleListType(linked) /\ linked.node = LinkBetween(hs.node, h, b, n, loc)
      BY <1>1, <2>1, <2>2, OtherNodes, NullInt
    <3> QED
      BY <1>1, <3>1 DEF HoleListType
  <2>4. Adds(hs.node, linked.node, h, b, n)
    BY <1>1, <1>3, <2>3, LinkBetweenSpans
  <2> HIDE DEF linked
  <2>5. /\ Apart(linked.node)
        /\ \A w \in Nat : Covers(linked.node, w) <=> Covers(hs.node, w) \/ In(w, b, n)
    BY <1>1, <2>4, WordsAdded
  <2>6. /\ DOMAIN linked.node = D \cup {h} /\ lp \in DOMAIN linked.node /\ h \in DOMAIN linked.node
        /\ linked.node[h].base = b /\ linked.node[h].size = n
    BY <2>1, <2>3, <2>4 DEF Adds
  <2>7. /\ HoleListType(joined) /\ Apart(joined.node) /\ loc \in DOMAIN joined.node
        /\ \A w \in Nat : Covers(joined.node, w) <=> Covers(linked.node, w)
        /\ joined.ok => linked.ok
    <3>1. CASE touches
      <4>1. lp # h
        BY <2>6, <3>1
      <4>2. joined = delete_hole(Grown(linked, lp, linked.node[h].size), h)
        BY <2>6, <3>1
      <4> HIDE DEF lp, joined
      <4>3. /\ HoleListType(joined) /\ Apart(joined.node)
            /\ DOMAIN joined.node = DOMAIN linked.node \ {h}
            /\ \A w \in Nat : Covers(joined.node, w) <=> Covers(linked.node, w)
            /\ joined.ok => linked.ok
        BY <2>3, <2>5, <2>6, <3>1, <4>1, <4>2, HolesJoined
      <4> QED
        BY <2>6, <4>3
    <3>2. CASE ~ touches
      BY <2>3, <2>5, <2>6, <3>2
    <3> QED
      BY <3>1, <3>2
  <2> HIDE DEF joined, touches
  <2>8. /\ [joined EXCEPT !.ok = FALSE].node = joined.node /\ [joined EXCEPT !.ok = FALSE].ok = FALSE
    BY <2>7 DEF HoleListType
  <2>9. Gains(hs, joined, b, n) /\ Gains(hs, [joined EXCEPT !.ok = FALSE], b, n)
    BY <2>3, <2>5, <2>7, <2>8 DEF Gains
  <2>10. ASSUME h2 \in DOMAIN joined.node, joined.node[h2].base + joined.node[h2].size = right.base
         PROVE  Gains(hs, last, b, n)
    <3>1. h2 # loc
      <4>1. joined.node[loc].size # 0 /\ joined.node[loc].size \in Nat /\ joined.node[loc].base \in Nat
        BY <2>7, HoleBlocks DEF Apart, Blocks
      <4> HIDE DEF h2
      <4> QED
        BY <2>10, <4>1
    <3> HIDE DEF h2
    <3>2. /\ Apart(last.node) /\ \A w \in Nat : Covers(last.node, w) <=> Covers(joined.node, w)
          /\ last.ok => joined.ok
      BY <2>7, <2>10, <3>1, HolesJoined
    <3> HIDE DEF last
    <3> QED
      BY <2>3, <2>5, <2>7, <3>2 DEF Gains
  <2>11. InsertHoleBetween(hs, h, b, n, loc)
             = IF h2 \notin DOMAIN joined.node THEN [joined EXCEPT !.ok = FALSE]
               ELSE IF joined.node[h2].base + joined.node[h2].size = right.base THEN last ELSE joined
    BY <1>3 DEF InsertHoleBetween, joined, touches, linked
  <2> HIDE DEF h2, right, last
  <2> QED
    BY <2>9, <2>10, <2>11
<1> QED
  BY <1>2, <1>3 DEF InsertHoleBetween

\* free_segment, its second half: the words become a hole, or part of one.
LEMMA InsertHoleGains ==
    ASSUME NEW hs, NEW b \in Nat, NEW n \in Nat \ {0}, Free(hs, b, n)
    PROVE  Gains(hs, InsertHole(hs, b, n), b, n)
<1> DEFINE loc == Find(hs.head, hs.node, {x \in DOMAIN hs.node : hs.node[x].base > b})
           h == NewHole(hs)
<1>1. h \in Nat \ DOMAIN hs.node
  BY NewHoleType DEF Free
<1>2. Gains(hs, [hs EXCEPT !.ok = FALSE], b, n)
  BY NothingGained
<1> HIDE DEF h, loc
<1>3. Gains(hs, AppendHole(hs, h, b, n), b, n)
  BY <1>1, AppendHoleGains
<1>4. loc \in DOMAIN hs.node => /\ Gains(hs, PrependHole(hs, h, b, n, loc), b, n)
                                /\ Gains(hs, InsertHoleBetween(hs, h, b, n, loc), b, n)
  BY <1>1, PrependHoleGains, InsertHoleBetweenGains
<1>5. InsertHole(hs, b, n) =
          IF ~ NullOrNode(hs.node, loc) THEN [hs EXCEPT !.ok = FALSE]
          ELSE IF loc = Null THEN AppendHole(hs, h, b, n)
          ELSE IF hs.node[loc].prev = Null THEN PrependHole(hs, h, b, n, loc)
          ELSE InsertHoleBetween(hs, h, b, n, loc)
  BY DEF InsertHole, loc, h
<1> QED
  BY <1>2, <1>3, <1>4, <1>5 DEF NullOrNode

LEMMA CarveTakes ==
    ASSUME NEW hs, HoleListType(hs), NEW h \in DOMAIN hs.node, NEW n \in Nat, n <= hs.node[h].size
    PROVE  Takes(hs.node, Carve(hs, h, n).node, h, n) /\ (Carve(hs, h, n).ok => hs.ok)
<1> DEFINE r == hs.node[h]
           shrunk == [hs EXCEPT !.node = SetWords(@, h, r.base + n, r.size - n)]
           after == delete_hole(shrunk, h)
<1>1. r.base + n \in Nat /\ r.size - n \in Nat /\ r.size \in Nat
  BY DEF HoleListType, HoleRecord
<1>2. HoleListType(shrunk) /\ DOMAIN shrunk.node = DOMAIN hs.node
  BY <1>1, WordsType
<1>3. /\ \A x \in DOMAIN hs.node \ {h} : SameSpan(shrunk.node[x], hs.node[x])
      /\ shrunk.node[h].base = r.base + n /\ shrunk.node[h].size = r.size - n
      /\ shrunk.ok = hs.ok
  BY <1>1, WordsSpans
<1>4. Carve(hs, h, n) = IF shrunk.node[h].size = 0 THEN after ELSE shrunk
  BY DEF Carve
<1> HIDE DEF shrunk
<1>5. /\ DOMAIN after.node = DOMAIN shrunk.node \ {h}
      /\ \A x \in DOMAIN shrunk.node \ {h} : SameSpan(after.node[x], shrunk.node[x])
      /\ after.ok => shrunk.ok
  BY <1>2, DeleteHoleSpans
<1> HIDE DEF after
<1>6. CASE n = hs.node[h].size
  <2>1. Carve(hs, h, n) = after
    BY <1>1, <1>3, <1>4, <1>6
  <2>2. \A x \in DOMAIN hs.node \ {h} : SameSpan(after.node[x], hs.node[x])
    BY <1>2, <1>3, <1>5 DEF SameSpan
  <2> QED
    BY <1>2, <1>3, <1>5, <1>6, <2>1, <2>2 DEF Takes
<1>7. CASE n # hs.node[h].size
  <2>1. Carve(hs, h, n) = shrunk
    BY <1>1, <1>3, <1>4, <1>7
  <2> QED
    BY <1>2, <1>3, <1>7, <2>1 DEF Takes
<1> QED
  BY <1>6, <1>7

-----------------------------------------------------------------------------
(* The memory is divided among the segments and the holes.                 *)

\* Every word is in exactly one segment or hole, unless the list of holes is
\* broken: then in at most one.
Divided(sl, hs) ==
    /\ Apart(sl.node) /\ Apart(hs.node)
    /\ \A w \in Nat : ~ (Covers(sl.node, w) /\ Covers(hs.node, w))
    /\ \A w \in Nat : Covers(sl.node, w) \/ Covers(hs.node, w) => w < Words
    /\ hs.ok => \A w \in Nat : w < Words => Covers(sl.node, w) \/ Covers(hs.node, w)

LEMMA SegBlocks ==
    ASSUME NEW sl, SegList(sl)
    PROVE  Blocks(sl.node)
  BY DEF SegList, SegRecord, Blocks

\* Only pointers and the like of the segments change.
LEMMA SameDivides ==
    ASSUME NEW sl, NEW hs, Divided(sl, hs), NEW after, DOMAIN after.node = DOMAIN sl.node,
           \A x \in DOMAIN sl.node : SameSpan(after.node[x], sl.node[x])
    PROVE  Divided(after, hs)
<1>1. /\ Apart(sl.node) => Apart(after.node)
      /\ \A w \in Nat : Covers(after.node, w) <=> Covers(sl.node, w)
  BY WordsStay
<1> QED
  BY <1>1 DEF Divided

LEMMA ContentsSpan ==
    ASSUME NEW r, NEW q, Contents(r) = Contents(q)
    PROVE  SameSpan(r, q)
  BY DEF Contents, SameSpan

\* free_segment: the words of the segment go to the holes.
LEMMA FreeDivides ==
    ASSUME NEW m, Lists(m), Divided(m.segs, m.holes), NEW s \in DOMAIN m.segs.node
    PROVE  LET after == free_segment(m, s)
           IN  Divided(after.segs, after.holes)
<1> DEFINE sl == unlink(m.segs, s)
           b == m.segs.node[s].base
           n == m.segs.node[s].size
           hs == InsertHole(m.holes, b, n)
<1>1. /\ SegList(m.segs) /\ HoleListType(m.holes) /\ Blocks(m.segs.node)
      /\ b \in Nat /\ n \in Nat \ {0}
  BY SegBlocks DEF Lists, Blocks, Divided, Apart
<1>2. /\ DOMAIN sl.node = DOMAIN m.segs.node \ {s}
      /\ \A x \in DOMAIN sl.node : SameSpan(sl.node[x], m.segs.node[x])
  BY <1>1, UnlinkSegs, ContentsSpan
<1> HIDE DEF sl
<1>3. /\ Apart(sl.node)
      /\ \A w \in Nat : Covers(sl.node, w) <=> Covers(m.segs.node, w) /\ ~ In(w, b, n)
  BY <1>1, <1>2, WordsDropped DEF Divided
<1>4. \A w \in Nat : In(w, b, n) => Covers(m.segs.node, w)
  BY DEF Covers
<1> HIDE DEF b, n
<1>5. Free(m.holes, b, n)
  BY <1>1, <1>4 DEF Free, Divided
<1>6. Gains(m.holes, hs, b, n)
  BY <1>1, <1>5, InsertHoleGains
<1>7. free_segment(m, s) = [segs |-> sl, holes |-> hs]
  BY DEF free_segment, sl, b, n
<1> HIDE DEF hs
<1>8. Divided(sl, hs)
  <2>1. Apart(hs.node)
    BY <1>6 DEF Gains
  <2>2. ASSUME NEW w \in Nat
        PROVE  /\ ~ (Covers(sl.node, w) /\ Covers(hs.node, w))
               /\ Covers(sl.node, w) \/ Covers(hs.node, w) => w < Words
               /\ hs.ok /\ w < Words => Covers(sl.node, w) \/ Covers(hs.node, w)
    <3>1. /\ Covers(sl.node, w) <=> Covers(m.segs.node, w) /\ ~ In(w, b, n)
          /\ In(w, b, n) => Covers(m.segs.node, w)
      BY <1>3, <1>4
    <3>2. /\ Covers(hs.node, w) => Covers(m.holes.node, w) \/ In(w, b, n)
          /\ hs.ok => m.holes.ok /\ (Covers(m.holes.node, w) \/ In(w, b, n) => Covers(hs.node, w))
      BY <1>6 DEF Gains
    <3>3. /\ ~ (Covers(m.segs.node, w) /\ Covers(m.holes.node, w))
          /\ Covers(m.segs.node, w) \/ Covers(m.holes.node, w) => w < Words
          /\ m.holes.ok /\ w < Words => Covers(m.segs.node, w) \/ Covers(m.holes.node, w)
      BY DEF Divided
    <3> QED
      BY <3>1, <3>2, <3>3
  <2> QED
    BY <1>3, <2>1, <2>2 DEF Divided
<1> QED
  BY <1>7, <1>8

LEMMA SweepDivides ==
    ASSUME NEW m, Lists(m), Divided(m.segs, m.holes), NEW s \in DOMAIN m.segs.node
    PROVE  LET after == sweep_one(m, s)
           IN  Divided(after.segs, after.holes)
<1>1. CASE m.segs.node[s].mark
  <2> DEFINE after == [m EXCEPT !.segs.node[s].mark = FALSE]
  <2>1. sweep_one(m, s) = after
    BY <1>1 DEF sweep_one
  <2>2. /\ DOMAIN after.segs.node = DOMAIN m.segs.node
        /\ \A x \in DOMAIN m.segs.node : Contents(after.segs.node[x]) = Contents(m.segs.node[x])
    BY MarkCleared
  <2>3. after.holes = m.holes
    BY DEF Lists
  <2> HIDE DEF after
  <2>4. Divided(after.segs, m.holes)
    BY <2>2, ContentsSpan, SameDivides
  <2> QED
    BY <2>1, <2>3, <2>4
<1>2. CASE ~ m.segs.node[s].mark
  BY <1>2, FreeDivides DEF sweep_one
<1> QED
  BY <1>1, <1>2

\* So does a whole sweep, which meets each segment at most once.
LEMMA SweptDivides ==
    ASSUME NEW m, Lists(m), Divided(m.segs, m.holes), NEW c \in Seq(DOMAIN m.segs.node),
           \A i, j \in 1 .. Len(c) : c[i] = c[j] => i = j
    PROVE  LET after == Swept(m, c)[Len(c)]
           IN  Divided(after.segs, after.holes)
<1> DEFINE After == Swept(m, c)
           last == Len(c)
           Bad == {k \in 0 .. last : ~ Divided(After[k].segs, After[k].holes)}
<1>1. last \in Nat
  OBVIOUS
<1>2. After[0] = m /\ \A k \in 1 .. last : After[k] = sweep_one(After[k - 1], c[k])
  BY <1>1, SweptDef
<1>3. \A k \in 0 .. last : /\ Lists(After[k])
                           /\ \A j \in k + 1 .. last : c[j] \in DOMAIN After[k].segs.node
  BY SweptSteps
<1> HIDE DEF After, last
<1>4. Bad = {}
  <2> SUFFICES ASSUME Bad # {} PROVE FALSE
    OBVIOUS
  <2>1. Bad \subseteq Nat
    BY <1>1
  <2>2. PICK k \in Bad : \A j \in Bad : k <= j
    BY <2>1, MinInSet
  <2>3. k # 0 /\ k \in 0 .. last /\ ~ Divided(After[k].segs, After[k].holes)
    BY <1>2, <2>2
  <2>4. k \in 1 .. last /\ k - 1 \in 0 .. last /\ ~ (k <= k - 1) /\ k \in (k - 1) + 1 .. last
    BY <1>1, <2>3
  <2>5. Divided(After[k - 1].segs, After[k - 1].holes)
    BY <2>2, <2>4
  <2> DEFINE b == After[k - 1]
  <2>6. Lists(b) /\ c[k] \in DOMAIN b.segs.node
    BY <1>3, <2>4
  <2> HIDE DEF b
  <2>7. Divided(b.segs, b.holes)
    BY <2>5 DEF b
  <2>8. Divided(sweep_one(b, c[k]).segs, sweep_one(b, c[k]).holes)
    BY <2>6, <2>7, SweepDivides
  <2> QED
    BY <1>2, <2>3, <2>4, <2>8 DEF b
<1> QED
  BY <1>1, <1>4 DEF After, last

\* A push on the collector's stack sets a bit, of one segment at most.
LEMMA PushSpans ==
    ASSUME NEW sl, SegList(sl), NEW n \in DOMAIN sl.node, gc_push(sl, n)
    PROVE  /\ DOMAIN segs'.node = DOMAIN sl.node
           /\ \A x \in DOMAIN sl.node : SameSpan(segs'.node[x], sl.node[x])
<1> DEFINE r == [sl.node[n] EXCEPT !.onStack = TRUE]
           after == [sl EXCEPT !.node = [sl.node EXCEPT ![n] = r]]
<1>1. segs' = after \/ segs' = sl
  BY DEF gc_push
<1>2. sl.node[n] \in SegRecord
  BY DEF SegList
<1>3. r \in SegRecord /\ SameSpan(r, sl.node[n])
  BY <1>2 DEF SegRecord, SameSpan
<1> HIDE DEF r
<1>4. /\ DOMAIN after.node = DOMAIN sl.node /\ after.node[n] = r
      /\ \A x \in DOMAIN sl.node \ {n} : after.node[x] = sl.node[x]
  BY <1>3, OneSegment
<1> HIDE DEF after
<1> QED
  BY <1>1, <1>3, <1>4 DEF SameSpan

LEMMA AstrayDivides ==
    ASSUME IInv, Divided(segs, holes), Astray
    PROVE  Divided(segs', holes')
<1>1. segs' = [segs EXCEPT !.ok = FALSE] /\ holes' = holes
  BY DEF Astray
<1>2. segs'.node = segs.node
  BY <1>1, Types0 DEF SegList
<1> QED
  BY <1>1, <1>2, SameDivides DEF SameSpan

LEMMA PopFrameDivides ==
    ASSUME IInv, Divided(segs, holes), gc_pop_frame
    PROVE  Divided(segs', holes')
<1> DEFINE popped == {stack[i].ref : i \in rbp + 1 .. Len(stack)}
           node == [x \in DOMAIN segs.node |->
                       IF x \in popped THEN [segs.node[x] EXCEPT !.onStack = ~ @] ELSE segs.node[x]]
<1>1. /\ segs' = IF popped \subseteq DOMAIN segs.node
                 THEN [segs EXCEPT !.node = node] ELSE [segs EXCEPT !.ok = FALSE]
      /\ holes' = holes
  BY Zenon DEF gc_pop_frame
<1>2. SegList(segs) /\ \A x \in DOMAIN segs.node : segs.node[x] \in SegRecord
  BY Types0 DEF SegList
<1>3. /\ DOMAIN node = DOMAIN segs.node
      /\ \A x \in DOMAIN segs.node : SameSpan(node[x], segs.node[x])
  <2>1. \A q \in SegRecord : SameSpan([q EXCEPT !.onStack = ~ @], q) /\ SameSpan(q, q)
    BY DEF SegRecord, SameSpan
  <2> QED
    BY <1>2, <2>1
<1> HIDE DEF popped, node
<1>4. segs'.node = node \/ segs'.node = segs.node
  BY <1>1, <1>2 DEF SegList
<1>5. \A x \in DOMAIN segs.node : SameSpan(segs.node[x], segs.node[x])
  BY DEF SameSpan
<1>6. DOMAIN segs'.node = DOMAIN segs.node /\ \A x \in DOMAIN segs.node : SameSpan(segs'.node[x], segs.node[x])
  BY <1>3, <1>4, <1>5
<1> QED
  BY <1>1, <1>6, SameDivides

LEMMA GcRunDivides ==
    ASSUME IInv, Divided(segs, holes), gc_run
    PROVE  Divided(segs', holes')
<1> DEFINE marked == [segs |-> gc_mark(segs), holes |-> holes]
           head == get_segment_head(marked.segs)
           c == Chain(head, marked.segs.node)
           m == gc_sweep(marked)
<1>1. Running /\ GC_ENABLE /\ segs' = m.segs /\ holes' = m.holes
  BY DEF gc_run
<1>2. /\ SegList(gc_mark(segs)) /\ DOMAIN gc_mark(segs).node = DOMAIN segs.node
      /\ \A x \in DOMAIN segs.node : Contents(gc_mark(segs).node[x]) = Contents(segs.node[x])
  BY <1>1, MarkSegs
<1>3. /\ IsFiniteSet(DOMAIN segs.node) /\ DOMAIN segs.node \subseteq Nat /\ HoleListType(holes)
  BY Types0
<1>4. Divided(gc_mark(segs), holes)
  BY <1>2, ContentsSpan, SameDivides
<1>5. /\ Lists(marked) /\ DOMAIN marked.segs.node = DOMAIN segs.node
      /\ Divided(marked.segs, marked.holes)
  <2>1. marked.segs = gc_mark(segs) /\ marked.holes = holes
    OBVIOUS
  <2>2. marked = [segs |-> marked.segs, holes |-> marked.holes]
    OBVIOUS
  <2> HIDE DEF marked
  <2> QED
    BY <1>2, <1>3, <1>4, <2>1, <2>2 DEF Lists
<1> HIDE DEF marked
<1>6. CASE Ends(head, marked.segs.node)
  <2> DEFINE after == Swept(marked, c)[Len(c)]
  <2>1. m = after
    BY <1>6 DEF gc_sweep
  <2>2. /\ c \in Seq(DOMAIN marked.segs.node)
        /\ \A i, j \in 1 .. Len(c) : c[i] = c[j] => i = j
    <3>1. IsFiniteSet(DOMAIN marked.segs.node) /\ Null \notin DOMAIN marked.segs.node
      BY <1>3, <1>5, NullInt
    <3> HIDE DEF head
    <3> QED
      BY <1>6, <3>1, ChainOnce
  <2>3. Divided(after.segs, after.holes)
    <3> HIDE DEF c
    <3> QED
      BY <1>5, <2>2, SweptDivides
  <2> HIDE DEF after, m
  <2> QED
    BY <1>1, <2>1, <2>3
<1>7. CASE ~ Ends(head, marked.segs.node)
  <2> DEFINE a == marked.segs  b == marked.holes
  <2>1. m = [marked EXCEPT !.segs.ok = FALSE]
    BY <1>7 DEF gc_sweep
  <2>2. marked = [segs |-> a, holes |-> b] /\ SegList(a) /\ Divided(a, b)
    BY <1>5 DEF Lists
  <2> HIDE DEF a, b, m
  <2>3. m.segs = [a EXCEPT !.ok = FALSE] /\ m.holes = b
    BY <2>1, <2>2
  <2>4. m.segs.node = a.node
    BY <2>2, <2>3 DEF SegList
  <2>5. Divided(m.segs, b)
    BY <2>2, <2>4, SameDivides DEF SameSpan
  <2> QED
    BY <1>1, <2>3, <2>5
<1> QED
  BY <1>6, <1>7

LEMMA UseSlabDivides ==
    ASSUME IInv, Divided(segs, holes), NEW s \in DOMAIN segs.node, NEW type, UseSlab(s, type)
    PROVE  Divided(segs', holes')
<1> DEFINE i == FreeSlot(segs.node[s].bitmap)
           r == [segs.node[s] EXCEPT !.bitmap = segs.node[s].bitmap \cup {i}]
           sl == [segs EXCEPT !.node = [segs.node EXCEPT ![s] = r]]
<1>1. gc_push(sl, s) /\ holes' = holes
  BY DEF UseSlab
<1>2. SegList(segs) /\ segs.node[s] \in SegRecord
  BY Types0 DEF SegList
<1>3. r \in SegRecord /\ SameSpan(r, segs.node[s])
  <2>1. i \in 0 .. Slots - 1
    BY DEF FreeSlot, Slots
  <2> HIDE DEF i
  <2>2. segs.node[s].bitmap \cup {i} \subseteq 0 .. Slots - 1
    BY <1>2, <2>1 DEF SegRecord
  <2> QED
    BY <1>2, <2>2 DEF SegRecord, SameSpan
<1> HIDE DEF r
<1>4. /\ SegList(sl) /\ DOMAIN sl.node = DOMAIN segs.node /\ sl.node[s] = r
      /\ \A x \in DOMAIN segs.node \ {s} : sl.node[x] = segs.node[x]
  BY <1>2, <1>3, OneSegment
<1> HIDE DEF sl
<1>5. /\ DOMAIN segs'.node = DOMAIN sl.node
      /\ \A x \in DOMAIN sl.node : SameSpan(segs'.node[x], sl.node[x])
  BY <1>1, <1>4, PushSpans
<1>6. \A x \in DOMAIN segs.node : SameSpan(segs'.node[x], segs.node[x])
  BY <1>3, <1>4, <1>5 DEF SameSpan
<1> QED
  BY <1>1, <1>4, <1>5, <1>6, SameDivides

\* The words of a new segment come from the front of a hole.
LEMMA NewSegmentDivides ==
    ASSUME IInv, Divided(segs, holes), NEW size \in Nat, size > 0, NEW type \in Types,
           NEW var \in BOOLEAN, NEW bitmap \in SUBSET (0 .. Slots - 1), NEW tok,
           NewSegment(size, type, var, bitmap, tok)
    PROVE  Divided(segs', holes')
<1> DEFINE h == FirstFit(holes, size)
           n == seg_counter
           new == [prev |-> Null, next |-> Null, base |-> holes.node[h].base, size |-> size,
                   var |-> var, type |-> type, bitmap |-> bitmap, mark |-> FALSE, onStack |-> FALSE]
           sl == insert_after_segment(segs, n, new)
           hs == Carve(holes, h, size)
<1>1. \/ (segs' = segs /\ holes' = holes) \/ Astray
      \/ h \in DOMAIN holes.node /\ sl.ok /\ gc_push(sl, n) /\ holes' = hs
  BY DEF NewSegment, Exit
<1>2. CASE h \in DOMAIN holes.node /\ sl.ok /\ gc_push(sl, n) /\ holes' = hs
  <2>1. /\ SegList(segs) /\ HoleListType(holes) /\ n \in Nat /\ DOMAIN segs.node \subseteq 0 .. n - 1
        /\ IsFiniteSet(DOMAIN holes.node) /\ DOMAIN holes.node \subseteq Nat
        /\ Blocks(segs.node) /\ Blocks(holes.node)
    BY Types0, SegBlocks, HoleBlocks DEF IInv, StateType, HoleListType
  <2>2. h \in {x \in DOMAIN holes.node : holes.node[x].size >= size}
    <3>1. Nowhere \notin DOMAIN holes.node
      BY <2>1, NullInt
    <3>2. Find(holes.head, holes.node, {x \in DOMAIN holes.node : holes.node[x].size >= size})
              \in {x \in DOMAIN holes.node : holes.node[x].size >= size}
      BY <1>2, <2>1, <3>1, FindIn DEF FirstFit
    <3> QED
      BY <3>2 DEF FirstFit
  <2> HIDE DEF h
  <2> DEFINE b == holes.node[h].base
  <2>3. b \in Nat /\ holes.node[h].size \in Nat /\ size <= holes.node[h].size
    BY <2>1, <2>2 DEF Blocks
  <2>4. Takes(holes.node, hs.node, h, size) /\ (hs.ok => holes.ok)
    BY <2>1, <2>2, <2>3, CarveTakes
  <2> HIDE DEF hs
  <2>5. /\ Apart(hs.node)
        /\ \A w \in Nat : Covers(hs.node, w) <=> Covers(holes.node, w) /\ ~ In(w, b, size)
    BY <2>1, <2>2, <2>3, <2>4, WordsTaken DEF Divided
  <2>6. new \in SegRecord
    <3>1. type \in 0 .. 3
      BY MMUAssumption
    <3> QED
      BY <2>3, <3>1, NullInt DEF SegRecord
  <2>7. new.base = b /\ new.size = size
    OBVIOUS
  <2> HIDE DEF new, b
  <2>8. n \notin DOMAIN segs.node
    BY <2>1
  <2>9. /\ SegList(sl) /\ DOMAIN sl.node = DOMAIN segs.node \cup {n}
        /\ Contents(sl.node[n]) = Contents(new)
        /\ \A x \in DOMAIN segs.node : Contents(sl.node[x]) = Contents(segs.node[x])
    <3> HIDE DEF n
    <3> QED
      BY <1>2, <2>1, <2>6, <2>8, InsertSegs
  <2> HIDE DEF sl, n
  <2>10. Adds(segs.node, sl.node, n, b, size)
    <3>1. sl.node[n].base = b /\ sl.node[n].size = size
      BY <2>7, <2>9, ContentsSpan DEF SameSpan
    <3> QED
      BY <2>8, <2>9, <3>1, ContentsSpan DEF Adds
  <2>11. \A w \in Nat : In(w, b, size) => Covers(holes.node, w)
    BY <2>2, <2>3 DEF In, Covers, b
  <2>12. /\ Apart(sl.node)
         /\ \A w \in Nat : Covers(sl.node, w) <=> Covers(segs.node, w) \/ In(w, b, size)
    <3>1. \A w \in Nat : In(w, b, size) => ~ Covers(segs.node, w)
      BY <2>11 DEF Divided
    <3>2. Apart(segs.node) /\ b \in Nat /\ size \in Nat \ {0}
      BY <2>3 DEF Divided, b
    <3> QED
      BY <2>1, <2>10, <3>1, <3>2, WordsAdded
  <2>13. Divided(sl, hs)
    <3>1. ASSUME NEW w \in Nat
          PROVE  /\ ~ (Covers(sl.node, w) /\ Covers(hs.node, w))
                 /\ Covers(sl.node, w) \/ Covers(hs.node, w) => w < Words
                 /\ hs.ok /\ w < Words => Covers(sl.node, w) \/ Covers(hs.node, w)
      <4>1. /\ Covers(sl.node, w) <=> Covers(segs.node, w) \/ In(w, b, size)
            /\ Covers(hs.node, w) <=> Covers(holes.node, w) /\ ~ In(w, b, size)
            /\ In(w, b, size) => Covers(holes.node, w)
        BY <2>5, <2>11, <2>12
      <4>2. /\ ~ (Covers(segs.node, w) /\ Covers(holes.node, w))
            /\ Covers(segs.node, w) \/ Covers(holes.node, w) => w < Words
            /\ holes.ok /\ w < Words => Covers(segs.node, w) \/ Covers(holes.node, w)
        BY DEF Divided
      <4> QED
        BY <2>4, <4>1, <4>2
    <3> QED
      BY <2>5, <2>12, <3>1 DEF Divided
  <2>14. /\ DOMAIN segs'.node = DOMAIN sl.node
         /\ \A x \in DOMAIN sl.node : SameSpan(segs'.node[x], sl.node[x])
    <3>1. n \in DOMAIN sl.node
      BY <2>9
    <3> QED
      BY <1>2, <2>9, <3>1, PushSpans
  <2> QED
    BY <1>2, <2>13, <2>14, SameDivides
<1> QED
  BY <1>1, <1>2, AstrayDivides

LEMMA CreateDivides ==
    ASSUME IInv, Divided(segs, holes), NEW type \in Types,
           create_var(type) \/ \E size \in ArraySizes : create_arr(type, size)
    PROVE  Divided(segs', holes')
<1>1. CASE create_var(type)
  <2> DEFINE s == FindSlab(type)
  <2>1. \/ Astray
        \/ s \in DOMAIN segs.node /\ UseSlab(s, type)
        \/ \E g \in Garbage : NewSegment(Slots, type, TRUE, {0} \cup g, Slots * seg_counter)
    BY <1>1 DEF create_var, Found
  <2>2. ASSUME NEW g \in Garbage, NewSegment(Slots, type, TRUE, {0} \cup g, Slots * seg_counter)
        PROVE  Divided(segs', holes')
    <3> DEFINE b == {0} \cup g
               tok == Slots * seg_counter
    <3>1. b \in SUBSET (0 .. Slots - 1) /\ Slots \in Nat /\ Slots > 0 /\ TRUE \in BOOLEAN
      BY MMUAssumption DEF Slots
    <3>2. NewSegment(Slots, type, TRUE, b, tok)
      BY <2>2
    <3> HIDE DEF b, tok
    <3> QED
      BY <3>1, <3>2, NewSegmentDivides
  <2> QED
    BY <2>1, <2>2, AstrayDivides, UseSlabDivides
<1>2. ASSUME NEW size \in ArraySizes, create_arr(type, size)
      PROVE  Divided(segs', holes')
  <2>1. NewSegment(size, type, FALSE, {}, seg_counter)
    BY <1>2 DEF create_arr
  <2>2. size \in Nat /\ size > 0 /\ {} \in SUBSET (0 .. Slots - 1) /\ FALSE \in BOOLEAN
    BY MMUAssumption
  <2> QED
    BY <2>1, <2>2, NewSegmentDivides
<1> QED
  BY <1>1, <1>2

LEMMA ReleaseDivides ==
    ASSUME IInv, NEW sl, SegList(sl), Divided(sl, holes), NEW s \in DOMAIN sl.node, Release(sl, s)
    PROVE  Divided(segs', holes')
<1>1. CASE GC_ENABLE
  <2> DEFINE r == [sl.node[s] EXCEPT !.mark = TRUE]
             new == [sl EXCEPT !.node = [sl.node EXCEPT ![s] = r]]
  <2>1. segs' = new /\ holes' = holes
    BY <1>1 DEF Release
  <2>2. sl.node[s] \in SegRecord
    BY DEF SegList
  <2>3. r \in SegRecord /\ SameSpan(r, sl.node[s])
    BY <2>2 DEF SegRecord, SameSpan
  <2> HIDE DEF r
  <2>4. /\ DOMAIN new.node = DOMAIN sl.node /\ new.node[s] = r
        /\ \A x \in DOMAIN sl.node \ {s} : new.node[x] = sl.node[x]
    BY <2>3, OneSegment
  <2> HIDE DEF new
  <2>5. \A x \in DOMAIN sl.node : SameSpan(new.node[x], sl.node[x])
    BY <2>3, <2>4 DEF SameSpan
  <2> QED
    BY <2>1, <2>4, <2>5, SameDivides
<1>2. CASE ~ GC_ENABLE
  <2> DEFINE m == [segs |-> sl, holes |-> holes]
             after == free_segment(m, s)
  <2>1. segs' = after.segs /\ holes' = after.holes
    BY <1>2 DEF Release
  <2>2. m.segs = sl /\ m.holes = holes /\ m = [segs |-> m.segs, holes |-> m.holes]
    OBVIOUS
  <2>3. HoleListType(holes)
    BY Types0
  <2> HIDE DEF m
  <2>4. Lists(m)
    BY <2>2, <2>3 DEF Lists
  <2>5. Divided(after.segs, after.holes)
    BY <2>2, <2>4, FreeDivides
  <2> HIDE DEF after
  <2> QED
    BY <2>1, <2>5
<1> QED
  BY <1>1, <1>2

LEMMA FreeElemDivides ==
    ASSUME IInv, Divided(segs, holes), NEW i \in DOMAIN handles, free_elem(i)
    PROVE  Divided(segs', holes')
<1> DEFINE s == LookupElem(handles[i].tok)
           r == [segs.node[s] EXCEPT !.bitmap = SymDiff(segs.node[s].bitmap, {0})]
           sl == [segs EXCEPT !.node = [segs.node EXCEPT ![s] = r]]
<1>1. \/ Astray \/ (segs' = segs /\ holes' = holes)
      \/ /\ s \in DOMAIN segs.node
         /\ Release(segs, s) \/ Release(sl, s) \/ (segs' = sl /\ holes' = holes)
  BY DEF free_elem, Exit, NullOrNode
<1>2. CASE /\ s \in DOMAIN segs.node
           /\ Release(segs, s) \/ Release(sl, s) \/ (segs' = sl /\ holes' = holes)
  <2>1. SegList(segs)
    BY Types0
  <2> HIDE DEF s
  <2>2. r \in SegRecord /\ SameSpan(r, segs.node[s])
    <3>1. segs.node[s] \in SegRecord
      BY <1>2, <2>1 DEF SegList
    <3>2. SymDiff(segs.node[s].bitmap, {0}) \subseteq 0 .. Slots - 1
      BY <3>1 DEF SegRecord, SymDiff, Slots
    <3> QED
      BY <3>1, <3>2 DEF SegRecord, SameSpan
  <2> HIDE DEF r
  <2>3. /\ SegList(sl) /\ DOMAIN sl.node = DOMAIN segs.node /\ sl.node[s] = r
        /\ \A x \in DOMAIN segs.node \ {s} : sl.node[x] = segs.node[x]
    BY <1>2, <2>1, <2>2, OneSegment
  <2> HIDE DEF sl
  <2>4. \A x \in DOMAIN segs.node : SameSpan(sl.node[x], segs.node[x])
    BY <2>2, <2>3 DEF SameSpan
  <2>5. Divided(sl, holes)
    BY <2>3, <2>4, SameDivides
  <2> QED
    BY <1>2, <2>1, <2>3, <2>5, ReleaseDivides
<1> QED
  BY <1>1, <1>2, AstrayDivides

LEMMA AssignDivides ==
    ASSUME IInv, Divided(segs, holes), NEW t, NEW fields, NEW meant, NEW value,
           assign(t, fields, meant, value)
    PROVE  Divided(segs', holes')
<1>1. Astray \/ (segs' = segs /\ holes' = holes)
  BY DEF assign, Exit
<1> QED
  BY <1>1, AstrayDivides

LEMMA InitDivides ==
    ASSUME Init
    PROVE  Divided(segs, holes)
<1>1. Words \in Nat \ {0}
  BY MMUAssumption
<1>2. segs.node = <<>> /\ holes = OneHole(Words)
  BY DEF Init
<1>3. DOMAIN segs.node = {}
  BY <1>2
<1> DEFINE r == [prev |-> Null, next |-> Null, base |-> 0, size |-> Words]
<1>4. holes.node = [x \in {1} |-> r]
  <2>1. holes.node = With(<<>>, 1, r)
    BY <1>2 DEF OneHole
  <2>2. With(<<>>, 1, r) = [x \in {1} |-> r]
    BY DEF With
  <2> QED
    BY <2>1, <2>2
<1>5. r.base = 0 /\ r.size = Words
  OBVIOUS
<1> HIDE DEF r
<1>6. Apart(segs.node) /\ \A w \in Nat : ~ Covers(segs.node, w)
  BY <1>3 DEF Apart, Covers
<1>7. Apart(holes.node)
  BY <1>1, <1>4, <1>5 DEF Apart
<1>8. \A w \in Nat : Covers(holes.node, w) <=> w < Words
  BY <1>1, <1>4, <1>5 DEF Covers, In
<1> QED
  BY <1>6, <1>7, <1>8 DEF Divided

LEMMA NextDivides ==
    ASSUME IInv, Divided(segs, holes), [Next]_vars
    PROVE  Divided(segs', holes')
<1>1. CASE UNCHANGED vars
  BY <1>1 DEF vars
<1>2. CASE push_rbp
  BY <1>2 DEF push_rbp
<1>3. CASE gc_pop_frame
  BY <1>3, PopFrameDivides
<1>4. CASE gc_run
  BY <1>4, GcRunDivides
<1>5. ASSUME NEW type \in Types, create_var(type) \/ \E size \in ArraySizes : create_arr(type, size)
      PROVE  Divided(segs', holes')
  BY <1>5, CreateDivides
<1>6. ASSUME NEW i \in DOMAIN handles, NEW value \in {0, 1},
             \/ assign_var(handles[i], value)
             \/ assign_arr(handles[i], value)
             \/ assign_arr_at(handles[i], value, handles[i].size - 1)
      PROVE  Divided(segs', holes')
  BY <1>6, AssignDivides DEF assign_var, assign_arr, assign_arr_at
<1>7. ASSUME NEW i \in DOMAIN handles, free_elem(i)
      PROVE  Divided(segs', holes')
  BY <1>7, FreeElemDivides
<1> QED
  BY <1>1, <1>2, <1>3, <1>4, <1>5, <1>6, <1>7 DEF Next

\* A search passes nodes of the list only.
LEMMA ChainNodes ==
    ASSUME NEW node, IsFiniteSet(DOMAIN node), NEW head
    PROVE  Range(Chain(head, node)) \subseteq DOMAIN node
<1> DEFINE At == Trail(head, node)
           card == Cardinality(DOMAIN node)
           stops == {k \in DOMAIN At : At[k] \notin DOMAIN node}
           n == IF stops = {} THEN card + 1 ELSE Min(stops)
<1>1. card \in Nat /\ DOMAIN At = 0 .. card
  BY TrailSteps
<1>2. n \in Nat /\ \A i \in 1 .. n : At[i - 1] \in DOMAIN node
  <2>1. CASE stops = {}
    <3>1. n = card + 1
      BY <2>1
    <3>2. \A i \in 1 .. n : i - 1 \in DOMAIN At
      BY <1>1, <3>1
    <3> HIDE DEF n, card
    <3> QED
      BY <1>1, <2>1, <3>1, <3>2
  <2>2. CASE stops # {}
    <3>1. stops \subseteq Nat
      BY <1>1
    <3>2. n \in stops /\ \A k \in stops : n <= k
      BY <2>2, <3>1, MinInSet
    <3> HIDE DEF n, card
    <3>3. n \in 0 .. card
      BY <1>1, <3>2
    <3>4. ASSUME NEW i \in 1 .. n PROVE At[i - 1] \in DOMAIN node
      <4>1. i - 1 \in DOMAIN At /\ ~ (n <= i - 1)
        BY <1>1, <3>3
      <4> QED
        BY <3>2, <4>1
    <3> QED
      BY <3>3, <3>4
  <2> QED
    BY <2>1, <2>2
<1>3. Chain(head, node) = [i \in 1 .. n |-> At[i - 1]]
  BY DEF Chain
<1> HIDE DEF n, At
<1> QED
  BY <1>2, <1>3 DEF Range

LEMMA SpanWords ==
    ASSUME NEW r, r.base \in Nat, r.size \in Nat
    PROVE  /\ Span(r) \subseteq Nat
           /\ \A w \in Nat : w \in Span(r) <=> In(w, r.base, r.size)
  BY DEF Span, In

\* Every word of the memory is accounted for: it is a segment's or a hole's.
WordsAccounted ==
    Running => \A w \in 0 .. Words - 1 :
                   \/ \E s \in DOMAIN segs.node : w \in Span(segs.node[s])
                   \/ \E h \in DOMAIN holes.node : w \in Span(holes.node[h])

LEMMA DividedSafe ==
    ASSUME IInv, Divided(segs, holes)
    PROVE  NoOverlap /\ WordsAccounted
<1> DEFINE found == Range(Chain(holes.head, holes.node))
<1>1. /\ Blocks(segs.node) /\ Blocks(holes.node) /\ IsFiniteSet(DOMAIN holes.node)
  BY Types0, SegBlocks, HoleBlocks DEF HoleListType
<1>2. found \subseteq DOMAIN holes.node
  BY <1>1, ChainNodes
<1>3. \A s \in DOMAIN segs.node :
          /\ Span(segs.node[s]) \subseteq Nat
          /\ \A w \in Nat : w \in Span(segs.node[s]) <=> In(w, segs.node[s].base, segs.node[s].size)
  BY <1>1, SpanWords DEF Blocks
<1>4. \A h \in DOMAIN holes.node :
          /\ Span(holes.node[h]) \subseteq Nat
          /\ \A w \in Nat : w \in Span(holes.node[h]) <=> In(w, holes.node[h].base, holes.node[h].size)
  BY <1>1, SpanWords DEF Blocks
<1>5. Words \in Nat
  BY MMUAssumption
<1> HIDE DEF found
<1>6. \A s, t \in DOMAIN segs.node : s # t => Span(segs.node[s]) \cap Span(segs.node[t]) = {}
  BY <1>3 DEF Divided, Apart
<1>7. \A h, k \in DOMAIN holes.node : h # k => Span(holes.node[h]) \cap Span(holes.node[k]) = {}
  BY <1>4 DEF Divided, Apart
<1>8. /\ \A w \in Nat, s \in DOMAIN segs.node : w \in Span(segs.node[s]) => Covers(segs.node, w)
      /\ \A w \in Nat, h \in DOMAIN holes.node : w \in Span(holes.node[h]) => Covers(holes.node, w)
  BY <1>3, <1>4 DEF Covers
<1>9. \A h \in DOMAIN holes.node, s \in DOMAIN segs.node : Span(holes.node[h]) \cap Span(segs.node[s]) = {}
  BY <1>3, <1>8 DEF Divided
<1>10. \A h \in DOMAIN holes.node : Span(holes.node[h]) \subseteq 0 .. Words - 1
  <2> SUFFICES ASSUME NEW h \in DOMAIN holes.node, NEW w \in Span(holes.node[h])
               PROVE  w \in 0 .. Words - 1
    OBVIOUS
  <2>1. w \in Nat /\ w < Words
    BY <1>4, <1>8 DEF Divided
  <2> QED
    BY <1>5, <2>1
<1>11. \A s \in DOMAIN segs.node : Span(segs.node[s]) \subseteq 0 .. Words - 1
  <2> SUFFICES ASSUME NEW s \in DOMAIN segs.node, NEW w \in Span(segs.node[s])
               PROVE  w \in 0 .. Words - 1
    OBVIOUS
  <2>1. w \in Nat /\ w < Words
    BY <1>3, <1>8 DEF Divided
  <2> QED
    BY <1>5, <2>1
<1>12. NoOverlap
  BY <1>2, <1>6, <1>7, <1>9, <1>10, <1>11 DEF NoOverlap, found
<1>13. WordsAccounted
  <2> SUFFICES ASSUME Running, NEW w \in 0 .. Words - 1
               PROVE  \/ \E s \in DOMAIN segs.node : w \in Span(segs.node[s])
                      \/ \E h \in DOMAIN holes.node : w \in Span(holes.node[h])
    BY DEF WordsAccounted
  <2>1. w \in Nat /\ w < Words /\ holes.ok
    BY <1>5 DEF Running
  <2>2. Covers(segs.node, w) \/ Covers(holes.node, w)
    BY <2>1 DEF Divided
  <2> QED
    BY <1>3, <1>4, <2>1, <2>2 DEF Covers
<1> QED
  BY <1>12, <1>13

LEMMA DividedInvariance == Spec => [](IInv /\ Divided(segs, holes))
<1>1. Init => Divided(segs, holes)
  BY InitDivides
<1>2. IInv /\ Divided(segs, holes) /\ [Next]_vars => Divided(segs, holes)'
  BY NextDivides
<1> QED
  BY <1>1, <1>2, Invariance, PTL DEF Spec

\* No word of the memory is given out twice, whatever becomes of the pointers
\* of the two lists (insert_after_segment, free_segment, gc_sweep).
THEOREM NoWordTwice == Spec => []NoOverlap
<1>1. IInv /\ Divided(segs, holes) => NoOverlap
  BY DividedSafe
<1> QED
  BY <1>1, DividedInvariance, PTL

\* And none gets lost: it is in a segment, or in a hole, although a search
\* may not find that hole (free_segment).
THEOREM NoWordLost == Spec => []WordsAccounted
<1>1. IInv /\ Divided(segs, holes) => WordsAccounted
  BY DividedSafe
<1> QED
  BY <1>1, DividedInvariance, PTL

-----------------------------------------------------------------------------
(* What the list of segments connects while it has one variable segment.    *)

\* The list is in the order of the ranks: the variable segment, the arrays.
Rank(node, x) == IF node[x].var THEN 0 ELSE x + 1

\* Each pointer of the list leads on, or off its end.
Ascends(node) ==
    \A x \in DOMAIN node : node[x].next # Null =>
        node[x].next \in DOMAIN node /\ Rank(node, x) < Rank(node, node[x].next)

\* A walk from head ends behind its last-th node, and passes all nodes of R.
Passes(node, head, R, last) ==
    LET At == Trail(head, node)
    IN  /\ last \in 0 .. Cardinality(DOMAIN node)
        /\ At[last] = Null
        /\ \A k \in 0 .. last - 1 : At[k] \in DOMAIN node
        /\ \A x \in R : \E k \in 0 .. last - 1 : At[k] = x

\* Every node of R is the head or comes behind another one.
Behind(node, head, R) ==
    /\ R \subseteq DOMAIN node
    /\ \A x \in R : x = head \/ \E p \in R : node[p].next = x

\* A rank is a number, and two segments have two.
LEMMA RankNat ==
    ASSUME NEW node, DOMAIN node \subseteq Nat, NEW x \in DOMAIN node
    PROVE  Rank(node, x) \in Nat
  BY DEF Rank

\* A walk that leads on must end: it has no room for as many nodes as turns.
LEMMA WalkEnds ==
    ASSUME NEW node, IsFiniteSet(DOMAIN node), DOMAIN node \subseteq Nat, Ascends(node),
           NEW head \in DOMAIN node \cup {Null}
    PROVE  \E last \in 0 .. Cardinality(DOMAIN node) :
               /\ Trail(head, node)[last] = Null
               /\ \A k \in 0 .. last - 1 : Trail(head, node)[k] \in DOMAIN node
<1> DEFINE D == DOMAIN node
           At == Trail(head, node)
           n == Cardinality(D)
           off == {k \in 0 .. n : At[k] \notin D}
<1>1. /\ n \in Nat /\ DOMAIN At = 0 .. n /\ At[0] = head
      /\ \A k \in 1 .. n : At[k - 1] \in D => At[k] = node[At[k - 1]].next
  BY TrailSteps
<1>2. Null \notin D
  BY NullInt
<1>3. off # {}
  <2> SUFFICES ASSUME off = {} PROVE FALSE
    OBVIOUS
  <2>1. \A k \in 0 .. n : At[k] \in D
    OBVIOUS
  <2>2. \A k \in 1 .. n : Rank(node, At[k - 1]) < Rank(node, At[k])
    <3> SUFFICES ASSUME NEW k \in 1 .. n PROVE Rank(node, At[k - 1]) < Rank(node, At[k])
      OBVIOUS
    <3>1. k - 1 \in 0 .. n /\ k \in 0 .. n
      BY <1>1
    <3>2. At[k] = node[At[k - 1]].next /\ At[k - 1] \in D /\ At[k] \in D
      BY <1>1, <2>1, <3>1
    <3> QED
      BY <1>2, <3>2 DEF Ascends
  <2> DEFINE rank == [k \in 0 .. n |-> Rank(node, At[k])]
             Late(i) == {j \in Nat : i < j /\ j <= n /\ ~ (rank[i] < rank[j])}
  <2>3. \A k \in 0 .. n : rank[k] \in Nat
    BY <2>1, RankNat
  <2>4. \A k \in 1 .. n : rank[k - 1] < rank[k]
    BY <1>1, <2>2
  <2> HIDE DEF At, n, rank
  <2>5. \A i \in 0 .. n : Late(i) = {}
    <3> SUFFICES ASSUME NEW i \in 0 .. n, Late(i) # {} PROVE FALSE
      OBVIOUS
    <3>1. PICK j \in Late(i) : \A l \in Late(i) : j <= l
      BY MinInSet
    <3>2. j \in Nat /\ i < j /\ j <= n /\ ~ (rank[i] < rank[j])
      BY <3>1
    <3>3. j - 1 \notin Late(i) /\ j - 1 \in Nat /\ j \in 1 .. n /\ j - 1 \in 0 .. n
      BY <1>1, <3>1, <3>2
    <3>4. i = j - 1 \/ rank[i] < rank[j - 1]
      BY <1>1, <3>2, <3>3
    <3>5. rank[j - 1] < rank[j] /\ rank[i] \in Nat /\ rank[j] \in Nat /\ rank[j - 1] \in Nat
      BY <1>1, <2>3, <2>4, <3>3
    <3> QED
      BY <3>2, <3>4, <3>5
  <2>6. IsFiniteSet(0 .. n) /\ Cardinality(0 .. n) = n + 1
    BY <1>1, FS_Interval
  <2> DEFINE turns == 0 .. n
             f == [k \in turns |-> At[k]]
  <2>7. f \in [turns -> D]
    BY <2>1
  <2>8. PICK i, j \in 0 .. n : i # j /\ f[i] = f[j]
    <3>1. Cardinality(D) < Cardinality(turns) /\ IsFiniteSet(turns) /\ IsFiniteSet(D)
      BY <1>1, <2>6 DEF n
    <3>2. \E i, j \in turns : i # j /\ f[i] = f[j]
      <4> HIDE DEF D, turns, f
      <4> QED
        BY <2>7, <3>1, FS_PigeonHole
    <3> QED
      BY <3>2
  <2>9. At[i] = At[j]
    BY <2>8
  <2>10. rank[i] = rank[j]
    BY <2>9 DEF rank
  <2>11. i < j \/ j < i
    BY <1>1, <2>8
  <2>12. (i < j => rank[i] < rank[j]) /\ (j < i => rank[j] < rank[i])
    BY <1>1, <2>5
  <2> QED
    BY <2>3, <2>10, <2>11, <2>12
<1> HIDE DEF At, n
<1>4. PICK last \in off : \A k \in off : last <= k
  <2>1. off \subseteq Nat
    BY <1>1
  <2> HIDE DEF off
  <2> QED
    BY <1>3, <2>1, MinInSet
<1>5. last \in 0 .. n /\ At[last] \notin D
  BY <1>4
<1>6. \A k \in 0 .. last - 1 : At[k] \in D
  BY <1>1, <1>4
<1>7. At[last] = Null
  <2>1. CASE last = 0
    BY <1>1, <1>5, <2>1
  <2>2. CASE last # 0
    <3>1. last \in 1 .. n /\ last - 1 \in 0 .. last - 1
      BY <1>1, <1>5, <2>2
    <3>2. At[last] = node[At[last - 1]].next /\ At[last - 1] \in D
      BY <1>1, <1>6, <3>1
    <3> QED
      BY <1>5, <3>2 DEF Ascends
  <2> QED BY <2>1, <2>2
<1> QED
  BY <1>5, <1>6, <1>7 DEF At, n
\* And it passes all that are behind the head: of those it did not, the one of
\* the lowest rank would be behind one that it did.
LEMMA WalkPasses ==
    ASSUME NEW node, IsFiniteSet(DOMAIN node), DOMAIN node \subseteq Nat, Ascends(node),
           NEW head \in DOMAIN node \cup {Null}, NEW R, Behind(node, head, R)
    PROVE  \E last \in 0 .. Cardinality(DOMAIN node) : Passes(node, head, R, last)
<1> DEFINE D == DOMAIN node
           At == Trail(head, node)
           n == Cardinality(D)
<1>1. /\ n \in Nat /\ At[0] = head
      /\ \A k \in 1 .. n : At[k - 1] \in D => At[k] = node[At[k - 1]].next
  BY TrailSteps
<1>2. PICK last \in 0 .. n : At[last] = Null /\ \A k \in 0 .. last - 1 : At[k] \in D
  BY WalkEnds
<1>3. Null \notin D
  BY NullInt
<1> DEFINE missed == {x \in R : ~ \E k \in 0 .. last - 1 : At[k] = x}
           ranks == {Rank(node, x) : x \in missed}
<1> HIDE DEF At, n
<1>4. missed = {}
  <2> SUFFICES ASSUME missed # {} PROVE FALSE
    OBVIOUS
  <2>1. ranks \subseteq Nat /\ ranks # {}
    BY RankNat DEF Behind
  <2>2. PICK r \in ranks : \A q \in ranks : r <= q
    <3> HIDE DEF ranks
    <3> QED BY <2>1, MinInSet
  <2>3. PICK x \in missed : r = Rank(node, x)
    BY <2>2
  <2>4. x \in D /\ x \in R
    BY DEF Behind
  <2>5. CASE x = head
    <3>1. last # 0
      BY <1>1, <1>2, <1>3, <2>4, <2>5
    <3>2. 0 \in 0 .. last - 1
      BY <1>1, <1>2, <3>1
    <3> QED
      BY <1>1, <2>5, <3>2
  <2>6. CASE x # head
    <3>1. PICK p \in R : node[p].next = x
      BY <2>4, <2>6 DEF Behind
    <3>2. p \in D /\ Rank(node, p) < Rank(node, x)
      BY <1>3, <2>4, <3>1 DEF Behind, Ascends
    <3>3. p \notin missed
      <4>1. Rank(node, p) \in Nat /\ Rank(node, x) \in Nat
        BY <2>4, <3>2, RankNat
      <4>2. ~ (r <= Rank(node, p))
        BY <2>3, <3>2, <4>1
      <4> HIDE DEF missed
      <4> QED
        BY <2>2, <4>2
    <3>4. PICK k \in 0 .. last - 1 : At[k] = p
      BY <3>1, <3>3
    <3>5. k + 1 \in 1 .. n /\ (k + 1) - 1 = k /\ k + 1 \in 0 .. last
      BY <1>1, <1>2
    <3>6. At[k + 1] = x
      BY <1>1, <3>1, <3>2, <3>4, <3>5
    <3>7. k + 1 # last
      BY <1>2, <1>3, <2>4, <3>6
    <3>8. k + 1 \in 0 .. last - 1
      BY <1>1, <1>2, <3>5, <3>7
    <3> QED
      BY <3>6, <3>8
  <2> QED
    BY <2>5, <2>6
<1> QED
  BY <1>2, <1>4 DEF Passes, At, n

\* What a walk that passes all nodes of R finds, and what it has passed at the end.
LEMMA PassFinds ==
    ASSUME NEW node, IsFiniteSet(DOMAIN node), DOMAIN node \subseteq Nat,
           NEW head, NEW R, NEW last, Passes(node, head, R, last),
           NEW P, NEW x \in R, x \in P, \A y \in P : y = x
    PROVE  Find(head, node, P) = x
<1> DEFINE At == Trail(head, node)
           n == Cardinality(DOMAIN node)
           stops == {k \in DOMAIN At : At[k] \in DOMAIN node => At[k] \in P}
<1>1. n \in Nat /\ DOMAIN At = 0 .. n
  BY TrailSteps
<1>2. last \in 0 .. n /\ \A k \in 0 .. last - 1 : At[k] \in DOMAIN node
  BY DEF Passes
<1>3. PICK k \in 0 .. last - 1 : At[k] = x
  BY DEF Passes
<1> DEFINE first == Min(stops)
<1>4. k \in stops
  BY <1>1, <1>2, <1>3
<1>5. stops \subseteq Nat
  BY <1>1
<1>6. first \in stops /\ \A l \in stops : first <= l
  BY <1>4, <1>5, MinInSet
<1>7. Find(head, node, P) = At[first]
  BY <1>4 DEF Find
<1> HIDE DEF first, n, At
<1>8. first \in Nat /\ first <= k
  BY <1>4, <1>5, <1>6
<1>9. first \in 0 .. last - 1
  BY <1>1, <1>2, <1>8
<1>10. At[first] \in P
  BY <1>2, <1>6, <1>9
<1> QED
  BY <1>7, <1>10

\* A walk that stops nowhere ends at the last node.
LEMMA PassEnds ==
    ASSUME NEW node, IsFiniteSet(DOMAIN node), DOMAIN node \subseteq Nat,
           NEW head, NEW R, NEW last, Passes(node, head, R, last)
    PROVE  /\ Ends(head, node)
           /\ R \subseteq {Chain(head, node)[i] : i \in 1 .. Len(Chain(head, node))}
<1> DEFINE At == Trail(head, node)
           n == Cardinality(DOMAIN node)
           stops == {k \in DOMAIN At : At[k] \notin DOMAIN node}
           first == Min(stops)
<1>1. n \in Nat /\ DOMAIN At = 0 .. n
  BY TrailSteps
<1>2. /\ last \in 0 .. n /\ At[last] = Null /\ \A k \in 0 .. last - 1 : At[k] \in DOMAIN node
      /\ \A x \in R : \E k \in 0 .. last - 1 : At[k] = x
  BY DEF Passes
<1>3. last \in stops /\ stops \subseteq Nat
  BY <1>1, <1>2, NullInt
<1>4. first \in stops /\ \A l \in stops : first <= l
  BY <1>3, MinInSet
<1>5. stops = {k \in DOMAIN At : At[k] \in DOMAIN node => At[k] \in {}}
  OBVIOUS
<1>6. Find(head, node, {}) = At[first]
  BY <1>3, <1>5 DEF Find
<1>7. Chain(head, node) = [i \in 1 .. first |-> At[i - 1]]
  BY <1>3 DEF Chain
<1> HIDE DEF first, n, At
<1>8. first = last
  <2>1. first \in Nat /\ first <= last /\ At[first] \notin DOMAIN node
    BY <1>3, <1>4
  <2>2. first \notin 0 .. last - 1
    BY <1>2, <2>1
  <2> QED
    BY <1>1, <1>2, <2>1, <2>2
<1>9. Chain(head, node) = [i \in 1 .. last |-> At[i - 1]] /\ last \in Nat
  BY <1>1, <1>2, <1>7, <1>8
<1>10. Len(Chain(head, node)) = last /\ \A i \in 1 .. last : Chain(head, node)[i] = At[i - 1]
  BY <1>9
<1>11. ASSUME NEW x \in R PROVE \E i \in 1 .. last : Chain(head, node)[i] = x
  <2>1. PICK k \in 0 .. last - 1 : At[k] = x
    BY <1>2
  <2>2. k + 1 \in 1 .. last /\ (k + 1) - 1 = k
    BY <1>9
  <2> QED
    BY <1>10, <2>1, <2>2
<1> QED
  BY <1>2, <1>6, <1>8, <1>10, <1>11 DEF Ends

\* Each segment but the first has the one before it, and is what follows that.
Joined(node) ==
    /\ Ascends(node)
    /\ \A x \in DOMAIN node : node[x].next # Null => node[node[x].next].prev = x
    /\ \A x \in DOMAIN node : node[x].prev # Null =>
           node[x].prev \in DOMAIN node /\ node[node[x].prev].next = x
    /\ \A x, y \in DOMAIN node : node[x].prev = Null /\ node[y].prev = Null => x = y

\* The heads and tails: there is at most one variable segment, in front of the
\* arrays; when it has been freed var_head is the first array (line 110).
HeadsRight(sl) ==
    /\ \A x \in DOMAIN sl.node : sl.node[x].var =>
           /\ sl.node[x].prev = Null /\ sl.node[x].next = sl.arr_head
           /\ sl.var_head = x /\ sl.var_tail = x
    /\ (\A x \in DOMAIN sl.node : ~ sl.node[x].var) =>
           sl.var_tail = Null /\ (sl.var_head = Null \/ sl.var_head = sl.arr_head)
    /\ sl.arr_head = Null => \A x \in DOMAIN sl.node : sl.node[x].var
    /\ sl.arr_head # Null =>
           /\ sl.arr_head \in DOMAIN sl.node /\ ~ sl.node[sl.arr_head].var
           /\ sl.node[sl.arr_head].prev = Null \/ sl.node[sl.node[sl.arr_head].prev].var
           /\ sl.arr_tail \in DOMAIN sl.node /\ ~ sl.node[sl.arr_tail].var
           /\ sl.node[sl.arr_tail].next = Null

Linked(sl) == Joined(sl.node) /\ HeadsRight(sl)

Arrays(node) == {x \in DOMAIN node : ~ node[x].var}

\* The walks of the code start at a head that leads to every segment they are for.
LEMMA HeadsReach ==
    ASSUME NEW sl, DOMAIN sl.node \subseteq Nat, Linked(sl)
    PROVE  /\ get_segment_head(sl) \in DOMAIN sl.node \cup {Null}
           /\ Behind(sl.node, get_segment_head(sl), DOMAIN sl.node)
           /\ sl.arr_head \in DOMAIN sl.node \cup {Null}
           /\ Behind(sl.node, sl.arr_head, Arrays(sl.node))
<1> DEFINE node == sl.node  head == get_segment_head(sl)
<1>1. Null \notin DOMAIN node
  BY NullInt
<1>2. sl.arr_head \in DOMAIN node \cup {Null}
  BY DEF Linked, HeadsRight
<1>3. CASE \E v \in DOMAIN node : node[v].var
  <2>1. PICK v \in DOMAIN node : node[v].var
    BY <1>3
  <2>2. head = v /\ node[v].prev = Null /\ node[v].next = sl.arr_head
    BY <1>1, <2>1 DEF get_segment_head, Linked, HeadsRight
  <2>3. ASSUME NEW x \in DOMAIN node, x # v PROVE node[x].prev \in DOMAIN node /\ node[node[x].prev].next = x
    BY <2>1, <2>2, <2>3 DEF Linked, Joined
  <2>4. ASSUME NEW x \in Arrays(node), x # sl.arr_head PROVE \E p \in Arrays(node) : node[p].next = x
    <3>1. x # v /\ x \in DOMAIN node
      BY <2>1 DEF Arrays
    <3>2. node[x].prev \in DOMAIN node /\ node[node[x].prev].next = x
      BY <2>3, <3>1
    <3>3. ~ node[node[x].prev].var
      BY <2>4, <3>2 DEF Linked, HeadsRight
    <3> QED
      BY <3>2, <3>3 DEF Arrays
  <2> QED
    BY <1>2, <2>1, <2>2, <2>3, <2>4 DEF Behind, Arrays
<1>4. CASE \A x \in DOMAIN node : ~ node[x].var
  <2>1. head = sl.arr_head
    BY <1>4 DEF get_segment_head, Linked, HeadsRight
  <2>2. Arrays(node) = DOMAIN node
    BY <1>4 DEF Arrays
  <2>3. ASSUME NEW x \in DOMAIN node, x # sl.arr_head PROVE \E p \in DOMAIN node : node[p].next = x
    <3>1. sl.arr_head # Null
      BY <1>4 DEF Linked, HeadsRight
    <3>2. sl.arr_head \in DOMAIN node /\ (node[sl.arr_head].prev = Null \/ node[node[sl.arr_head].prev].var)
      BY <3>1 DEF Linked, HeadsRight
    <3>3. node[sl.arr_head].prev = Null
      BY <1>4, <3>2 DEF Linked, Joined
    <3>4. node[x].prev # Null
      BY <2>3, <3>2, <3>3 DEF Linked, Joined
    <3> QED
      BY <3>4 DEF Linked, Joined
  <2> QED
    BY <1>2, <2>1, <2>2, <2>3 DEF Behind
<1> QED
  BY <1>3, <1>4

\* The pointers of the others when s leaves the list.
LEMMA UnlinkPointers ==
    ASSUME NEW sl, SegList(sl), NEW s \in DOMAIN sl.node, NEW x \in DOMAIN sl.node \ {s}
    PROVE  LET n == sl.node[s]
               r == unlink(sl, s).node[x]
           IN  /\ r.next = IF x = n.prev THEN n.next ELSE sl.node[x].next
               /\ r.prev = IF x = n.next THEN n.prev ELSE sl.node[x].prev
               /\ r.var = sl.node[x].var
<1> DEFINE D == DOMAIN sl.node
           n == sl.node[s]
           one == SetPrev(sl.node, n.next, n.prev)
           two == SetNext(one, n.prev, n.next)
<1>1. n \in SegRecord /\ n.next \in Int /\ n.prev \in Int /\ sl.node \in [D -> SegRecord]
  BY DEF SegList, SegRecord
<1>2. ASSUME NEW r \in SegRecord, NEW p \in Int
      PROVE  /\ [r EXCEPT !.prev = p].prev = p /\ [r EXCEPT !.prev = p].next = r.next
             /\ [r EXCEPT !.prev = p].var = r.var
             /\ [r EXCEPT !.next = p].next = p /\ [r EXCEPT !.next = p].prev = r.prev
             /\ [r EXCEPT !.next = p].var = r.var
  BY DEF SegRecord
<1>3. one \in [D -> SegRecord]
  <2> HIDE DEF D, n
  <2> QED BY <1>1, SegLinks
<1>4. /\ one[x].prev = IF x = n.next THEN n.prev ELSE sl.node[x].prev
      /\ one[x].next = sl.node[x].next /\ one[x].var = sl.node[x].var
  BY <1>1, <1>2 DEF SetPrev
<1>5. DOMAIN one = D /\ x \in D
  BY <1>3
<1>6. unlink(sl, s).node[x] = two[x]
  <2>1. DOMAIN two = D
    BY <1>5 DEF SetNext
  <2>2. unlink(sl, s).node = Without(two, s)
    BY DEF unlink
  <2> HIDE DEF two
  <2> QED BY <1>5, <2>1, <2>2 DEF Without
<1> HIDE DEF one, n
<1>7. /\ two[x].next = IF x = n.prev THEN n.next ELSE one[x].next
      /\ two[x].prev = one[x].prev /\ two[x].var = one[x].var
  <2>1. two[x] = IF x = n.prev THEN [one[x] EXCEPT !.next = n.next] ELSE one[x]
    BY <1>5 DEF SetNext
  <2>2. one[x] \in SegRecord
    BY <1>3, <1>5
  <2> QED BY <1>1, <1>2, <2>1, <2>2
<1> QED
  BY <1>4, <1>6, <1>7 DEF n

\* What follows in the list has a higher rank.
LEMMA RankUp ==
    ASSUME NEW node, DOMAIN node \subseteq Nat, Ascends(node), NEW x \in DOMAIN node, node[x].next # Null
    PROVE  node[x].next # x /\ ~ node[node[x].next].var
<1>1. /\ node[x].next \in DOMAIN node /\ Rank(node, x) < Rank(node, node[x].next)
      /\ Rank(node, x) \in Nat /\ Rank(node, node[x].next) \in Nat
  BY RankNat DEF Ascends
<1>2. Rank(node, node[x].next) # 0 /\ Rank(node, x) # Rank(node, node[x].next)
  BY <1>1
<1> QED
  BY <1>2 DEF Rank

\* If nothing follows the first array it is the only one.
LEMMA OnlyArray ==
    ASSUME NEW sl, IsFiniteSet(DOMAIN sl.node), DOMAIN sl.node \subseteq Nat, Linked(sl),
           sl.arr_head \in DOMAIN sl.node, sl.node[sl.arr_head].next = Null, NEW x \in Arrays(sl.node)
    PROVE  x = sl.arr_head
<1> DEFINE node == sl.node
           At == Trail(sl.arr_head, node)
           n == Cardinality(DOMAIN node)
<1>1. PICK last \in 0 .. n : Passes(node, sl.arr_head, Arrays(node), last)
  <2>1. Ascends(node) /\ Behind(node, sl.arr_head, Arrays(node))
    BY HeadsReach DEF Linked, Joined
  <2> QED BY <2>1, WalkPasses
<1>2. /\ n \in Nat /\ At[0] = sl.arr_head
      /\ \A k \in 1 .. n : At[k - 1] \in DOMAIN node => At[k] = node[At[k - 1]].next
  BY TrailSteps
<1>3. PICK k \in 0 .. last - 1 : At[k] = x
  BY <1>1 DEF Passes
<1>4. \A j \in 0 .. last - 1 : At[j] \in DOMAIN node
  BY <1>1 DEF Passes
<1> HIDE DEF At, n
<1>5. CASE last - 1 < 1
  BY <1>1, <1>2, <1>3, <1>5, k = 0
<1>6. CASE 1 <= last - 1
  <2>1. 1 \in 1 .. n /\ 1 \in 0 .. last - 1 /\ 1 - 1 = 0
    BY <1>1, <1>2, <1>6
  <2>2. At[1] = Null
    BY <1>2, <2>1
  <2> QED
    BY <1>4, <2>1, <2>2, NullInt
<1> QED
  BY <1>1, <1>2, <1>5, <1>6

\* A segment leaves the list, and the others stay linked.
LEMMA UnlinkLinks ==
    ASSUME NEW sl, SegList(sl), IsFiniteSet(DOMAIN sl.node), DOMAIN sl.node \subseteq Nat, Linked(sl),
           NEW s \in DOMAIN sl.node
    PROVE  Linked(unlink(sl, s)) /\ unlink(sl, s).ok = sl.ok
<1> DEFINE node == sl.node
           D == DOMAIN node
           p == node[s].prev
           q == node[s].next
           u == unlink(sl, s)
           new == u.node
<1>1. DOMAIN new = D \ {s}
  BY UnlinkSegs
<1>2. ASSUME NEW x \in D \ {s}
      PROVE  /\ new[x].next = IF x = p THEN q ELSE node[x].next
             /\ new[x].prev = IF x = q THEN p ELSE node[x].prev
             /\ new[x].var = node[x].var
             /\ Rank(new, x) = Rank(node, x)
  <2>1. /\ new[x].next = IF x = p THEN q ELSE node[x].next
        /\ new[x].prev = IF x = q THEN p ELSE node[x].prev
        /\ new[x].var = node[x].var
    BY UnlinkPointers
  <2> QED BY <2>1 DEF Rank
<1>3. /\ u.var_head = IF sl.var_head = s THEN q ELSE sl.var_head
      /\ u.var_tail = IF sl.var_tail = s THEN p ELSE sl.var_tail
      /\ u.arr_head = IF sl.arr_head = s THEN q ELSE sl.arr_head
      /\ u.arr_tail = IF sl.arr_tail = s THEN p ELSE sl.arr_tail
      /\ u.ok = (sl.ok /\ NullOrNode(node, q) /\ NullOrNode(node, p))
  BY DEF unlink
<1>4. Null \notin D /\ s # Null
  BY NullInt
<1>5. /\ Ascends(node)
      /\ \A x \in D : node[x].next # Null => node[x].next \in D /\ node[node[x].next].prev = x
      /\ \A x \in D : node[x].prev # Null => node[x].prev \in D /\ node[node[x].prev].next = x
      /\ \A x, y \in D : node[x].prev = Null /\ node[y].prev = Null => x = y
  BY DEF Linked, Joined, Ascends
<1>6. \A x \in D : node[x].next # Null =>
          node[x].next # x /\ ~ node[node[x].next].var /\ Rank(node, x) < Rank(node, node[x].next)
  BY <1>5, RankUp DEF Ascends
<1>7. /\ q # Null => q \in D \ {s} /\ node[q].prev = s /\ ~ node[q].var
      /\ p # Null => p \in D \ {s} /\ node[p].next = s
  BY <1>4, <1>5, <1>6
<1>8. u.ok = sl.ok
  BY <1>3, <1>7 DEF NullOrNode, SegList
<1>9. HeadsRight(sl)
  BY DEF Linked
<1>10. \A x \in D : Rank(node, x) \in Nat
  BY RankNat
<1>11. \A x \in Arrays(node) : x # sl.arr_head => \E r \in Arrays(node) : node[r].next = x
  BY HeadsReach DEF Behind
<1>12. sl.arr_head = s /\ q = Null => \A x \in D \ {s} : node[x].var
  BY OnlyArray DEF Arrays
<1> HIDE DEF u, new, node, p, q, D
<1>13. Joined(new)
  <2>1. ASSUME NEW x \in D \ {s}, new[x].next # Null
        PROVE  /\ new[x].next \in D \ {s} /\ Rank(new, x) < Rank(new, new[x].next)
               /\ new[new[x].next].prev = x
    <3>1. CASE x = p
      <4>1. new[x].next = q /\ q # Null
        BY <1>2, <2>1, <3>1
      <4>2. q \in D \ {s} /\ node[x].next = s /\ s \in D
        BY <1>4, <1>7, <3>1, <4>1, <2>1 DEF D, node
      <4>3. Rank(node, x) < Rank(node, s) /\ Rank(node, s) < Rank(node, q)
        BY <1>4, <1>6, <2>1, <4>1, <4>2 DEF q
      <4>4. Rank(node, x) < Rank(node, q)
        BY <1>10, <2>1, <4>2, <4>3
      <4> QED BY <1>2, <2>1, <3>1, <4>1, <4>2, <4>4
    <3>2. CASE x # p
      <4>1. new[x].next = node[x].next
        BY <1>2, <2>1, <3>2
      <4>2. new[x].next # s
        BY <1>4, <1>5, <2>1, <3>2, <4>1 DEF p
      <4>3. node[x].next # q
        BY <1>4, <1>5, <1>7, <2>1, <4>1
      <4> QED BY <1>2, <1>5, <1>6, <2>1, <4>1, <4>2, <4>3
    <3> QED BY <3>1, <3>2
  <2>2. ASSUME NEW x \in D \ {s}, new[x].prev # Null
        PROVE  new[x].prev \in D \ {s} /\ new[new[x].prev].next = x
    <3>1. CASE x = q
      BY <1>2, <1>7, <2>2, <3>1
    <3>2. CASE x # q
      <4>1. new[x].prev = node[x].prev
        BY <1>2, <2>2, <3>2
      <4>2. new[x].prev # s
        BY <1>4, <1>5, <2>2, <3>2, <4>1 DEF q
      <4>3. node[x].prev # p
        BY <1>4, <1>5, <1>7, <2>2, <4>1
      <4> QED BY <1>2, <1>5, <2>2, <4>1, <4>2, <4>3
    <3> QED BY <3>1, <3>2
  <2>3. ASSUME NEW x \in D \ {s}, NEW y \in D \ {s}, new[x].prev = Null, new[y].prev = Null
        PROVE  x = y
    <3>1. ASSUME NEW z \in D \ {s}, new[z].prev = Null
          PROVE  (z = q /\ node[s].prev = Null) \/ (node[z].prev = Null /\ z # q)
      BY <1>2, <3>1 DEF p
    <3>2. s \in D
      BY DEF D, node
    <3> QED BY <1>5, <2>3, <3>1, <3>2
  <2> QED BY <1>1, <2>1, <2>2, <2>3 DEF Joined, Ascends
<1>14. \A x \in D : node[x].var =>
           node[x].prev = Null /\ node[x].next = sl.arr_head /\ sl.var_head = x /\ sl.var_tail = x
  BY <1>9 DEF HeadsRight, node, D
<1>15. (\A x \in D : ~ node[x].var) => sl.var_tail = Null /\ (sl.var_head = Null \/ sl.var_head = sl.arr_head)
  BY <1>9 DEF HeadsRight, node, D
<1>16. sl.arr_head = Null => \A x \in D : node[x].var
  BY <1>9 DEF HeadsRight, node, D
<1>17. sl.arr_head # Null =>
           /\ sl.arr_head \in D /\ ~ node[sl.arr_head].var
           /\ node[sl.arr_head].prev = Null \/ node[node[sl.arr_head].prev].var
           /\ sl.arr_tail \in D /\ ~ node[sl.arr_tail].var
           /\ node[sl.arr_tail].next = Null
  BY <1>9 DEF HeadsRight, node, D
<1>18. s \in D /\ node[s].prev = p /\ node[s].next = q
  BY DEF D, p, q, node
<1>19. ASSUME NEW x \in D \ {s}, node[x].var
       PROVE  new[x].prev = Null /\ new[x].next = u.arr_head /\ u.var_head = x /\ u.var_tail = x
  <2>1. x # q /\ new[x].prev = Null
    BY <1>2, <1>4, <1>7, <1>14, <1>19
  <2>2. u.var_head = x /\ u.var_tail = x
    BY <1>3, <1>14, <1>19
  <2>3. x = p <=> sl.arr_head = s
    BY <1>4, <1>5, <1>7, <1>14, <1>18, <1>19
  <2> QED BY <1>2, <1>3, <1>14, <1>19, <2>1, <2>2, <2>3
<1>20. ASSUME \A x \in D \ {s} : ~ node[x].var
       PROVE  u.var_tail = Null /\ (u.var_head = Null \/ u.var_head = u.arr_head)
  <2>1. CASE node[s].var
    <3>1. sl.arr_head # s
      BY <1>4, <1>17, <2>1
    <3> QED BY <1>3, <1>14, <1>18, <2>1, <3>1
  <2>2. CASE ~ node[s].var
    BY <1>3, <1>4, <1>15, <1>20, <2>2
  <2> QED BY <2>1, <2>2
<1>21. ASSUME u.arr_head = Null, NEW x \in D \ {s} PROVE node[x].var
  BY <1>3, <1>4, <1>12, <1>16, <1>21
<1>22. ASSUME u.arr_head # Null
       PROVE  /\ u.arr_head \in D \ {s} /\ ~ node[u.arr_head].var
              /\ new[u.arr_head].prev = Null
                 \/ (new[u.arr_head].prev \in D \ {s} /\ node[new[u.arr_head].prev].var)
              /\ u.arr_tail \in D \ {s} /\ ~ node[u.arr_tail].var
              /\ new[u.arr_tail].next = Null
  <2>1. CASE sl.arr_head = s
    <3>1. u.arr_head = q /\ q \in D \ {s} /\ ~ node[q].var
      BY <1>3, <1>7, <1>22, <2>1
    <3>2. new[q].prev = p /\ (p = Null \/ (p \in D \ {s} /\ node[p].var))
      BY <1>2, <1>4, <1>7, <1>17, <1>18, <2>1, <3>1
    <3>3. sl.arr_tail # s /\ sl.arr_tail \in D /\ ~ node[sl.arr_tail].var /\ node[sl.arr_tail].next = Null
      BY <1>4, <1>17, <1>18, <2>1, <3>1
    <3>4. sl.arr_tail # p
      BY <1>4, <3>2, <3>3
    <3> QED BY <1>2, <1>3, <3>1, <3>2, <3>3, <3>4
  <2>2. CASE sl.arr_head # s
    <3>1. u.arr_head = sl.arr_head /\ sl.arr_head \in D \ {s} /\ ~ node[sl.arr_head].var
      BY <1>3, <1>17, <1>22, <2>2
    <3>2. new[u.arr_head].prev = Null \/ (new[u.arr_head].prev \in D \ {s} /\ node[new[u.arr_head].prev].var)
      <4>1. CASE sl.arr_head = q
        <5>1. node[q].prev = s
          BY <1>4, <1>7, <3>1, <4>1
        <5>2. node[s].var
          BY <1>4, <1>17, <1>18, <3>1, <4>1, <5>1
        <5> QED BY <1>2, <1>14, <1>18, <3>1, <4>1, <5>2
      <4>2. CASE sl.arr_head # q
        <5>1. new[u.arr_head].prev = node[sl.arr_head].prev
          BY <1>2, <3>1, <4>2
        <5>2. node[sl.arr_head].prev # s
          BY <1>4, <1>5, <1>18, <3>1, <4>2
        <5> QED BY <1>4, <1>5, <1>17, <3>1, <5>1, <5>2
      <4> QED BY <4>1, <4>2
    <3>3. u.arr_tail \in D \ {s} /\ ~ node[u.arr_tail].var /\ new[u.arr_tail].next = Null
      <4>1. CASE sl.arr_tail = s
        <5>1. s \in Arrays(node) /\ q = Null
          BY <1>4, <1>17, <1>18, <3>1, <4>1 DEF Arrays, D
        <5>2. PICK r \in Arrays(node) : node[r].next = s
          BY <1>11, <2>2, <5>1
        <5>3. r \in D /\ ~ node[r].var /\ r = p
          BY <1>4, <1>5, <1>18, <5>2 DEF Arrays, D
        <5>4. p \in D \ {s} /\ new[p].next = q
          BY <1>2, <1>4, <1>7, <5>3
        <5> QED BY <1>3, <4>1, <5>1, <5>3, <5>4
      <4>2. CASE sl.arr_tail # s
        <5>1. u.arr_tail = sl.arr_tail /\ sl.arr_tail \in D \ {s} /\ ~ node[sl.arr_tail].var /\ node[sl.arr_tail].next = Null
          BY <1>3, <1>4, <1>17, <3>1, <4>2
        <5>2. sl.arr_tail # p
          BY <1>4, <1>7, <5>1
        <5> QED BY <1>2, <5>1, <5>2
      <4> QED BY <4>1, <4>2
    <3> QED BY <3>1, <3>2, <3>3
  <2> QED BY <2>1, <2>2
<1>23. \A x \in D \ {s} : new[x].var = node[x].var
  BY <1>2
<1>24. HeadsRight(u)
  <2>1. u.node = new /\ DOMAIN u.node = D \ {s}
    BY <1>1 DEF new
  <2> QED BY <1>19, <1>20, <1>21, <1>22, <1>23, <2>1 DEF HeadsRight
<1> QED
  BY <1>8, <1>13, <1>24 DEF Linked, new, u

\* Nothing changes that the links depend on.
SameLinks(sl, after) ==
    /\ DOMAIN after.node = DOMAIN sl.node
    /\ \A x \in DOMAIN sl.node : /\ after.node[x].next = sl.node[x].next
                                /\ after.node[x].prev = sl.node[x].prev
                                /\ after.node[x].var = sl.node[x].var
    /\ after.var_head = sl.var_head /\ after.var_tail = sl.var_tail
    /\ after.arr_head = sl.arr_head /\ after.arr_tail = sl.arr_tail

\* The list stays linked when no pointer, head or kind changes.
LEMMA SameLinked ==
    ASSUME NEW sl, NEW after, SameLinks(sl, after), Linked(sl)
    PROVE  Linked(after)
<1>1. \A x \in DOMAIN sl.node : Rank(after.node, x) = Rank(sl.node, x)
  BY DEF SameLinks, Rank
<1>2. Ascends(after.node)
  BY <1>1 DEF SameLinks, Linked, Joined, Ascends
<1>3. Joined(after.node)
  <2>1. \A x \in DOMAIN sl.node : sl.node[x].next # Null => sl.node[x].next \in DOMAIN sl.node
    BY DEF Linked, Joined, Ascends
  <2> QED BY <1>2, <2>1 DEF SameLinks, Linked, Joined
<1>4. HeadsRight(after)
  <2>1. HeadsRight(sl) /\ \A x \in DOMAIN sl.node : sl.node[x].prev # Null => sl.node[x].prev \in DOMAIN sl.node
    BY DEF Linked, Joined
  <2> QED BY <2>1 DEF SameLinks, HeadsRight
<1> QED
  BY <1>3, <1>4 DEF Linked

\* A new array goes behind all others, behind the variable segment if it is the
\* first; a new variable segment in front of the arrays.
LEMMA InsertPointers ==
    ASSUME NEW sl, SegList(sl), NEW n \in Nat \ DOMAIN sl.node, NEW new \in SegRecord,
           new.next = Null, new.prev = Null
    PROVE  LET u == insert_after_segment(sl, n, new)
               first == sl.var_head = Null /\ sl.var_tail = Null
               t == IF sl.arr_head = Null THEN sl.var_tail ELSE sl.arr_tail
           IN  /\ new.var /\ first =>
                      /\ u.var_head = n /\ u.var_tail = n
                      /\ u.arr_head = sl.arr_head /\ u.arr_tail = sl.arr_tail
                      /\ DOMAIN u.node = DOMAIN sl.node \cup {n}
                      /\ u.node[n].next = sl.arr_head /\ u.node[n].prev = Null /\ u.node[n].var
                      /\ u.node[n].mark = new.mark
                      /\ \A x \in DOMAIN sl.node :
                             /\ u.node[x].next = sl.node[x].next
                             /\ u.node[x].prev = IF x = sl.arr_head THEN n ELSE sl.node[x].prev
                             /\ u.node[x].var = sl.node[x].var /\ u.node[x].mark = sl.node[x].mark
               /\ new.var /\ ~ first =>
                      IF sl.var_tail \notin DOMAIN sl.node THEN ~ u.ok
                      ELSE /\ DOMAIN u.node = DOMAIN sl.node \cup {n} /\ u.node[n].var
                           /\ \A x \in DOMAIN sl.node : u.node[x].var = sl.node[x].var
               /\ ~ new.var =>
                      /\ u.var_head = sl.var_head /\ u.var_tail = sl.var_tail
                      /\ u.arr_head = (IF sl.arr_head = Null THEN n ELSE sl.arr_head) /\ u.arr_tail = n
                      /\ DOMAIN u.node = DOMAIN sl.node \cup {n}
                      /\ u.node[n].next = Null /\ u.node[n].prev = t /\ ~ u.node[n].var
                      /\ u.node[n].mark = new.mark
                      /\ \A x \in DOMAIN sl.node :
                             /\ u.node[x].prev = sl.node[x].prev
                             /\ u.node[x].next = IF x = t THEN n ELSE sl.node[x].next
                             /\ u.node[x].var = sl.node[x].var /\ u.node[x].mark = sl.node[x].mark
<1> DEFINE D == DOMAIN sl.node
           u == insert_after_segment(sl, n, new)
           first == sl.var_head = Null /\ sl.var_tail = Null
           t == IF sl.arr_head = Null THEN sl.var_tail ELSE sl.arr_tail
<1>1. /\ sl.node \in [D -> SegRecord] /\ n \notin D /\ n \in Int
      /\ sl = [node |-> sl.node, var_head |-> sl.var_head, var_tail |-> sl.var_tail,
               arr_head |-> sl.arr_head, arr_tail |-> sl.arr_tail, ok |-> sl.ok]
      /\ sl.var_tail \in Int /\ sl.arr_tail \in Int /\ sl.arr_head \in Int
  BY DEF SegList
<1>2. ASSUME NEW p \in Int, NEW q \in Int, NEW r \in SegRecord
      PROVE  /\ [r EXCEPT !.next = q].next = q /\ [r EXCEPT !.next = q].prev = r.prev /\ [r EXCEPT !.next = q].var = r.var
             /\ [r EXCEPT !.next = q].mark = r.mark /\ [r EXCEPT !.prev = p].mark = r.mark
             /\ [r EXCEPT !.prev = p].prev = p /\ [r EXCEPT !.prev = p].next = r.next /\ [r EXCEPT !.prev = p].var = r.var
             /\ [r EXCEPT !.next = q, !.prev = p].var = r.var
  BY DEF SegRecord
<1>3. ASSUME NEW node, DOMAIN node = D, NEW r
      PROVE  /\ DOMAIN With(node, n, r) = D \cup {n} /\ With(node, n, r)[n] = r
             /\ \A x \in D : With(node, n, r)[x] = node[x]
  BY <1>1, <1>3 DEF With
<1>4. CASE new.var /\ first
  <2> DEFINE r == [new EXCEPT !.next = sl.arr_head]
             l == SetPrev(sl.node, sl.arr_head, n)
  <2>1. u = [sl EXCEPT !.node = With(l, n, r), !.var_head = n, !.var_tail = n, !.ok = NullOrNode(sl.node, sl.arr_head)]
    BY <1>4 DEF insert_after_segment, insert_variable
  <2>2. r.next = sl.arr_head /\ r.prev = Null /\ r.var /\ r.mark = new.mark
    BY <1>1, <1>2, <1>4
  <2>3. DOMAIN l = D /\ \A x \in D : /\ l[x].next = sl.node[x].next
                                     /\ l[x].prev = IF x = sl.arr_head THEN n ELSE sl.node[x].prev
                                     /\ l[x].var = sl.node[x].var /\ l[x].mark = sl.node[x].mark
    BY <1>1, <1>2 DEF SetPrev
  <2> HIDE DEF r, l, D
  <2>4. u.node = With(l, n, r) /\ u.var_head = n /\ u.var_tail = n /\ u.arr_head = sl.arr_head /\ u.arr_tail = sl.arr_tail
    <3> DEFINE w == With(l, n, r)  k == NullOrNode(sl.node, sl.arr_head)
    <3>1. u = [sl EXCEPT !.node = w, !.var_head = n, !.var_tail = n, !.ok = k]
      BY <2>1
    <3> HIDE DEF w, k, u
    <3>2. u.node = w /\ u.var_head = n /\ u.var_tail = n /\ u.arr_head = sl.arr_head /\ u.arr_tail = sl.arr_tail
      BY <1>1, <3>1
    <3> QED BY <3>2 DEF w
  <2> HIDE DEF u
  <2>5. /\ DOMAIN u.node = D \cup {n} /\ u.node[n] = r /\ \A x \in D : u.node[x] = l[x]
    <3>1. DOMAIN l = D
      BY <2>3
    <3>2. u.node = With(l, n, r)
      BY <2>4
    <3> QED BY <1>3, <3>1, <3>2
  <2> QED
    BY <1>4, <2>2, <2>3, <2>4, <2>5 DEF u, D
<1>5. CASE new.var /\ ~ first
  <2> DEFINE v == sl.var_tail
             r == [new EXCEPT !.next = sl.node[v].next, !.prev = v]
             l == SetPrev(sl.node, sl.node[v].next, n)
  <2>1. CASE v \notin D
    <3>1. u = [sl EXCEPT !.ok = FALSE]
      BY <1>5, <2>1 DEF insert_after_segment, insert_variable
    <3>2. ~ u.ok
      BY <1>1, <3>1
    <3> QED BY <1>5, <2>1, <3>2
  <2>2. CASE v \in D
    <3>1. u = [sl EXCEPT !.node = With(l, n, r), !.var_tail = n, !.ok = NullOrNode(sl.node, sl.node[v].next)]
      BY <1>5, <2>2 DEF insert_after_segment, insert_variable
    <3>2. sl.node[v].next \in Int /\ v \in Int
      BY <1>1, <2>2 DEF SegRecord
    <3>3. r.var
      BY <1>2, <1>5, <3>2
    <3>4. DOMAIN l = D /\ \A x \in D : l[x].var = sl.node[x].var
      <4> HIDE DEF v
      <4> QED BY <1>1, <1>2 DEF SetPrev
    <3> HIDE DEF r, l, D
    <3>5. u.node = With(l, n, r)
      <4> DEFINE w == With(l, n, r)  k == NullOrNode(sl.node, sl.node[v].next)
      <4>1. u = [sl EXCEPT !.node = w, !.var_tail = n, !.ok = k]
        BY <3>1
      <4> HIDE DEF w, k, u
      <4>2. u.node = w
        BY <1>1, <4>1
      <4> QED BY <4>2 DEF w
    <3>6. /\ DOMAIN u.node = D \cup {n} /\ u.node[n] = r /\ \A x \in D : u.node[x] = l[x]
      BY <1>3, <3>4, <3>5
    <3> HIDE DEF u
    <3> QED
      BY <1>5, <2>2, <3>3, <3>4, <3>6 DEF u, D
  <2> QED BY <2>1, <2>2
<1>6. CASE ~ new.var
  <2> DEFINE r == [new EXCEPT !.prev = t]
             l == SetNext(sl.node, t, n)
             h == IF sl.arr_head = Null THEN n ELSE sl.arr_head
             k == t \in D \/ (t = Null /\ sl.arr_head = Null)
  <2>1. u = [sl EXCEPT !.node = With(l, n, r), !.arr_head = h, !.arr_tail = n, !.ok = k]
    BY <1>1, <1>6 DEF insert_after_segment, insert_array
  <2>2. t \in Int
    BY <1>1
  <2> HIDE DEF t, k, h
  <2>3. r.next = Null /\ r.prev = t /\ ~ r.var /\ r.mark = new.mark
    BY <1>2, <1>6, <2>2
  <2>4. DOMAIN l = D /\ \A x \in D : /\ l[x].prev = sl.node[x].prev
                                     /\ l[x].next = IF x = t THEN n ELSE sl.node[x].next
                                     /\ l[x].var = sl.node[x].var /\ l[x].mark = sl.node[x].mark
    BY <1>1, <1>2 DEF SetNext
  <2> HIDE DEF r, l, D
  <2>5. u.node = With(l, n, r) /\ u.var_head = sl.var_head /\ u.var_tail = sl.var_tail /\ u.arr_head = h /\ u.arr_tail = n
    <3> DEFINE w == With(l, n, r)
    <3>1. u = [sl EXCEPT !.node = w, !.arr_head = h, !.arr_tail = n, !.ok = k]
      BY <2>1
    <3> HIDE DEF w, u
    <3>2. u.node = w /\ u.var_head = sl.var_head /\ u.var_tail = sl.var_tail /\ u.arr_head = h /\ u.arr_tail = n
      BY <1>1, <3>1
    <3> QED BY <3>2 DEF w
  <2> HIDE DEF u
  <2>6. /\ DOMAIN u.node = D \cup {n} /\ u.node[n] = r /\ \A x \in D : u.node[x] = l[x]
    <3>1. DOMAIN l = D
      BY <2>4
    <3>2. u.node = With(l, n, r)
      BY <2>5
    <3> QED BY <1>3, <3>1, <3>2
  <2> QED
    BY <1>6, <2>3, <2>4, <2>5, <2>6 DEF u, D, t, h
<1> QED
  BY <1>4, <1>5, <1>6

\* A new segment has its rank, and the others keep theirs.
LEMMA RankNew ==
    ASSUME NEW node, NEW x \in DOMAIN node, DOMAIN node \subseteq Nat, NEW n \in DOMAIN node,
           ~ node[n].var, node[x].var \/ x < n
    PROVE  Rank(node, x) < Rank(node, n)
  BY DEF Rank

\* A segment joins the list; if it is a variable segment, as the only one.
LEMMA InsertLinks ==
    ASSUME NEW sl, SegList(sl), DOMAIN sl.node \subseteq Nat, Linked(sl),
           NEW n \in Nat, \A x \in DOMAIN sl.node : x < n,
           NEW new \in SegRecord, new.next = Null, new.prev = Null,
           new.var => \A x \in DOMAIN sl.node : ~ sl.node[x].var,
           insert_after_segment(sl, n, new).ok
    PROVE  Linked(insert_after_segment(sl, n, new))
<1> DEFINE node == sl.node
           D == DOMAIN node
           u == insert_after_segment(sl, n, new)
           made == u.node
           t == IF sl.arr_head = Null THEN sl.var_tail ELSE sl.arr_tail
<1>1. n \notin D /\ Null \notin D /\ n # Null
  BY NullInt
<1>2. /\ Ascends(node)
      /\ \A x \in D : node[x].next # Null =>
             node[x].next \in D /\ node[node[x].next].prev = x /\ Rank(node, x) < Rank(node, node[x].next)
      /\ \A x \in D : node[x].prev # Null => node[x].prev \in D /\ node[node[x].prev].next = x
      /\ \A x, y \in D : node[x].prev = Null /\ node[y].prev = Null => x = y
  BY DEF Linked, Joined, Ascends
<1>3. \A x \in D : node[x].var =>
          node[x].prev = Null /\ node[x].next = sl.arr_head /\ sl.var_head = x /\ sl.var_tail = x
  BY DEF Linked, HeadsRight
<1>4. (\A x \in D : ~ node[x].var) => sl.var_tail = Null /\ (sl.var_head = Null \/ sl.var_head = sl.arr_head)
  BY DEF Linked, HeadsRight
<1>5. sl.arr_head = Null => \A x \in D : node[x].var
  BY DEF Linked, HeadsRight
<1>6. sl.arr_head # Null =>
          /\ sl.arr_head \in D /\ ~ node[sl.arr_head].var
          /\ node[sl.arr_head].prev = Null \/ node[node[sl.arr_head].prev].var
          /\ sl.arr_tail \in D /\ ~ node[sl.arr_tail].var
          /\ node[sl.arr_tail].next = Null
  BY DEF Linked, HeadsRight
<1>7. D \cup {n} \subseteq Nat /\ \A x \in D : x < n
  OBVIOUS
<1>8. CASE new.var
  <2>1. \A x \in D : ~ node[x].var
    BY <1>8
  <2>2. sl.var_tail = Null /\ (sl.var_head = Null \/ sl.var_head = sl.arr_head)
    BY <1>4, <2>1
  <2>3. sl.var_head = Null
    <3> SUFFICES ASSUME sl.var_head # Null PROVE FALSE
      OBVIOUS
    <3>1. ~ u.ok
      BY <1>1, <1>8, <2>2, InsertPointers
    <3> QED BY <3>1
  <2>4. /\ u.var_head = n /\ u.var_tail = n
        /\ u.arr_head = sl.arr_head /\ u.arr_tail = sl.arr_tail
        /\ DOMAIN made = D \cup {n}
        /\ made[n].next = sl.arr_head /\ made[n].prev = Null /\ made[n].var
        /\ \A x \in D : /\ made[x].next = node[x].next
                        /\ made[x].prev = IF x = sl.arr_head THEN n ELSE node[x].prev
                        /\ made[x].var = node[x].var
    BY <1>1, <1>8, <2>2, <2>3, InsertPointers
  <2> HIDE DEF made, u, node, D
  <2>5. \A x \in D : Rank(made, x) = Rank(node, x)
    BY <2>4 DEF Rank
  <2>6. sl.arr_head # Null => node[sl.arr_head].prev = Null /\ Rank(made, n) < Rank(made, sl.arr_head)
    <3> SUFFICES ASSUME sl.arr_head # Null
                 PROVE  node[sl.arr_head].prev = Null /\ Rank(made, n) < Rank(made, sl.arr_head)
      OBVIOUS
    <3>1. node[sl.arr_head].prev = Null
      BY <1>2, <1>6, <2>1
    <3>2. sl.arr_head \in DOMAIN made /\ n \in DOMAIN made /\ ~ made[sl.arr_head].var /\ DOMAIN made \subseteq Nat
      BY <1>6, <1>7, <2>4
    <3> QED BY <2>4, <3>1, <3>2, RankNew
  <2>7. ASSUME NEW x \in D \cup {n}, made[x].next # Null
        PROVE  /\ made[x].next \in D \cup {n} /\ Rank(made, x) < Rank(made, made[x].next)
               /\ made[made[x].next].prev = x
    <3>1. CASE x = n
      <4>1. made[n].next = sl.arr_head /\ sl.arr_head # Null
        BY <2>4, <2>7, <3>1
      <4>2. sl.arr_head \in D /\ made[sl.arr_head].prev = n
        BY <1>6, <2>4, <4>1
      <4>3. Rank(made, n) < Rank(made, sl.arr_head)
        BY <2>6, <4>1
      <4> QED BY <3>1, <4>1, <4>2, <4>3
    <3>2. CASE x \in D
      <4>1. made[x].next = node[x].next /\ node[x].next \in D /\ node[node[x].next].prev = x
        BY <1>2, <2>4, <2>7, <3>2
      <4>2. node[x].next # sl.arr_head
        BY <1>1, <2>6, <3>2, <4>1
      <4> QED BY <1>2, <2>4, <2>5, <2>7, <3>2, <4>1, <4>2
    <3> QED BY <3>1, <3>2
  <2>8. ASSUME NEW x \in D \cup {n}, made[x].prev # Null
        PROVE  made[x].prev \in D \cup {n} /\ made[made[x].prev].next = x
    <3>1. x \in D
      BY <2>4, <2>8
    <3>2. CASE x = sl.arr_head
      BY <2>4, <3>1, <3>2
    <3>3. CASE x # sl.arr_head
      BY <1>2, <2>4, <2>8, <3>1, <3>3
    <3> QED BY <3>2, <3>3
  <2>9. ASSUME NEW x \in D \cup {n}, made[x].prev = Null PROVE x = n
    <3> SUFFICES ASSUME x \in D PROVE FALSE
      OBVIOUS
    <3>1. sl.arr_head # Null
      BY <1>5, <2>1
    <3>2. x # sl.arr_head
      BY <1>1, <2>4, <2>9
    <3> QED BY <1>2, <1>6, <2>4, <2>6, <2>9, <3>1, <3>2
  <2>10. Joined(made)
    BY <2>4, <2>7, <2>8, <2>9 DEF Joined, Ascends
  <2>11. \A x \in D \cup {n} : made[x].var => x = n
    BY <2>1, <2>4
  <2>12. sl.arr_head # Null =>
             /\ sl.arr_head \in D /\ ~ made[sl.arr_head].var /\ made[sl.arr_head].prev = n
             /\ sl.arr_tail \in D /\ ~ made[sl.arr_tail].var /\ made[sl.arr_tail].next = Null
    BY <1>6, <2>4
  <2>13. sl.arr_head = Null => D = {}
    BY <1>5, <2>1
  <2>14. HeadsRight(u)
    <3>1. u.node = made
      BY DEF made
    <3> QED BY <2>4, <2>11, <2>12, <2>13, <3>1 DEF HeadsRight
  <2> QED BY <2>10, <2>14 DEF Linked, made, u
<1>9. CASE ~ new.var
  <2>1. /\ u.var_head = sl.var_head /\ u.var_tail = sl.var_tail
        /\ u.arr_head = (IF sl.arr_head = Null THEN n ELSE sl.arr_head) /\ u.arr_tail = n
        /\ DOMAIN made = D \cup {n}
        /\ made[n].next = Null /\ made[n].prev = t /\ ~ made[n].var
        /\ \A x \in D : /\ made[x].prev = node[x].prev
                        /\ made[x].next = IF x = t THEN n ELSE node[x].next
                        /\ made[x].var = node[x].var
    BY <1>1, <1>9, InsertPointers
  <2>2. (t \in D /\ node[t].next = Null) \/ (t = Null /\ D = {})
    <3>1. CASE sl.arr_head # Null
      BY <1>6, <3>1
    <3>2. CASE sl.arr_head = Null /\ D # {}
      BY <1>3, <1>5, <3>2
    <3>3. CASE sl.arr_head = Null /\ D = {}
      BY <1>4, <3>3
    <3> QED BY <3>1, <3>2, <3>3
  <2> HIDE DEF made, u, node, D, t
  <2>3. \A x \in D : Rank(made, x) = Rank(node, x)
    BY <2>1 DEF Rank
  <2>4. \A x \in D : Rank(made, x) < Rank(made, n)
    <3> SUFFICES ASSUME NEW x \in D PROVE Rank(made, x) < Rank(made, n)
      OBVIOUS
    <3>1. x \in DOMAIN made /\ n \in DOMAIN made /\ DOMAIN made \subseteq Nat /\ x < n /\ ~ made[n].var
      BY <1>7, <2>1
    <3> QED BY <3>1, RankNew
  <2>5. ASSUME NEW x \in D \cup {n}, made[x].next # Null
        PROVE  /\ made[x].next \in D \cup {n} /\ Rank(made, x) < Rank(made, made[x].next)
               /\ made[made[x].next].prev = x
    <3>1. x \in D
      BY <2>1, <2>5
    <3>2. CASE x = t
      BY <2>1, <2>4, <3>1, <3>2
    <3>3. CASE x # t
      BY <1>2, <2>1, <2>3, <2>5, <3>1, <3>3
    <3> QED BY <3>2, <3>3
  <2>6. ASSUME NEW x \in D \cup {n}, made[x].prev # Null
        PROVE  made[x].prev \in D \cup {n} /\ made[made[x].prev].next = x
    <3>1. CASE x = n
      BY <2>1, <2>2, <2>6, <3>1
    <3>2. CASE x \in D
      <4>1. made[x].prev = node[x].prev /\ node[x].prev \in D /\ node[node[x].prev].next = x
        BY <1>2, <2>1, <2>6, <3>2
      <4>2. node[x].prev # t
        BY <1>1, <2>2, <3>2, <4>1
      <4> QED BY <2>1, <4>1, <4>2
    <3> QED BY <3>1, <3>2
  <2>7. ASSUME NEW x \in D \cup {n}, NEW y \in D \cup {n}, made[x].prev = Null, made[y].prev = Null
        PROVE  x = y
    <3>1. CASE t = Null
      BY <1>1, <2>2, <3>1
    <3>2. CASE t # Null
      BY <1>2, <2>1, <2>7, <3>2
    <3> QED BY <3>1, <3>2
  <2>8. Joined(made)
    BY <2>1, <2>5, <2>6, <2>7 DEF Joined, Ascends
  <2>9. ASSUME NEW x \in D \cup {n}, made[x].var
        PROVE  /\ made[x].prev = Null /\ made[x].next = u.arr_head
               /\ u.var_head = x /\ u.var_tail = x
    <3>1. x \in D /\ node[x].var
      BY <2>1, <2>9
    <3>2. x = t <=> sl.arr_head = Null
      BY <1>3, <1>6, <3>1 DEF t
    <3> QED BY <1>3, <2>1, <3>1, <3>2
  <2>10. ASSUME \A x \in D \cup {n} : ~ made[x].var
         PROVE  u.var_tail = Null /\ (u.var_head = Null \/ u.var_head = u.arr_head)
    <3>1. \A x \in D : ~ node[x].var
      BY <2>1, <2>10
    <3> QED BY <1>4, <2>1, <3>1
  <2>11. u.arr_head # Null
    BY <1>1, <2>1
  <2>12. /\ u.arr_head \in D \cup {n} /\ ~ made[u.arr_head].var
         /\ made[u.arr_head].prev = Null \/ (made[u.arr_head].prev \in D /\ made[made[u.arr_head].prev].var)
    <3>1. CASE sl.arr_head = Null
      <4>1. u.arr_head = n /\ made[n].prev = t
        BY <2>1, <3>1
      <4>2. t = Null \/ (t \in D /\ node[t].var)
        BY <1>5, <2>2, <3>1
      <4> QED BY <2>1, <4>1, <4>2
    <3>2. CASE sl.arr_head # Null
      <4>1. u.arr_head = sl.arr_head /\ sl.arr_head \in D /\ ~ made[sl.arr_head].var
            /\ made[sl.arr_head].prev = node[sl.arr_head].prev
        BY <1>6, <2>1, <3>2
      <4>2. node[sl.arr_head].prev = Null
            \/ (node[sl.arr_head].prev \in D /\ node[node[sl.arr_head].prev].var)
        BY <1>2, <1>6, <3>2
      <4> QED BY <2>1, <4>1, <4>2
    <3> QED BY <3>1, <3>2
  <2>13. HeadsRight(u)
    <3>1. u.node = made
      BY DEF made
    <3> QED BY <2>1, <2>9, <2>10, <2>11, <2>12, <3>1 DEF HeadsRight
  <2> QED BY <2>8, <2>13 DEF Linked, made, u
<1> QED
  BY <1>8, <1>9

\* A segment's record changes, but for its pointers and its kind.
LEMMA SegmentSameLinks ==
    ASSUME NEW sl, SegList(sl), NEW s \in DOMAIN sl.node, NEW r,
           r.next = sl.node[s].next, r.prev = sl.node[s].prev, r.var = sl.node[s].var
    PROVE  LET after == [sl EXCEPT !.node = [sl.node EXCEPT ![s] = r]]
           IN  SameLinks(sl, after) /\ after.ok = sl.ok
<1> DEFINE node == [sl.node EXCEPT ![s] = r]
           after == [sl EXCEPT !.node = node]
<1>1. sl = [node |-> sl.node, var_head |-> sl.var_head, var_tail |-> sl.var_tail,
            arr_head |-> sl.arr_head, arr_tail |-> sl.arr_tail, ok |-> sl.ok]
  BY DEF SegList
<1>2. DOMAIN node = DOMAIN sl.node /\ node[s] = r /\ \A x \in DOMAIN sl.node : x # s => node[x] = sl.node[x]
  BY DEF SegList
<1> HIDE DEF node
<1>3. /\ after.node = node /\ after.ok = sl.ok
      /\ after.var_head = sl.var_head /\ after.var_tail = sl.var_tail
      /\ after.arr_head = sl.arr_head /\ after.arr_tail = sl.arr_tail
  BY <1>1
<1> HIDE DEF after
<1>4. SameLinks(sl, after) /\ after.ok = sl.ok
  BY <1>2, <1>3 DEF SameLinks
<1> QED
  BY <1>4 DEF after, node

\* One turn of a sweep.
LEMMA SweepLinks ==
    ASSUME NEW m, Lists(m), IsFiniteSet(DOMAIN m.segs.node), DOMAIN m.segs.node \subseteq Nat, Linked(m.segs),
           NEW s \in DOMAIN m.segs.node
    PROVE  LET after == sweep_one(m, s)
           IN  /\ Lists(after) /\ Linked(after.segs) /\ after.segs.ok = m.segs.ok
               /\ DOMAIN after.segs.node = IF m.segs.node[s].mark THEN DOMAIN m.segs.node
                                                                  ELSE DOMAIN m.segs.node \ {s}
               /\ \A x \in DOMAIN after.segs.node :
                      after.segs.node[x].mark = IF x = s THEN FALSE ELSE m.segs.node[x].mark
<1>1. CASE m.segs.node[s].mark
  <2> DEFINE r == [m.segs.node[s] EXCEPT !.mark = FALSE]
             sl == [m.segs EXCEPT !.node = [m.segs.node EXCEPT ![s] = r]]
             after == sweep_one(m, s)
  <2>1. SegList(m.segs) /\ m = [segs |-> m.segs, holes |-> m.holes] /\ m.segs.node[s] \in SegRecord
    BY DEF Lists, SegList
  <2>2. after = [m EXCEPT !.segs.node[s].mark = FALSE]
    BY <1>1 DEF sweep_one
  <2>3. Lists(after)
    <3> DEFINE b == [m EXCEPT !.segs.node[s].mark = FALSE]
    <3>1. Lists(b)
      BY MarkCleared
    <3>2. after = b
      BY <2>2
    <3> HIDE DEF after, b
    <3> QED BY <3>1, <3>2
  <2>4. /\ r \in SegRecord /\ ~ r.mark
        /\ r.next = m.segs.node[s].next /\ r.prev = m.segs.node[s].prev /\ r.var = m.segs.node[s].var
    BY <2>1 DEF SegRecord
  <2>5. after.segs = sl
    <3> DEFINE a == m.segs  b == m.holes
    <3>1. m = [segs |-> a, holes |-> b] /\ after = [m EXCEPT !.segs = sl]
      BY <2>1, <2>2
    <3> HIDE DEF a, b, sl, after
    <3> QED BY <3>1
  <2> HIDE DEF r, after
  <2>6. SameLinks(m.segs, sl) /\ sl.ok = m.segs.ok
    BY <2>1, <2>4, SegmentSameLinks
  <2>7. /\ DOMAIN sl.node = DOMAIN m.segs.node /\ sl.node[s] = r
        /\ \A x \in DOMAIN m.segs.node \ {s} : sl.node[x] = m.segs.node[x]
    BY <2>1, <2>4, OneSegment
  <2> HIDE DEF sl
  <2>8. Linked(sl)
    BY <2>6, SameLinked
  <2>9. \A x \in DOMAIN sl.node : sl.node[x].mark = IF x = s THEN FALSE ELSE m.segs.node[x].mark
    <3>1. r.mark = FALSE
      BY <2>4 DEF SegRecord
    <3> QED BY <2>7, <3>1
  <2> QED
    BY <1>1, <2>3, <2>5, <2>6, <2>7, <2>8, <2>9 DEF after
<1>2. CASE ~ m.segs.node[s].mark
  <2> DEFINE after == sweep_one(m, s)
  <2>1. after = free_segment(m, s)
    BY <1>2 DEF sweep_one
  <2>2. /\ Lists(after) /\ DOMAIN after.segs.node = DOMAIN m.segs.node \ {s}
        /\ \A x \in DOMAIN after.segs.node : after.segs.node[x].mark = m.segs.node[x].mark
    BY <2>1, FreeSegment
  <2>3. after.segs = unlink(m.segs, s)
    BY <2>1 DEF free_segment
  <2>4. Linked(after.segs) /\ after.segs.ok = m.segs.ok
    BY <2>3, UnlinkLinks DEF Lists
  <2> HIDE DEF after
  <2>5. \A x \in DOMAIN after.segs.node : x # s
    BY <2>2
  <2> QED
    BY <1>2, <2>2, <2>4, <2>5 DEF after
<1> QED
  BY <1>1, <1>2

\* A sequence with all elements of S.
Mentions(c, S) == \A x \in S : \E i \in 1 .. Len(c) : c[i] = x

\* A whole sweep keeps what is marked, and clears the marks.
LEMMA SweptLinks ==
    ASSUME NEW m, Lists(m), IsFiniteSet(DOMAIN m.segs.node), DOMAIN m.segs.node \subseteq Nat, Linked(m.segs),
           NEW c \in Seq(DOMAIN m.segs.node), \A i, j \in 1 .. Len(c) : c[i] = c[j] => i = j,
           Mentions(c, DOMAIN m.segs.node)
    PROVE  LET after == Swept(m, c)[Len(c)]
           IN  /\ Linked(after.segs) /\ after.segs.ok = m.segs.ok
               /\ DOMAIN after.segs.node = {x \in DOMAIN m.segs.node : m.segs.node[x].mark}
               /\ \A x \in DOMAIN after.segs.node : ~ after.segs.node[x].mark
<1> DEFINE D == DOMAIN m.segs.node
           After == Swept(m, c)
           Met(n, x) == \E j \in 1 .. n : c[j] = x
           Good(n) == /\ Lists(After[n]) /\ Linked(After[n].segs) /\ After[n].segs.ok = m.segs.ok
                      /\ DOMAIN After[n].segs.node \subseteq D
                      /\ \A x \in D : x \in DOMAIN After[n].segs.node <=> m.segs.node[x].mark \/ ~ Met(n, x)
                      /\ \A x \in DOMAIN After[n].segs.node :
                             After[n].segs.node[x].mark = IF Met(n, x) THEN FALSE ELSE m.segs.node[x].mark
           Bad == {n \in 0 .. Len(c) : ~ Good(n)}
<1>1. Len(c) \in Nat /\ \A j \in 1 .. Len(c) : c[j] \in D
  OBVIOUS
<1>2. After[0] = m /\ \A n \in 1 .. Len(c) : After[n] = sweep_one(After[n - 1], c[n])
  <2>1. After = [k \in 0 .. Len(c) |-> IF k = 0 THEN m ELSE sweep_one(After[k - 1], c[k])]
    BY <1>1, SweptDef
  <2> HIDE DEF After
  <2>2. After[0] = m
    BY ONLY <1>1, <2>1
  <2>3. \A n \in 1 .. Len(c) : After[n] = sweep_one(After[n - 1], c[n])
    BY ONLY <1>1, <2>1
  <2> QED BY <2>2, <2>3
<1> HIDE DEF After
<1>3. Good(0)
  <2>1. \A x : ~ Met(0, x)
    OBVIOUS
  <2> HIDE DEF Met
  <2> QED BY <1>2, <2>1
<1>4. ASSUME NEW n \in 1 .. Len(c), Good(n - 1)
      PROVE  Good(n)
  <2> DEFINE b == After[n - 1]
             a == After[n]
             s == c[n]
  <2>1. a = sweep_one(b, s) /\ s \in D
    BY <1>1, <1>2
  <2>2. ~ Met(n - 1, s)
    BY <1>1
  <2>3. \A x : Met(n, x) <=> Met(n - 1, x) \/ x = s
    <3>1. n \in Nat /\ n - 1 \in Nat /\ 1 .. n = (1 .. n - 1) \cup {n}
      BY <1>1
    <3> QED BY <3>1
  <2> HIDE DEF Met, s
  <2>4. /\ Lists(b) /\ Linked(b.segs) /\ b.segs.ok = m.segs.ok /\ DOMAIN b.segs.node \subseteq D
        /\ \A x \in D : x \in DOMAIN b.segs.node <=> m.segs.node[x].mark \/ ~ Met(n - 1, x)
        /\ \A x \in DOMAIN b.segs.node :
               b.segs.node[x].mark = IF Met(n - 1, x) THEN FALSE ELSE m.segs.node[x].mark
    BY <1>4
  <2> HIDE DEF a, b
  <2>5. s \in DOMAIN b.segs.node /\ b.segs.node[s].mark = m.segs.node[s].mark
    BY <2>1, <2>2, <2>4
  <2>6. IsFiniteSet(DOMAIN b.segs.node) /\ DOMAIN b.segs.node \subseteq Nat
    BY <2>4, FS_Subset
  <2>7. /\ Lists(a) /\ Linked(a.segs) /\ a.segs.ok = b.segs.ok
        /\ DOMAIN a.segs.node = IF b.segs.node[s].mark THEN DOMAIN b.segs.node ELSE DOMAIN b.segs.node \ {s}
        /\ \A x \in DOMAIN a.segs.node : a.segs.node[x].mark = IF x = s THEN FALSE ELSE b.segs.node[x].mark
    <3> HIDE DEF D
    <3>1. LET after == sweep_one(b, s)
          IN  /\ Lists(after) /\ Linked(after.segs) /\ after.segs.ok = b.segs.ok
              /\ DOMAIN after.segs.node = IF b.segs.node[s].mark THEN DOMAIN b.segs.node
                                                                 ELSE DOMAIN b.segs.node \ {s}
              /\ \A x \in DOMAIN after.segs.node :
                     after.segs.node[x].mark = IF x = s THEN FALSE ELSE b.segs.node[x].mark
      <4>1. Lists(b) /\ Linked(b.segs) /\ s \in DOMAIN b.segs.node
        BY <2>4, <2>5
      <4> QED BY ONLY <2>6, <4>1, SweepLinks
    <3> QED BY <2>1, <3>1
  <2> HIDE DEF D
  <2>8. DOMAIN a.segs.node \subseteq DOMAIN b.segs.node
    BY <2>7
  <2>9. \A x \in D : x \in DOMAIN a.segs.node <=> m.segs.node[x].mark \/ ~ Met(n, x)
    BY <2>3, <2>4, <2>5, <2>7
  <2>10. \A x \in DOMAIN a.segs.node : a.segs.node[x].mark = IF Met(n, x) THEN FALSE ELSE m.segs.node[x].mark
    BY <2>3, <2>4, <2>7, <2>8
  <2> QED
    BY <2>4, <2>7, <2>8, <2>9, <2>10 DEF a
<1>5. Bad = {}
  <2> SUFFICES ASSUME Bad # {} PROVE FALSE
    OBVIOUS
  <2>1. Bad \subseteq Nat
    <3> HIDE DEF Good
    <3> QED BY <1>1
  <2>2. PICK n \in Bad : \A j \in Bad : n <= j
    BY <2>1, MinInSet
  <2>3. n # 0 /\ n \in 0 .. Len(c)
    BY <1>3, <2>2
  <2>4. n \in 1 .. Len(c) /\ n - 1 \in 0 .. Len(c) /\ ~ (n <= n - 1)
    <3>1. \A l \in Nat : \A i \in 0 .. l : i # 0 => i \in 1 .. l /\ i - 1 \in 0 .. l /\ ~ (i <= i - 1)
      OBVIOUS
    <3> QED
      BY ONLY <1>1, <2>3, <3>1
  <2>5. Good(n - 1)
    <3>1. n - 1 \notin Bad
      BY <2>2, <2>4
    <3> HIDE DEF Good
    <3> QED
      BY <2>4, <3>1
  <2> QED
    BY <1>4, <2>2, <2>4, <2>5
<1> DEFINE last == Len(c)
<1>6. Good(last)
  <2> HIDE DEF Good
  <2>1. last \in 0 .. Len(c)
    BY <1>1
  <2> QED BY <1>5, <2>1
<1>7. \A x \in D : Met(last, x)
  BY DEF Mentions
<1> HIDE DEF Met, last
<1>8. /\ Linked(After[last].segs) /\ After[last].segs.ok = m.segs.ok
      /\ DOMAIN After[last].segs.node = {x \in D : m.segs.node[x].mark}
      /\ \A x \in DOMAIN After[last].segs.node : ~ After[last].segs.node[x].mark
  <2>1. DOMAIN After[last].segs.node \subseteq D
    BY <1>6
  <2> QED BY <1>6, <1>7, <2>1
<1> QED
  BY <1>8 DEF After, last, D

\* The segments the stack has a token of.
Held == {stack[i].ref : i \in SegNodes}

\* Marking adds a mark to what is on the stack, and changes nothing else.
LEMMA MarkLinks ==
    ASSUME IInv, Running, GC_ENABLE
    PROVE  /\ SameLinks(segs, gc_mark(segs)) /\ gc_mark(segs).ok = segs.ok
           /\ \A x \in DOMAIN segs.node : gc_mark(segs).node[x].mark <=> x \in Held \/ segs.node[x].mark
<1> DEFINE Saved == Iterates([i \in DOMAIN stack |-> stack[i].ref], rbp, Len(stack))
           frames == {Saved[k] : k \in DOMAIN Saved}
           held == {stack[i].ref : i \in DOMAIN stack \ frames}
           node == [x \in DOMAIN segs.node |->
                       IF x \in held THEN [segs.node[x] EXCEPT !.mark = TRUE] ELSE segs.node[x]]
           after == [segs EXCEPT !.node = node]
<1>1. frames = {i \in DOMAIN stack : stack[i].frame}
  BY SavedFrames
<1>2. gc_mark(segs) = IF held \subseteq DOMAIN segs.node THEN after ELSE [segs EXCEPT !.ok = FALSE]
  BY DEF gc_mark
<1> HIDE DEF frames
<1>3. held = Held
  BY <1>1 DEF SegNodes, Held
<1>4. Held \subseteq DOMAIN segs.node
  BY DEF IInv, StackExact, Held
<1>5. SegList(segs) /\ \A x \in DOMAIN segs.node : segs.node[x] \in SegRecord
  BY Types0 DEF SegList
<1> HIDE DEF held
<1>6. \A q \in SegRecord : /\ [q EXCEPT !.mark = TRUE].next = q.next
                            /\ [q EXCEPT !.mark = TRUE].prev = q.prev
                            /\ [q EXCEPT !.mark = TRUE].var = q.var
                            /\ [q EXCEPT !.mark = TRUE].mark
  BY DEF SegRecord
<1>7. /\ DOMAIN node = DOMAIN segs.node
      /\ \A x \in DOMAIN segs.node : /\ node[x].next = segs.node[x].next
                                     /\ node[x].prev = segs.node[x].prev
                                     /\ node[x].var = segs.node[x].var
                                     /\ node[x].mark <=> x \in Held \/ segs.node[x].mark
  BY <1>3, <1>5, <1>6
<1> HIDE DEF node
<1>8. /\ after.node = node /\ after.ok = segs.ok
      /\ after.var_head = segs.var_head /\ after.var_tail = segs.var_tail
      /\ after.arr_head = segs.arr_head /\ after.arr_tail = segs.arr_tail
  <2>1. segs = [node |-> segs.node, var_head |-> segs.var_head, var_tail |-> segs.var_tail,
                arr_head |-> segs.arr_head, arr_tail |-> segs.arr_tail, ok |-> segs.ok]
    BY <1>5 DEF SegList
  <2> QED BY <2>1
<1>9. gc_mark(segs) = after
  BY <1>2, <1>3, <1>4
<1> HIDE DEF after
<1> QED
  BY <1>7, <1>8, <1>9 DEF SameLinks

\* A round frees what is neither on the stack nor marked, and leaves no mark.
LEMMA RoundLinks ==
    ASSUME IInv, Running, GC_ENABLE, Linked(segs)
    PROVE  LET m == gc_sweep([segs |-> gc_mark(segs), holes |-> holes])
           IN  /\ Linked(m.segs) /\ m.segs.ok
               /\ DOMAIN m.segs.node = {s \in DOMAIN segs.node : s \in Held \/ segs.node[s].mark}
               /\ \A s \in DOMAIN m.segs.node :
                      ~ m.segs.node[s].mark /\ Contents(m.segs.node[s]) = Contents(segs.node[s])
<1> DEFINE sl == gc_mark(segs)
           marked == [segs |-> sl, holes |-> holes]
           head == get_segment_head(sl)
           c == Chain(head, sl.node)
           D == DOMAIN segs.node
<1>1. /\ SegList(sl) /\ DOMAIN sl.node = D
      /\ IsFiniteSet(D) /\ D \subseteq Nat /\ HoleListType(holes)
      /\ \A x \in D : Contents(sl.node[x]) = Contents(segs.node[x])
  BY MarkSegs, Types0
<1>2. /\ SameLinks(segs, sl) /\ sl.ok
      /\ \A x \in D : sl.node[x].mark <=> x \in Held \/ segs.node[x].mark
  BY MarkLinks DEF Running
<1>3. Linked(sl)
  BY <1>2, SameLinked
<1> HIDE DEF sl
<1>4. marked.segs = sl /\ Lists(marked)
  <2>1. marked.segs = sl /\ marked.holes = holes /\ marked = [segs |-> marked.segs, holes |-> marked.holes]
    OBVIOUS
  <2> HIDE DEF marked
  <2> QED BY <1>1, <2>1 DEF Lists
<1>5. PICK last \in 0 .. Cardinality(DOMAIN sl.node) : Passes(sl.node, head, DOMAIN sl.node, last)
  <2>1. head \in DOMAIN sl.node \cup {Null} /\ Behind(sl.node, head, DOMAIN sl.node) /\ Ascends(sl.node)
    BY <1>1, <1>3, HeadsReach DEF Linked, Joined
  <2>2. IsFiniteSet(DOMAIN sl.node) /\ DOMAIN sl.node \subseteq Nat
    BY <1>1
  <2> HIDE DEF head
  <2> QED BY <2>1, <2>2, WalkPasses
<1> HIDE DEF head
<1>6. Ends(head, sl.node) /\ Mentions(c, DOMAIN sl.node)
  <2>1. IsFiniteSet(DOMAIN sl.node) /\ DOMAIN sl.node \subseteq Nat
    BY <1>1
  <2>2. Ends(head, sl.node) /\ DOMAIN sl.node \subseteq {Chain(head, sl.node)[i] : i \in 1 .. Len(Chain(head, sl.node))}
    BY <1>5, <2>1, PassEnds
  <2> QED BY <2>2 DEF Mentions
<1>7. c \in Seq(DOMAIN sl.node) /\ \A i, j \in 1 .. Len(c) : c[i] = c[j] => i = j
  <2>1. IsFiniteSet(DOMAIN sl.node) /\ Null \notin DOMAIN sl.node
    BY <1>1, NullInt
  <2> QED BY <1>6, <2>1, ChainOnce
<1>8. gc_sweep(marked) = Swept(marked, c)[Len(c)]
  BY <1>4, <1>6 DEF gc_sweep, head
<1> HIDE DEF c, marked
<1>9. LET after == Swept(marked, c)[Len(c)]
      IN  /\ Linked(after.segs) /\ after.segs.ok = marked.segs.ok
          /\ DOMAIN after.segs.node = {x \in DOMAIN marked.segs.node : marked.segs.node[x].mark}
          /\ \A x \in DOMAIN after.segs.node :
                 ~ after.segs.node[x].mark /\ Contents(after.segs.node[x]) = Contents(marked.segs.node[x])
  <2>1. /\ IsFiniteSet(DOMAIN marked.segs.node) /\ DOMAIN marked.segs.node \subseteq Nat
        /\ Linked(marked.segs) /\ c \in Seq(DOMAIN marked.segs.node) /\ Mentions(c, DOMAIN marked.segs.node)
    BY <1>1, <1>3, <1>4, <1>6, <1>7
  <2>2. LET after == Swept(marked, c)[Len(c)]
        IN  \A x \in DOMAIN after.segs.node : Contents(after.segs.node[x]) = Contents(marked.segs.node[x])
    BY <1>4, <1>7, <2>1, SweptKeeps
  <2>3. LET after == Swept(marked, c)[Len(c)]
        IN  /\ Linked(after.segs) /\ after.segs.ok = marked.segs.ok
            /\ DOMAIN after.segs.node = {x \in DOMAIN marked.segs.node : marked.segs.node[x].mark}
            /\ \A x \in DOMAIN after.segs.node : ~ after.segs.node[x].mark
    BY <1>4, <1>7, <2>1, SweptLinks
  <2> QED BY <2>2, <2>3
<1>10. LET after == gc_sweep(marked)
       IN  /\ Linked(after.segs) /\ after.segs.ok
           /\ DOMAIN after.segs.node = {s \in D : s \in Held \/ segs.node[s].mark}
           /\ \A x \in DOMAIN after.segs.node :
                  ~ after.segs.node[x].mark /\ Contents(after.segs.node[x]) = Contents(segs.node[x])
  BY <1>1, <1>2, <1>4, <1>8, <1>9
<1> QED
  BY <1>10 DEF marked, sl, D

-----------------------------------------------------------------------------
(* The list of segments in the steps of the program.                        *)

\* The list is linked as the code means it to be.
LinkInv == Running => Linked(segs)

\* There is one variable segment at most: then the list stays
\* linked as it should be (insert_after_segment does not link a second one,
\* mmu.cpp:47).
OneSlab == Running => \A x, y \in DOMAIN segs.node : segs.node[x].var /\ segs.node[y].var => x = y

\* What no operation changes of a segment.
Shape(r) == <<r.base, r.size, r.var, r.type, r.bitmap \cup {0, 1}>>

\* A variable segment holds Slots words, of a type the client asked for, and
\* its bitmap is, but for the two bits the program changes, as malloc left it.
Proper(r) ==
    r.var => /\ r.size = Slots /\ r.type \in Types
             /\ \E g \in Garbage : r.bitmap \cup {0, 1} = g \cup {0, 1}

\* Segments keep their shape, and get no mark, but for those of S.
Steady(S) ==
    Running' => \A x \in DOMAIN segs.node \cap DOMAIN segs'.node :
        /\ Shape(segs'.node[x]) = Shape(segs.node[x])
        /\ segs'.node[x].mark => segs.node[x].mark \/ x \in S

\* New ones have no mark.
Fresh ==
    Running' => \A x \in DOMAIN segs'.node \ DOMAIN segs.node :
        ~ segs'.node[x].mark /\ Proper(segs'.node[x])

Orderly(S) == LinkInv' /\ Steady(S) /\ Fresh

\* The contents of a word are no part of the shape of a segment.
LEMMA ContentsShape ==
    ASSUME NEW r, NEW q, Contents(r) = Contents(q)
    PROVE  Shape(r) = Shape(q)
  BY DEF Contents, Shape

\* A step that changes no more of a segment than its bits keeps the list.
LEMMA SameKeeps ==
    ASSUME LinkInv, Running' => Running, NEW S, SameLinks(segs, segs'),
           \A x \in DOMAIN segs.node : /\ Shape(segs'.node[x]) = Shape(segs.node[x])
                                       /\ segs'.node[x].mark => segs.node[x].mark \/ x \in S
    PROVE  Orderly(S)
<1>1. Running' => Linked(segs')
  BY SameLinked DEF LinkInv
<1>2. DOMAIN segs'.node = DOMAIN segs.node
  BY DEF SameLinks
<1> QED
  BY <1>1, <1>2 DEF LinkInv, Steady, Fresh, Orderly

\* The program changes bits 0 and 1 of a bitmap only.
LEMMA BitsShape ==
    ASSUME NEW r \in SegRecord, NEW b \in SUBSET (0 .. Slots - 1), b \cup {0, 1} = r.bitmap \cup {0, 1}
    PROVE  LET q == [r EXCEPT !.bitmap = b]
           IN  /\ q \in SegRecord /\ q.next = r.next /\ q.prev = r.prev /\ q.mark = r.mark
               /\ Shape(q) = Shape(r)
<1> DEFINE q == [r EXCEPT !.bitmap = b]
<1>1. q \in SegRecord
  BY DEF SegRecord
<1>2. /\ q.next = r.next /\ q.prev = r.prev /\ q.mark = r.mark /\ q.bitmap = b
      /\ q.base = r.base /\ q.size = r.size /\ q.var = r.var /\ q.type = r.type
  BY DEF SegRecord
<1> QED
  BY <1>1, <1>2 DEF Shape

\* A step that leaves the segments alone keeps the list.
LEMMA StillKeeps ==
    ASSUME LinkInv, Running' => Running, segs' = segs
    PROVE  Orderly({})
  BY DEF LinkInv, Steady, Fresh, Orderly, Linked

\* So does one that ends the program.
LEMMA StrayKeeps ==
    ASSUME IInv, Astray \/ \E why \in {"no_memory", "bad_access", "locked"} : Exit(why)
    PROVE  ~ Running'
<1>1. SegList(segs)
  BY Types0
<1>2. Astray => ~ segs'.ok
  BY <1>1 DEF Astray, SegList
<1> QED
  BY <1>2 DEF Exit, Running

\* A token is recorded, and the segments stay.
LEMMA RecordLinks ==
    ASSUME NEW sl, SegList(sl), NEW s \in DOMAIN sl.node, NEW r \in SegRecord,
           r.next = sl.node[s].next, r.prev = sl.node[s].prev, Shape(r) = Shape(sl.node[s])
    PROVE  LET after == [sl EXCEPT !.node = [sl.node EXCEPT ![s] = r]]
           IN  /\ SegList(after) /\ SameLinks(sl, after) /\ after.ok = sl.ok
               /\ \A x \in DOMAIN sl.node : /\ Shape(after.node[x]) = Shape(sl.node[x])
                                            /\ x # s => after.node[x].mark = sl.node[x].mark
               /\ after.node[s].mark = r.mark
<1> DEFINE after == [sl EXCEPT !.node = [sl.node EXCEPT ![s] = r]]
<1>1. r.var = sl.node[s].var
  BY DEF Shape
<1>2. SameLinks(sl, after) /\ after.ok = sl.ok
  BY <1>1, SegmentSameLinks
<1>3. /\ SegList(after) /\ after.node[s] = r
      /\ \A x \in DOMAIN sl.node \ {s} : after.node[x] = sl.node[x]
  BY OneSegment
<1> HIDE DEF after
<1>4. \A x \in DOMAIN sl.node : /\ Shape(after.node[x]) = Shape(sl.node[x])
                                /\ x # s => after.node[x].mark = sl.node[x].mark
  BY <1>3
<1> QED
  BY <1>2, <1>3, <1>4 DEF after

\* Two changes that leave the links leave them.
LEMMA SameLinksTwice ==
    ASSUME NEW a, NEW b, NEW c, SameLinks(a, b), SameLinks(b, c)
    PROVE  SameLinks(a, c)
  BY DEF SameLinks

\* A token is pushed on the stack.
LEMMA PushLinks ==
    ASSUME NEW sl, SegList(sl), NEW n \in DOMAIN sl.node, gc_push(sl, n)
    PROVE  /\ SameLinks(sl, segs') /\ segs'.ok = sl.ok
           /\ \A x \in DOMAIN sl.node : /\ Shape(segs'.node[x]) = Shape(sl.node[x])
                                        /\ segs'.node[x].mark = sl.node[x].mark
<1>1. CASE segs' = sl
  BY <1>1 DEF SameLinks
<1>2. CASE segs' # sl
  <2> DEFINE r == [sl.node[n] EXCEPT !.onStack = TRUE]
             after == [sl EXCEPT !.node = [sl.node EXCEPT ![n] = r]]
  <2>1. segs' = after
    BY <1>2 DEF gc_push
  <2>2. sl.node[n] \in SegRecord
    BY DEF SegList
  <2>3. /\ r \in SegRecord /\ r.next = sl.node[n].next /\ r.prev = sl.node[n].prev
        /\ Shape(r) = Shape(sl.node[n]) /\ r.mark = sl.node[n].mark
    BY <2>2 DEF SegRecord, Shape
  <2> HIDE DEF r
  <2>4. /\ SameLinks(sl, after) /\ after.ok = sl.ok
        /\ \A x \in DOMAIN sl.node : /\ Shape(after.node[x]) = Shape(sl.node[x])
                                     /\ x # n => after.node[x].mark = sl.node[x].mark
        /\ after.node[n].mark = r.mark
    BY <2>3, RecordLinks
  <2> HIDE DEF after
  <2> QED BY <2>1, <2>3, <2>4
<1> QED
  BY <1>1, <1>2

\* A frame is left (function_return, main_return).
LEMMA PopFrameLinks ==
    ASSUME IInv, LinkInv, gc_pop_frame
    PROVE  Orderly({})
<1> DEFINE popped == {stack[i].ref : i \in rbp + 1 .. Len(stack)}
           flipped == [x \in DOMAIN segs.node |->
                           IF x \in popped THEN [segs.node[x] EXCEPT !.onStack = ~ @] ELSE segs.node[x]]
           after == [segs EXCEPT !.node = flipped]
<1>1. Running /\ segs' = IF popped \subseteq DOMAIN segs.node THEN after ELSE [segs EXCEPT !.ok = FALSE]
  BY DEF gc_pop_frame
<1>2. SegList(segs) /\ \A x \in DOMAIN segs.node : segs.node[x] \in SegRecord
  BY Types0 DEF SegList
<1>3. segs = [node |-> segs.node, var_head |-> segs.var_head, var_tail |-> segs.var_tail,
              arr_head |-> segs.arr_head, arr_tail |-> segs.arr_tail, ok |-> segs.ok]
  BY <1>2 DEF SegList
<1>4. CASE ~ (popped \subseteq DOMAIN segs.node)
  <2>1. ~ segs'.ok
    BY <1>1, <1>3, <1>4
  <2> QED BY <2>1 DEF LinkInv, Steady, Fresh, Orderly, Running
<1>5. CASE popped \subseteq DOMAIN segs.node
  <2>1. \A q \in SegRecord : /\ [q EXCEPT !.onStack = ~ @].next = q.next
                             /\ [q EXCEPT !.onStack = ~ @].prev = q.prev
                             /\ Shape([q EXCEPT !.onStack = ~ @]) = Shape(q)
                             /\ [q EXCEPT !.onStack = ~ @].var = q.var
                             /\ [q EXCEPT !.onStack = ~ @].mark = q.mark
    BY DEF SegRecord, Shape
  <2> HIDE DEF popped
  <2>2. /\ DOMAIN flipped = DOMAIN segs.node
        /\ \A x \in DOMAIN segs.node : /\ flipped[x].next = segs.node[x].next
                                       /\ flipped[x].prev = segs.node[x].prev
                                       /\ flipped[x].var = segs.node[x].var
                                       /\ Shape(flipped[x]) = Shape(segs.node[x])
                                       /\ flipped[x].mark = segs.node[x].mark
    BY <1>2, <2>1
  <2> HIDE DEF flipped
  <2>3. /\ after.node = flipped
        /\ after.var_head = segs.var_head /\ after.var_tail = segs.var_tail
        /\ after.arr_head = segs.arr_head /\ after.arr_tail = segs.arr_tail
    BY <1>3
  <2>4. segs' = after
    BY <1>1, <1>5
  <2> HIDE DEF after
  <2>5. SameLinks(segs, segs')
    BY <2>2, <2>3, <2>4 DEF SameLinks
  <2> QED BY <1>1, <2>2, <2>3, <2>4, <2>5, SameKeeps
<1> QED
  BY <1>4, <1>5

\* A turn of the collector (gc_thread).
LEMMA GcRunLinks ==
    ASSUME IInv, LinkInv, gc_run
    PROVE  Orderly({})
<1> DEFINE m == gc_sweep([segs |-> gc_mark(segs), holes |-> holes])
<1>1. Running /\ GC_ENABLE /\ segs' = m.segs
  BY DEF gc_run
<1>2. /\ Linked(m.segs) /\ DOMAIN m.segs.node \subseteq DOMAIN segs.node
      /\ \A s \in DOMAIN m.segs.node :
             ~ m.segs.node[s].mark /\ Contents(m.segs.node[s]) = Contents(segs.node[s])
  BY <1>1, RoundLinks DEF LinkInv
<1> HIDE DEF m
<1> QED
  BY <1>1, <1>2, ContentsShape DEF LinkInv, Steady, Fresh, Orderly, Linked

\* A search that may stop at its head stops there.
LEMMA FindHead ==
    ASSUME NEW node, IsFiniteSet(DOMAIN node), NEW head, NEW P, head \in P \/ head \notin DOMAIN node
    PROVE  Find(head, node, P) = head
<1> DEFINE At == Trail(head, node)
           stops == {k \in DOMAIN At : At[k] \in DOMAIN node => At[k] \in P}
<1>1. Cardinality(DOMAIN node) \in Nat /\ DOMAIN At = 0 .. Cardinality(DOMAIN node) /\ At[0] = head
  BY TrailSteps
<1>2. 0 \in stops /\ stops \subseteq Nat
  BY <1>1
<1>3. Min(stops) \in stops /\ \A k \in stops : Min(stops) <= k
  BY <1>2, MinInSet
<1>4. Min(stops) = 0
  BY <1>2, <1>3
<1> QED
  BY <1>1, <1>2, <1>4 DEF Find

\* What create_var finds is the variable segment, and of the type.
LEMMA SlabFound ==
    ASSUME IInv, Linked(segs), NEW type, Found(FindSlab(type))
    PROVE  segs.node[FindSlab(type)].var /\ segs.node[FindSlab(type)].type = type
<1> DEFINE node == segs.node
           D == DOMAIN node
           s == FindSlab(type)
           P == {x \in D : x = segs.arr_head \/ (node[x].type = type /\ node[x].bitmap # SlabFull)}
           At == Trail(segs.var_head, node)
           n == Cardinality(D)
           stops == {k \in DOMAIN At : At[k] \in D => At[k] \in P}
           first == Min(stops)
<1>1. IsFiniteSet(D) /\ Null \notin D /\ Nowhere \notin D
  BY Types0, NullInt
<1>2. s = Find(segs.var_head, node, P) /\ s \in D /\ s # segs.arr_head
  BY DEF FindSlab, Found
<1>3. s \in P
  BY <1>1, <1>2, FindIn
<1>4. /\ n \in Nat /\ DOMAIN At = 0 .. n /\ At[0] = segs.var_head
      /\ \A k \in 1 .. n : At[k - 1] \in D => At[k] = node[At[k - 1]].next
  BY <1>1, TrailSteps
<1>5. stops # {} /\ Find(segs.var_head, node, P) = At[first]
  BY <1>1, <1>2 DEF Find
<1>6. first \in stops /\ \A k \in stops : first <= k
  <2>1. stops \subseteq Nat
    BY <1>4
  <2> QED BY <1>5, <2>1, MinInSet
<1>7. node[s].var
  <2> SUFFICES ASSUME ~ node[s].var PROVE FALSE
    OBVIOUS
  <2>1. segs.arr_head = Null \/ segs.arr_head \in P
    BY DEF Linked, HeadsRight
  <2>2. CASE \E v \in D : node[v].var
    <3>1. PICK v \in D : node[v].var
      BY <2>2
    <3>2. segs.var_head = v /\ node[v].next = segs.arr_head
      BY <3>1 DEF Linked, HeadsRight
    <3> HIDE DEF At, n, first, P, s
    <3>3. At[first] # At[0]
      BY <1>2, <1>4, <1>5, <3>1, <3>2
    <3>4. first \in 1 .. n /\ 1 \in 1 .. n /\ 1 - 1 = 0 /\ 1 \in 0 .. n
      BY <1>4, <1>6, <3>3
    <3>5. At[1] = segs.arr_head
      BY <1>4, <3>1, <3>2, <3>4
    <3>6. 1 \in stops
      BY <1>1, <1>4, <2>1, <3>4, <3>5
    <3>7. first = 1
      BY <1>4, <1>6, <3>4, <3>6
    <3> QED BY <1>2, <1>5, <3>5, <3>7
  <2>3. CASE \A v \in D : ~ node[v].var
    <3>1. segs.var_head = Null \/ segs.var_head = segs.arr_head
      BY <2>3 DEF Linked, HeadsRight
    <3>2. segs.var_head \in P \/ segs.var_head \notin D
      BY <1>1, <2>1, <3>1
    <3>3. s = segs.var_head
      BY <1>1, <1>2, <3>2, FindHead
    <3> QED BY <1>1, <1>2, <3>1, <3>3
  <2> QED BY <2>2, <2>3
<1> QED
  BY <1>2, <1>3, <1>7

\* create_var takes a bit of the segment it found.
LEMMA UseSlabLinks ==
    ASSUME IInv, LinkInv, Running, NEW s \in DOMAIN segs.node, NEW type, UseSlab(s, type)
    PROVE  Orderly({})
<1> DEFINE i == FreeSlot(segs.node[s].bitmap)
           r == [segs.node[s] EXCEPT !.bitmap = segs.node[s].bitmap \cup {i}]
           sl == [segs EXCEPT !.node = [segs.node EXCEPT ![s] = r]]
<1>1. gc_push(sl, s)
  BY DEF UseSlab
<1>2. SegList(segs) /\ s \in Nat /\ segs.node[s] \in SegRecord
  BY Types0 DEF SegList
<1>3. i \in 0 .. Slots - 1 /\ i \in {0, 1}
  BY DEF FreeSlot, Slots
<1> HIDE DEF i
<1>4. /\ r \in SegRecord /\ r.next = segs.node[s].next /\ r.prev = segs.node[s].prev
      /\ Shape(r) = Shape(segs.node[s]) /\ r.mark = segs.node[s].mark
  <2>1. segs.node[s].bitmap \cup {i} \subseteq 0 .. Slots - 1
    BY <1>2, <1>3 DEF SegRecord
  <2>2. segs.node[s].bitmap \cup {i} \cup {0, 1} = segs.node[s].bitmap \cup {0, 1}
    BY <1>3
  <2> QED BY <1>2, <2>1, <2>2, BitsShape
<1> HIDE DEF r
<1>5. /\ SegList(sl) /\ SameLinks(segs, sl)
      /\ \A x \in DOMAIN segs.node : /\ Shape(sl.node[x]) = Shape(segs.node[x])
                                     /\ sl.node[x].mark = segs.node[x].mark
  BY <1>2, <1>4, RecordLinks
<1> HIDE DEF sl
<1>6. /\ SameLinks(sl, segs') /\ DOMAIN sl.node = DOMAIN segs.node
      /\ \A x \in DOMAIN sl.node : /\ Shape(segs'.node[x]) = Shape(sl.node[x])
                                   /\ segs'.node[x].mark = sl.node[x].mark
  BY <1>1, <1>5, PushLinks DEF SameLinks
<1>7. SameLinks(segs, segs')
  BY <1>5, <1>6, SameLinksTwice
<1> QED
  BY <1>5, <1>6, <1>7, SameKeeps

\* A segment is created for a variable or an array.
LEMMA NewSegmentLinks ==
    ASSUME IInv, LinkInv, Running, NEW size \in Nat, NEW type \in Types, NEW var \in BOOLEAN,
           NEW bitmap \in SUBSET (0 .. Slots - 1), NEW tok, NewSegment(size, type, var, bitmap, tok),
           var => size = Slots /\ \E g \in Garbage : bitmap = {0} \cup g,
           var => \A x \in DOMAIN segs.node : ~ segs.node[x].var
    PROVE  /\ Orderly({})
           /\ Running' => LET r == segs'.node[seg_counter]
                          IN  /\ r.size = size /\ r.var = var /\ r.type = type /\ ~ r.mark
                              /\ seg_counter \notin DOMAIN segs.node
                              /\ handles' = Append(handles, Handle(tok, var, type, seg_counter, IF var THEN 1 ELSE size))
<1> DEFINE h == FirstFit(holes, size)
           n == seg_counter
           new == [prev |-> Null, next |-> Null, base |-> holes.node[h].base, size |-> size,
                   var |-> var, type |-> type, bitmap |-> bitmap, mark |-> FALSE, onStack |-> FALSE]
           sl == insert_after_segment(segs, n, new)
<1>1. \/ Exit("no_memory") \/ Astray
      \/ /\ h \in DOMAIN holes.node /\ sl.ok /\ gc_push(sl, n)
         /\ handles' = Append(handles, Handle(tok, var, type, n, IF var THEN 1 ELSE size))
  BY DEF NewSegment, Got
<1>2. CASE Exit("no_memory") \/ Astray
  BY <1>2, StrayKeeps DEF LinkInv, Steady, Fresh, Orderly
<1>3. CASE /\ h \in DOMAIN holes.node /\ sl.ok /\ gc_push(sl, n)
           /\ handles' = Append(handles, Handle(tok, var, type, n, IF var THEN 1 ELSE size))
  <2>1. /\ SegList(segs) /\ n \in Nat /\ DOMAIN segs.node \subseteq 0 .. n - 1 /\ DOMAIN segs.node \subseteq Nat
        /\ HoleListType(holes)
    BY Types0 DEF IInv, StateType
  <2>2. n \notin DOMAIN segs.node /\ \A x \in DOMAIN segs.node : x < n
    BY <2>1
  <2>3. holes.node[h].base \in Nat
    BY <1>3, <2>1 DEF HoleListType, HoleRecord
  <2>4. /\ new \in SegRecord /\ new.next = Null /\ new.prev = Null /\ new.var = var
        /\ new.size = size /\ new.type = type /\ new.bitmap = bitmap /\ ~ new.mark
    BY <2>3, NullInt, MMUAssumption DEF SegRecord
  <2>5. Linked(segs)
    BY DEF LinkInv
  <2> HIDE DEF new, n, h
  <2>6. /\ SegList(sl) /\ DOMAIN sl.node = DOMAIN segs.node \cup {n}
        /\ Contents(sl.node[n]) = Contents(new)
        /\ \A x \in DOMAIN segs.node : Contents(sl.node[x]) = Contents(segs.node[x])
    BY <1>3, <2>1, <2>2, <2>4, InsertSegs
  <2>7. /\ SameLinks(sl, segs')
        /\ \A x \in DOMAIN sl.node : /\ Shape(segs'.node[x]) = Shape(sl.node[x])
                                     /\ segs'.node[x].mark = sl.node[x].mark
    <3>1. n \in DOMAIN sl.node
      BY <2>6
    <3> HIDE DEF sl
    <3> QED BY <1>3, <2>6, <3>1, PushLinks
  <2>8. new.var => \A x \in DOMAIN segs.node : ~ segs.node[x].var
    BY <2>4
  <2>9. Linked(sl)
    BY <1>3, <2>1, <2>2, <2>4, <2>5, <2>8, InsertLinks
  <2>10. Linked(segs')
    BY <2>7, <2>9, SameLinked
  <2>11. \A x \in DOMAIN segs.node : sl.node[x].mark = segs.node[x].mark
    <3>1. CASE new.var
      <4>1. segs.var_tail = Null /\ Null \notin DOMAIN segs.node
        <5>1. Null \notin DOMAIN segs.node
          BY <2>1, NullInt
        <5>2. segs.var_tail = Null
          BY <2>5, <2>8, <3>1 DEF Linked, HeadsRight
        <5> QED BY <5>1, <5>2
      <4>2. segs.var_head = Null
        BY <1>3, <2>1, <2>2, <2>4, <3>1, <4>1, InsertPointers
      <4> QED BY <2>1, <2>2, <2>4, <3>1, <4>1, <4>2, InsertPointers
    <3>2. CASE ~ new.var
      BY <2>1, <2>2, <2>4, <3>2, InsertPointers
    <3> QED BY <3>1, <3>2
  <2>12. \A x \in DOMAIN segs.node : Shape(segs'.node[x]) = Shape(segs.node[x])
    BY <2>6, <2>7, ContentsShape
  <2>13. ~ sl.node[n].mark
    <3>1. CASE new.var
      <4>1. segs.var_tail = Null /\ segs.var_head = Null
        <5>1. Null \notin DOMAIN segs.node
          BY <2>1, NullInt
        <5>2. segs.var_tail = Null
          BY <2>5, <2>8, <3>1 DEF Linked, HeadsRight
        <5>3. segs.var_head = Null
          BY <1>3, <2>1, <2>2, <2>4, <3>1, <5>1, <5>2, InsertPointers
        <5> QED BY <5>2, <5>3
      <4> QED BY <2>1, <2>2, <2>4, <3>1, <4>1, InsertPointers
    <3>2. CASE ~ new.var
      BY <2>1, <2>2, <2>4, <3>2, InsertPointers
    <3> QED BY <3>1, <3>2
  <2> HIDE DEF sl
  <2>14. Shape(segs'.node[n]) = Shape(new) /\ ~ segs'.node[n].mark /\ DOMAIN segs'.node = DOMAIN segs.node \cup {n}
    BY <2>6, <2>7, <2>13, ContentsShape DEF SameLinks
  <2>15. /\ segs'.node[n].size = size /\ segs'.node[n].var = var /\ segs'.node[n].type = type
        /\ segs'.node[n].bitmap \cup {0, 1} = bitmap \cup {0, 1}
    BY <2>4, <2>14 DEF Shape
  <2>16. Proper(segs'.node[n])
    <3> SUFFICES ASSUME var PROVE \E g \in Garbage : segs'.node[n].bitmap \cup {0, 1} = g \cup {0, 1}
      BY <2>15 DEF Proper
    <3>1. PICK g \in Garbage : bitmap = {0} \cup g
      OBVIOUS
    <3>2. bitmap \cup {0, 1} = g \cup {0, 1}
      BY <3>1
    <3> QED BY <2>15, <3>2
  <2>17. Orderly({})
    BY <2>6, <2>7, <2>10, <2>11, <2>12, <2>14, <2>16 DEF LinkInv, Steady, Fresh, Orderly
  <2> QED BY <1>3, <2>2, <2>14, <2>15, <2>17 DEF n
<1> QED
  BY <1>1, <1>2, <1>3

\* An array of the client, or the variable segment, is released: with the
\* collector it is marked, without it the segment leaves the list.
LEMMA ReleaseLinks ==
    ASSUME IInv, Running, NEW sl, SegList(sl), IsFiniteSet(DOMAIN sl.node), DOMAIN sl.node \subseteq Nat,
           Linked(sl), NEW s \in DOMAIN sl.node, Release(sl, s)
    PROVE  /\ Linked(segs') /\ DOMAIN segs'.node \subseteq DOMAIN sl.node
           /\ \A x \in DOMAIN segs'.node : /\ Shape(segs'.node[x]) = Shape(sl.node[x])
                                           /\ x # s => segs'.node[x].mark = sl.node[x].mark
<1>1. CASE GC_ENABLE
  <2> DEFINE r == [sl.node[s] EXCEPT !.mark = TRUE]
             after == [sl EXCEPT !.node = [sl.node EXCEPT ![s] = r]]
  <2>1. segs' = after
    BY <1>1 DEF Release
  <2>2. sl.node[s] \in SegRecord
    BY DEF SegList
  <2>3. /\ r \in SegRecord /\ r.next = sl.node[s].next /\ r.prev = sl.node[s].prev
        /\ Shape(r) = Shape(sl.node[s])
    BY <2>2 DEF SegRecord, Shape
  <2> HIDE DEF r
  <2>4. /\ SameLinks(sl, after)
        /\ \A x \in DOMAIN sl.node : /\ Shape(after.node[x]) = Shape(sl.node[x])
                                     /\ x # s => after.node[x].mark = sl.node[x].mark
    BY <2>3, RecordLinks
  <2> HIDE DEF after
  <2>5. Linked(segs')
    BY <2>1, <2>4, SameLinked
  <2> QED BY <2>1, <2>4, <2>5 DEF SameLinks
<1>2. CASE ~ GC_ENABLE
  <2> DEFINE m == [segs |-> sl, holes |-> holes]
             after == free_segment(m, s)
  <2>1. segs' = after.segs
    BY <1>2 DEF Release
  <2>2. after.segs = unlink(sl, s)
    BY DEF free_segment
  <2> HIDE DEF m, after
  <2>3. Linked(unlink(sl, s))
    BY UnlinkLinks
  <2>4. /\ DOMAIN unlink(sl, s).node = DOMAIN sl.node \ {s}
        /\ \A x \in DOMAIN sl.node \ {s} :
               /\ Contents(unlink(sl, s).node[x]) = Contents(sl.node[x])
               /\ unlink(sl, s).node[x].mark = sl.node[x].mark
    BY UnlinkSegs
  <2> QED BY <2>1, <2>2, <2>3, <2>4, ContentsShape
<1> QED
  BY <1>1, <1>2

\* free_elem keeps the list.
LEMMA FreeElemLinks ==
    ASSUME IInv, LinkInv, NEW i \in DOMAIN handles, free_elem(i)
    PROVE  Orderly({LookupElem(handles[i].tok)})
<1> DEFINE s == LookupElem(handles[i].tok)
           r == [segs.node[s] EXCEPT !.bitmap = SymDiff(segs.node[s].bitmap, {0})]
           sl == [segs EXCEPT !.node = [segs.node EXCEPT ![s] = r]]
<1>1. \/ Astray \/ Exit("locked")
      \/ /\ s \in DOMAIN segs.node /\ Running
         /\ Release(segs, s) \/ Release(sl, s) \/ segs' = sl
  BY DEF free_elem, NullOrNode
<1>2. CASE Astray \/ Exit("locked")
  BY <1>2, StrayKeeps DEF LinkInv, Steady, Fresh, Orderly
<1>3. CASE /\ s \in DOMAIN segs.node /\ Running
           /\ Release(segs, s) \/ Release(sl, s) \/ segs' = sl
  <2>1. SegList(segs) /\ IsFiniteSet(DOMAIN segs.node) /\ DOMAIN segs.node \subseteq Nat /\ Linked(segs)
    BY <1>3, Types0 DEF LinkInv
  <2> HIDE DEF s
  <2>2. segs.node[s] \in SegRecord
    BY <1>3, <2>1 DEF SegList
  <2>3. /\ r \in SegRecord /\ r.next = segs.node[s].next /\ r.prev = segs.node[s].prev
        /\ Shape(r) = Shape(segs.node[s])
    <3>1. SymDiff(segs.node[s].bitmap, {0}) \subseteq 0 .. Slots - 1
      BY <2>2 DEF SymDiff, Slots, SegRecord
    <3> DEFINE b == SymDiff(segs.node[s].bitmap, {0})
    <3>2. b \cup {0, 1} = segs.node[s].bitmap \cup {0, 1}
      BY DEF SymDiff
    <3> HIDE DEF b
    <3>3. b \in SUBSET (0 .. Slots - 1) /\ r = [segs.node[s] EXCEPT !.bitmap = b]
      BY <3>1 DEF b
    <3> HIDE DEF r
    <3> QED BY <2>2, <3>2, <3>3, BitsShape
  <2> HIDE DEF r
  <2>4. /\ SegList(sl) /\ SameLinks(segs, sl)
        /\ \A x \in DOMAIN segs.node : /\ Shape(sl.node[x]) = Shape(segs.node[x])
                                       /\ x # s => sl.node[x].mark = segs.node[x].mark
    BY <1>3, <2>1, <2>3, RecordLinks
  <2> HIDE DEF sl
  <2>5. Linked(sl) /\ DOMAIN sl.node = DOMAIN segs.node
    BY <2>1, <2>4, SameLinked DEF SameLinks
  <2>6. /\ Linked(segs') /\ DOMAIN segs'.node \subseteq DOMAIN segs.node
        /\ \A x \in DOMAIN segs'.node : /\ Shape(segs'.node[x]) = Shape(segs.node[x])
                                        /\ x # s => segs'.node[x].mark = segs.node[x].mark
    <3>1. CASE Release(segs, s)
      BY <1>3, <2>1, <3>1, ReleaseLinks
    <3>2. CASE Release(sl, s)
      <4>1. /\ Linked(segs') /\ DOMAIN segs'.node \subseteq DOMAIN sl.node
            /\ \A x \in DOMAIN segs'.node : /\ Shape(segs'.node[x]) = Shape(sl.node[x])
                                            /\ x # s => segs'.node[x].mark = sl.node[x].mark
        BY <1>3, <2>1, <2>4, <2>5, <3>2, ReleaseLinks
      <4> QED BY <2>4, <2>5, <4>1
    <3>3. CASE segs' = sl
      BY <2>4, <2>5, <3>3 DEF Linked
    <3> QED BY <1>3, <3>1, <3>2, <3>3
  <2> QED BY <2>6 DEF LinkInv, Steady, Fresh, Orderly, s
<1> QED
  BY <1>1, <1>2, <1>3

\* So does assign.
LEMMA AssignLinks ==
    ASSUME IInv, LinkInv, NEW t, NEW fields, NEW meant, NEW value, assign(t, fields, meant, value)
    PROVE  Orderly({})
<1>1. \/ Astray \/ Exit("bad_access")
      \/ Running /\ UNCHANGED <<status, segs, holes>>
  BY DEF assign
<1>2. CASE Astray \/ Exit("bad_access")
  BY <1>2, StrayKeeps DEF LinkInv, Steady, Fresh, Orderly
<1>3. CASE Running /\ UNCHANGED <<status, segs, holes>>
  BY <1>3, StillKeeps
<1> QED
  BY <1>1, <1>2, <1>3

\* The list is linked at the start.
LEMMA InitLinks ==
    ASSUME Init
    PROVE  LinkInv
<1>1. /\ segs.node = <<>> /\ segs.var_head = Null /\ segs.var_tail = Null
      /\ segs.arr_head = Null /\ segs.arr_tail = Null
  BY DEF Init
<1>2. DOMAIN segs.node = {}
  BY <1>1
<1> QED
  BY <1>1, <1>2 DEF LinkInv, Linked, Joined, Ascends, HeadsRight

-----------------------------------------------------------------------------
(* What the tokens name, with the collector.                                *)

\* The token t is one that create_var or create_arr returns for the segment r:
\* a segment gives out two tokens for variables (line 455).
Named(t, r) ==
    /\ r.var = t.var /\ r.type = t.type
    /\ t.var => (t.tok = Slots * t.seg \/ t.tok = Slots * t.seg + 1) /\ t.size = 1 /\ r.size = Slots
    /\ ~ t.var => t.tok = t.seg /\ t.size = r.size

\* Every token the client holds names an allocated segment; an array has one
\* token, and no mark before a sweep.
NameInv ==
    Running /\ GC_ENABLE =>
        /\ \A k \in DOMAIN handles : /\ handles[k].seg \in DOMAIN segs.node
                                     /\ Named(handles[k], segs.node[handles[k].seg])
                                     /\ ~ handles[k].var => ~ segs.node[handles[k].seg].mark
        /\ \A j, k \in DOMAIN handles : ~ handles[j].var /\ handles[j].seg = handles[k].seg => j = k

\* Nothing that a token is for changes.
LEMMA NamedStays ==
    ASSUME NEW t, NEW r, NEW q, Named(t, r), Shape(q) = Shape(r)
    PROVE  Named(t, q)
  BY DEF Named, Shape

\* What is held is allocated.
LEMMA HeldThen ==
    ASSUME IInv', Running', GC_ENABLE'
    PROVE  \A k \in DOMAIN handles' : handles'[k].seg \in DOMAIN segs'.node
<1>1. /\ \A k \in DOMAIN handles' : \E i \in SegNodes' : stack'[i].ref = handles'[k].seg
      /\ \A i \in SegNodes' : stack'[i].ref \in DOMAIN segs'.node
  BY DEF IInv, HeldInv, StackExact
<1> QED
  BY <1>1

\* Tokens that are kept still name what they named.
LEMMA NamesStay ==
    ASSUME IInv', NameInv, GC_ENABLE' = GC_ENABLE, Running' => Running, NEW S, Steady(S), NEW f,
           \A k \in DOMAIN handles' : f[k] \in DOMAIN handles /\ handles'[k] = handles[f[k]],
           \A j, k \in DOMAIN handles' : f[j] = f[k] => j = k,
           Running' /\ GC_ENABLE =>
               \A k \in DOMAIN handles' : ~ handles'[k].var => handles'[k].seg \notin S
    PROVE  NameInv'
<1> SUFFICES ASSUME Running', GC_ENABLE'
             PROVE  /\ \A k \in DOMAIN handles' : /\ handles'[k].seg \in DOMAIN segs'.node
                                                  /\ Named(handles'[k], segs'.node[handles'[k].seg])
                                                  /\ ~ handles'[k].var => ~ segs'.node[handles'[k].seg].mark
                    /\ \A j, k \in DOMAIN handles' :
                           ~ handles'[j].var /\ handles'[j].seg = handles'[k].seg => j = k
  BY DEF NameInv, Named
<1>1. Running /\ GC_ENABLE
  OBVIOUS
<1>2. \A k \in DOMAIN handles' : handles'[k].seg \in DOMAIN segs'.node
  BY HeldThen
<1>3. ASSUME NEW k \in DOMAIN handles'
      PROVE  /\ Named(handles'[k], segs'.node[handles'[k].seg])
             /\ ~ handles'[k].var => ~ segs'.node[handles'[k].seg].mark
  <2> DEFINE t == handles'[k]
             x == t.seg
  <2>1. x \in DOMAIN segs.node /\ Named(t, segs.node[x]) /\ (~ t.var => ~ segs.node[x].mark)
    BY <1>1, <1>3 DEF NameInv
  <2>2. x \in DOMAIN segs'.node
    BY <1>2
  <2>3. /\ Shape(segs'.node[x]) = Shape(segs.node[x])
        /\ segs'.node[x].mark => segs.node[x].mark \/ x \in S
    BY <2>1, <2>2 DEF Steady
  <2>4. ~ t.var => x \notin S
    BY <1>1
  <2> HIDE DEF t, x
  <2>5. Named(t, segs'.node[x])
    BY <2>1, <2>3, NamedStays
  <2> QED BY <2>1, <2>3, <2>4, <2>5 DEF t, x
<1>4. \A j, k \in DOMAIN handles' : ~ handles'[j].var /\ handles'[j].seg = handles'[k].seg => j = k
  BY <1>1 DEF NameInv
<1> QED
  BY <1>2, <1>3, <1>4

\* A new token names its segment; an array's is new.
LEMMA NamesAdded ==
    ASSUME IInv, IInv', NameInv, GC_ENABLE' = GC_ENABLE, Running, Steady({}), NEW h,
           handles' = Append(handles, h),
           Running' => Named(h, segs'.node[h.seg]),
           ~ h.var => h.seg \notin DOMAIN segs.node,
           Running' /\ ~ h.var => ~ segs'.node[h.seg].mark
    PROVE  NameInv'
<1> SUFFICES ASSUME Running', GC_ENABLE'
             PROVE  /\ \A k \in DOMAIN handles' : /\ handles'[k].seg \in DOMAIN segs'.node
                                                  /\ Named(handles'[k], segs'.node[handles'[k].seg])
                                                  /\ ~ handles'[k].var => ~ segs'.node[handles'[k].seg].mark
                    /\ \A j, k \in DOMAIN handles' :
                           ~ handles'[j].var /\ handles'[j].seg = handles'[k].seg => j = k
  BY DEF NameInv, Named
<1> DEFINE n == Len(handles) + 1
<1>1. Running /\ GC_ENABLE
  OBVIOUS
<1>2. \A k \in DOMAIN handles' : handles'[k].seg \in DOMAIN segs'.node
  BY HeldThen
<1>3. /\ DOMAIN handles' = DOMAIN handles \cup {n} /\ n \notin DOMAIN handles
      /\ handles'[n] = h /\ \A k \in DOMAIN handles : handles'[k] = handles[k]
  <2>1. handles \in Seq(HandleRecord) /\ Len(handles) \in Nat /\ DOMAIN handles = 1 .. Len(handles)
    BY Types0
  <2> QED BY <2>1
<1> HIDE DEF n
<1>4. ASSUME NEW k \in DOMAIN handles
      PROVE  /\ handles[k].seg \in DOMAIN segs.node
             /\ Named(handles[k], segs'.node[handles[k].seg])
             /\ ~ handles[k].var => ~ segs'.node[handles[k].seg].mark
  <2> DEFINE t == handles[k]
             x == t.seg
  <2>1. x \in DOMAIN segs.node /\ Named(t, segs.node[x]) /\ (~ t.var => ~ segs.node[x].mark)
    BY <1>1, <1>4 DEF NameInv
  <2>2. x \in DOMAIN segs'.node
    BY <1>2, <1>3
  <2>3. /\ Shape(segs'.node[x]) = Shape(segs.node[x])
        /\ segs'.node[x].mark => segs.node[x].mark
    BY <2>1, <2>2 DEF Steady
  <2> HIDE DEF t, x
  <2>4. Named(t, segs'.node[x])
    BY <2>1, <2>3, NamedStays
  <2> QED BY <2>1, <2>3, <2>4 DEF t, x
<1>5. \A k \in DOMAIN handles' : /\ Named(handles'[k], segs'.node[handles'[k].seg])
                                 /\ ~ handles'[k].var => ~ segs'.node[handles'[k].seg].mark
  BY <1>3, <1>4
<1>6. ASSUME NEW j \in DOMAIN handles', NEW k \in DOMAIN handles',
             ~ handles'[j].var, handles'[j].seg = handles'[k].seg
      PROVE  j = k
  <2>1. ~ handles'[k].var
    BY <1>5, <1>6 DEF Named
  <2>2. CASE j \in DOMAIN handles /\ k \in DOMAIN handles
    BY <1>1, <1>3, <1>6, <2>2 DEF NameInv
  <2>3. CASE j = n \/ k = n
    BY <1>3, <1>4, <1>6, <2>1, <2>3
  <2> QED BY <1>3, <2>2, <2>3
<1> QED
  BY <1>2, <1>5, <1>6

\* Every segment's record is as the program makes it.
SlabInv == Running => \A x \in DOMAIN segs.node : Proper(segs.node[x])

\* Segments that keep their shape stay so.
LEMMA SlabsStay ==
    ASSUME SlabInv, Running' => Running, NEW S, Steady(S), Fresh
    PROVE  SlabInv'
<1> SUFFICES ASSUME Running', NEW x \in DOMAIN segs'.node PROVE Proper(segs'.node[x])
  BY DEF SlabInv, Proper
<1>1. CASE x \in DOMAIN segs.node
  <2>1. Proper(segs.node[x]) /\ Shape(segs'.node[x]) = Shape(segs.node[x])
    BY <1>1 DEF SlabInv, Steady
  <2> QED BY <2>1 DEF Proper, Shape
<1>2. CASE x \notin DOMAIN segs.node
  BY <1>2 DEF Fresh
<1> QED
  BY <1>1, <1>2

\* The list of segments and the tokens.
MapInv == LinkInv /\ SlabInv /\ NameInv

\* What the variable or array a token is for is looked up in.
LEMMA TokenFound ==
    ASSUME IInv, MapInv, Running, GC_ENABLE, NEW k \in DOMAIN handles
    PROVE  Lookup(handles[k]) = handles[k].seg
<1> DEFINE t == handles[k]
           node == segs.node
           D == DOMAIN node
           head == get_segment_head(segs)
           P == {s \in D : t.tok \in Slots * s .. Slots * s + 31}
<1>1. /\ IsFiniteSet(D) /\ D \subseteq Nat /\ Linked(segs)
      /\ t.seg \in D /\ Named(t, node[t.seg]) /\ t.var \in BOOLEAN /\ t.seg \in Nat
  <2>1. t \in HandleRecord /\ D \subseteq Nat
    BY Types0
  <2>2. t.seg \in D /\ Named(t, node[t.seg]) /\ Linked(segs)
    BY DEF MapInv, NameInv, LinkInv
  <2> QED BY <2>1, <2>2, Types0 DEF HandleRecord
<1>2. /\ head \in D \cup {Null} /\ Behind(node, head, D)
      /\ segs.arr_head \in D \cup {Null} /\ Behind(node, segs.arr_head, Arrays(node))
  BY <1>1, HeadsReach
<1>3. Ascends(node)
  BY <1>1 DEF Linked, Joined
<1>4. Lookup(t) = IF t.var THEN Find(head, node, P) ELSE Find(segs.arr_head, node, {t.tok})
  BY DEF Lookup, LookupVar, LookupArr
<1>5. t.var => t.seg \in P /\ \A s \in P : s = t.seg
  <2> SUFFICES ASSUME t.var PROVE t.seg \in P /\ \A s \in P : s = t.seg
    OBVIOUS
  <2>1. t.tok = Slots * t.seg \/ t.tok = Slots * t.seg + 1
    BY <1>1 DEF Named
  <2> DEFINE n == t.seg  tok == t.tok
  <2> HIDE DEF n, tok
  <2>2. n \in Nat /\ (tok = 32 * n \/ tok = 32 * n + 1)
    BY <1>1, <2>1 DEF n, tok, Slots
  <2>3. tok \in 32 * n .. 32 * n + 31
    BY <2>2
  <2>4. \A s \in Nat : tok \in 32 * s .. 32 * s + 31 => s = n
    BY <2>2
  <2> QED BY <1>1, <2>3, <2>4 DEF n, tok, Slots
<1>6. ~ t.var => t.tok = t.seg /\ t.seg \in Arrays(node)
  BY <1>1 DEF Named, Arrays
<1> HIDE DEF t, node, D, head, P
<1>7. CASE t.var
  <2>1. PICK last : Passes(node, head, D, last)
    BY <1>1, <1>2, <1>3, WalkPasses DEF D
  <2>2. Find(head, node, P) = t.seg
    BY <1>1, <1>5, <1>7, <2>1, PassFinds DEF D
  <2> QED BY <1>4, <1>7, <2>2 DEF t
<1>8. CASE ~ t.var
  <2>1. PICK last : Passes(node, segs.arr_head, Arrays(node), last)
    BY <1>1, <1>2, <1>3, WalkPasses DEF D
  <2>2. Find(segs.arr_head, node, {t.tok}) = t.seg
    BY <1>1, <1>6, <1>8, <2>1, PassFinds DEF D
  <2> QED BY <1>4, <1>8, <2>2 DEF t
<1> QED
  BY <1>7, <1>8

\* free_elem of one token does not release the array of another.
LEMMA ElemFound ==
    ASSUME IInv, MapInv, Running, GC_ENABLE, NEW i \in DOMAIN handles, NEW k \in DOMAIN handles,
           k # i, ~ handles[k].var
    PROVE  LookupElem(handles[i].tok) # handles[k].seg
<1> DEFINE t == handles[i]
           node == segs.node
           D == DOMAIN node
           head == get_segment_head(segs)
           P == {s \in D : IF node[s].var THEN Slots * s <= t.tok /\ t.tok < Slots * (s + 1) ELSE s = t.tok}
           s == LookupElem(t.tok)
<1>1. /\ IsFiniteSet(D) /\ Nowhere \notin D /\ Null \notin D /\ Linked(segs)
      /\ t.seg \in D /\ Named(t, node[t.seg]) /\ t.seg \in Nat /\ t.var \in BOOLEAN
      /\ handles[k].seg \in D /\ ~ node[handles[k].seg].var
      /\ ~ t.var => t.seg # handles[k].seg
  <2>1. t \in HandleRecord /\ D \subseteq Nat /\ IsFiniteSet(D)
    BY Types0
  <2>2. t.seg \in D /\ Named(t, node[t.seg]) /\ Linked(segs)
    BY DEF MapInv, NameInv, LinkInv
  <2>3. handles[k].seg \in D /\ ~ node[handles[k].seg].var /\ (~ t.var => t.seg # handles[k].seg)
    BY DEF MapInv, NameInv, Named
  <2> QED BY <2>1, <2>2, <2>3, NullInt DEF HandleRecord
<1>2. s = Find(head, node, P)
  BY DEF LookupElem
<1>3. CASE t.var
  <2>1. node[t.seg].var
    BY <1>1, <1>3 DEF Named
  <2>2. head = t.seg
    BY <1>1, <2>1 DEF get_segment_head, Linked, HeadsRight
  <2>3. t.seg \in P
    <3>1. t.tok = Slots * t.seg \/ t.tok = Slots * t.seg + 1
      BY <1>1, <1>3 DEF Named
    <3> DEFINE n == t.seg  tok == t.tok
    <3> HIDE DEF n, tok
    <3>2. n \in Nat /\ (tok = 32 * n \/ tok = 32 * n + 1)
      BY <1>1, <3>1 DEF n, tok, Slots
    <3>3. 32 * n <= tok /\ tok < 32 * (n + 1)
      BY <3>2
    <3> QED BY <1>1, <2>1, <3>3 DEF n, tok, Slots
  <2> HIDE DEF P, t, head, node
  <2>4. s = head
    BY <1>1, <1>2, <2>2, <2>3, FindHead
  <2> QED BY <1>1, <2>1, <2>2, <2>4 DEF t, node
<1>4. CASE ~ t.var
  <2> SUFFICES ASSUME s = handles[k].seg PROVE FALSE
    OBVIOUS
  <2>1. s \in P
    <3> HIDE DEF P, s, head, node
    <3> QED BY <1>1, <1>2, FindIn
  <2>2. s = t.tok
    BY <1>1, <2>1
  <2>3. t.tok = t.seg
    BY <1>1, <1>4 DEF Named
  <2> QED BY <1>1, <1>4, <2>2, <2>3
<1> QED
  BY <1>1, <1>3, <1>4

\* A step that ends the program keeps the map.
LEMMA StrayMaps ==
    ASSUME ~ Running'
    PROVE  MapInv' /\ Steady({})
  BY DEF MapInv, LinkInv, SlabInv, NameInv, Steady

\* The tokens stay, or those of the frame that is left go.
LEMMA FewerMaps ==
    ASSUME IInv', MapInv, GC_ENABLE' = GC_ENABLE, Running' => Running, Orderly({}),
           \A k \in DOMAIN handles' : k \in DOMAIN handles /\ handles'[k] = handles[k]
    PROVE  MapInv'
<1> DEFINE f == [k \in DOMAIN handles' |-> k]
<1>1. \A k \in DOMAIN handles' : f[k] = k
  OBVIOUS
<1> HIDE DEF f
<1>2. NameInv'
  BY <1>1, NamesStay DEF MapInv, Orderly
<1> QED
  BY <1>2, SlabsStay DEF MapInv, Orderly

\* A frame is left.
LEMMA PopFrameMaps ==
    ASSUME IInv, IInv', MapInv, gc_pop_frame
    PROVE  MapInv'
<1>1. Running /\ UNCHANGED <<GC_ENABLE, status, holes>> /\ handles' = HandlesBelow(rbp)
  BY DEF gc_pop_frame
<1>2. rbp \in Nat
  BY Types0
<1>3. \A k \in DOMAIN handles' : k \in DOMAIN handles /\ handles'[k] = handles[k]
  BY <1>1, <1>2, HandlesBelowPrefix
<1>4. Orderly({})
  BY PopFrameLinks DEF MapInv
<1> QED
  BY <1>1, <1>3, <1>4, FewerMaps

\* A token for a variable in a segment that has been there.
LEMMA UseSlabMaps ==
    ASSUME IInv, IInv', MapInv, Running, NEW type \in Types,
           Found(FindSlab(type)), UseSlab(FindSlab(type), type)
    PROVE  MapInv' /\ Steady({})
<1> DEFINE s == FindSlab(type)
           i == FreeSlot(segs.node[s].bitmap)
           h == Handle(Slots * s + i, TRUE, type, s, 1)
<1>1. s \in DOMAIN segs.node /\ segs.node[s].var /\ segs.node[s].type = type
  BY SlabFound DEF Found, MapInv, LinkInv
<1>2. Orderly({})
  BY <1>1, UseSlabLinks DEF MapInv
<1>3. handles' = Append(handles, h) /\ UNCHANGED <<GC_ENABLE, status, holes>>
  BY DEF UseSlab, Got
<1>4. segs.node[s].size = Slots
  BY <1>1 DEF MapInv, SlabInv, Proper
<1>5. i = 0 \/ i = 1
  BY DEF FreeSlot
<1>6. s \in Nat
  BY <1>1, Types0
<1> HIDE DEF s, i
<1>7. /\ h.seg = s /\ h.var = TRUE /\ h.type = type /\ h.size = 1
      /\ h.tok = Slots * s \/ h.tok = Slots * s + 1
  BY <1>5, <1>6 DEF Handle, Slots
<1> HIDE DEF h
<1>8. Named(h, segs.node[s])
  BY <1>1, <1>4, <1>7 DEF Named
<1>9. Running' => Named(h, segs'.node[h.seg])
  <2> SUFFICES ASSUME Running' PROVE Named(h, segs'.node[h.seg])
    OBVIOUS
  <2>1. s \in DOMAIN segs'.node
    <3>1. gc_push([segs EXCEPT !.node[s].bitmap = @ \cup {i}], s)
      BY DEF UseSlab, s, i
    <3>2. DOMAIN segs'.node = DOMAIN segs.node
      <4> DEFINE r == [segs.node[s] EXCEPT !.bitmap = segs.node[s].bitmap \cup {i}]
                 sl == [segs EXCEPT !.node = [segs.node EXCEPT ![s] = r]]
      <4>1. gc_push(sl, s)
        BY <3>1
      <4>2. SegList(segs) /\ segs.node[s] \in SegRecord
        BY <1>1, Types0 DEF SegList
      <4>3. segs.node[s].bitmap \cup {i} \subseteq 0 .. Slots - 1
        BY <1>5, <4>2 DEF SegRecord, Slots
      <4>4. r \in SegRecord
        BY <4>2, <4>3 DEF SegRecord
      <4> HIDE DEF r
      <4>5. SegList(sl) /\ DOMAIN sl.node = DOMAIN segs.node
        BY <1>1, <4>2, <4>4, OneSegment
      <4> HIDE DEF sl
      <4> QED BY <1>1, <4>1, <4>5, PushLinks DEF SameLinks
    <3> QED BY <1>1, <3>2
  <2>2. Shape(segs'.node[s]) = Shape(segs.node[s])
    BY <1>1, <1>2, <2>1 DEF Orderly, Steady
  <2> QED BY <1>7, <1>8, <2>2, NamedStays
<1>10. NameInv'
  BY <1>2, <1>3, <1>7, <1>9, NamesAdded DEF MapInv, Orderly
<1> QED
  BY <1>2, <1>3, <1>10, SlabsStay DEF MapInv, Orderly, Running

\* create_var finds the variable segment if there is one.
SlabOnly(type) == Found(FindSlab(type)) \/ \A x \in DOMAIN segs.node : ~ segs.node[x].var

\* A token for a new segment.
LEMMA NewSegmentMaps ==
    ASSUME IInv, IInv', MapInv, Running, NEW size \in Nat, NEW type \in Types, NEW var \in BOOLEAN,
           NEW bitmap \in SUBSET (0 .. Slots - 1), NEW tok, NewSegment(size, type, var, bitmap, tok),
           var => size = Slots /\ \E g \in Garbage : bitmap = {0} \cup g,
           var => \A x \in DOMAIN segs.node : ~ segs.node[x].var,
           tok = IF var THEN Slots * seg_counter ELSE seg_counter
    PROVE  MapInv' /\ Steady({})
<1> DEFINE n == seg_counter
           r == segs'.node[n]
           h == Handle(tok, var, type, n, IF var THEN 1 ELSE size)
<1>1. CASE ~ Running'
  BY <1>1, StrayMaps
<1>2. CASE Running'
  <2>1. /\ Orderly({})
        /\ r.size = size /\ r.var = var /\ r.type = type /\ ~ r.mark
        /\ n \notin DOMAIN segs.node /\ handles' = Append(handles, h)
    <3>1. LinkInv
      BY DEF MapInv
    <3>2. /\ Orderly({})
          /\ Running' => LET q == segs'.node[seg_counter]
                         IN  /\ q.size = size /\ q.var = var /\ q.type = type /\ ~ q.mark
                             /\ seg_counter \notin DOMAIN segs.node
                             /\ handles' = Append(handles, Handle(tok, var, type, seg_counter, IF var THEN 1 ELSE size))
      <4>1. /\ var => size = Slots /\ \E g \in Garbage : bitmap = {0} \cup g
            /\ var => \A x \in DOMAIN segs.node : ~ segs.node[x].var
        OBVIOUS
      <4> QED BY ONLY <3>1, <4>1, NewSegmentLinks, IInv, Running, size \in Nat, type \in Types,
                      var \in BOOLEAN, bitmap \in SUBSET (0 .. Slots - 1), NewSegment(size, type, var, bitmap, tok)
    <3> QED BY <1>2, <3>2
  <2>2. GC_ENABLE' = GC_ENABLE
    BY DEF NewSegment, Exit, Astray
  <2>3. /\ h.seg = n /\ h.var = var /\ h.type = type /\ h.tok = tok
        /\ h.size = IF var THEN 1 ELSE size
    BY DEF Handle
  <2> HIDE DEF h, n, r
  <2>4. Named(h, r)
    BY <2>1, <2>3 DEF Named, n
  <2>5. NameInv'
    <3>1. Named(h, segs'.node[h.seg]) /\ ~ segs'.node[h.seg].mark
      BY <2>1, <2>3, <2>4 DEF r
    <3>2. h.seg \notin DOMAIN segs.node
      BY <2>1, <2>3
    <3> QED BY <2>1, <2>2, <3>1, <3>2, NamesAdded DEF MapInv, Orderly
  <2> QED BY <2>1, <2>5, SlabsStay DEF MapInv, Orderly
<1> QED
  BY <1>1, <1>2

\* create_arr keeps the map.
LEMMA CreateArrMaps ==
    ASSUME IInv, IInv', MapInv, NEW type \in Types, NEW size \in ArraySizes, create_arr(type, size)
    PROVE  MapInv' /\ Steady({})
<1>1. Running /\ NewSegment(size, type, FALSE, {}, seg_counter)
  BY DEF create_arr
<1>2. FALSE \in BOOLEAN /\ {} \in SUBSET (0 .. Slots - 1) /\ size \in Nat /\ ~ FALSE
  BY MMUAssumption
<1> QED
  BY <1>1, <1>2, NewSegmentMaps

\* create_var does, if its search finds the variable segment there is.
LEMMA CreateVarMaps ==
    ASSUME IInv, IInv', MapInv, NEW type \in Types, create_var(type), SlabOnly(type)
    PROVE  MapInv' /\ Steady({})
<1> DEFINE s == FindSlab(type)
<1>1. /\ Running
      /\ \/ Astray
         \/ Found(s) /\ UseSlab(s, type)
         \/ ~ Found(s) /\ \E g \in Garbage : NewSegment(Slots, type, TRUE, {0} \cup g, Slots * seg_counter)
  BY DEF create_var
<1>2. ASSUME NEW g \in Garbage, NewSegment(Slots, type, TRUE, {0} \cup g, Slots * seg_counter), ~ Found(s)
      PROVE  MapInv' /\ Steady({})
  <2> DEFINE b == {0} \cup g
             tok == Slots * seg_counter
  <2>1. b \in SUBSET (0 .. Slots - 1) /\ Slots \in Nat /\ TRUE \in BOOLEAN
    BY MMUAssumption DEF Slots
  <2>2. NewSegment(Slots, type, TRUE, b, tok) /\ (\E e \in Garbage : b = {0} \cup e)
        /\ tok = Slots * seg_counter
    BY <1>2
  <2>3. \A x \in DOMAIN segs.node : ~ segs.node[x].var
    BY <1>2 DEF SlabOnly
  <2> HIDE DEF b, tok
  <2> QED BY <1>1, <2>1, <2>2, <2>3, NewSegmentMaps
<1>3. Astray => MapInv' /\ Steady({})
  BY StrayKeeps, StrayMaps
<1> QED
  BY <1>1, <1>2, <1>3, UseSlabMaps

\* The tokens that are left when the i-th goes.
LEMMA RemovedHandles ==
    ASSUME IInv, NEW i \in DOMAIN handles
    PROVE  LET left == RemoveAt(handles, i)
               f == [k \in DOMAIN left |-> IF k < i THEN k ELSE k + 1]
           IN  \A k \in DOMAIN left : /\ f[k] \in DOMAIN handles /\ f[k] # i /\ left[k] = handles[f[k]]
                                      /\ \A j \in DOMAIN left : f[j] = f[k] => j = k
<1> DEFINE n == Len(handles)
           a == SubSeq(handles, 1, i - 1)
           b == SubSeq(handles, i + 1, n)
           left == RemoveAt(handles, i)
<1>1. /\ handles \in Seq(HandleRecord) /\ n \in Nat /\ DOMAIN handles = 1 .. n /\ i \in 1 .. n
  BY Types0
<1>2. left = a \o b
  BY DEF RemoveAt
<1>3. /\ a \in Seq(HandleRecord) /\ Len(a) = i - 1
      /\ \A k \in 1 .. i - 1 : a[k] = handles[k]
  BY <1>1
<1>4. /\ b \in Seq(HandleRecord) /\ Len(b) = n - i
      /\ \A k \in 1 .. n - i : b[k] = handles[i + k]
  <2> DEFINE i1 == i + 1
  <2>1. /\ i1 \in Int /\ n - i1 + 1 = n - i /\ i <= n
        /\ (IF i1 <= n THEN n - i1 + 1 ELSE 0) = n - i
        /\ \A k \in 1 .. n - i : i1 + k - 1 = i + k
        /\ \A k \in i1 .. n : handles[k] \in HandleRecord
    BY <1>1
  <2>2. b = SubSeq(handles, i1, n)
    OBVIOUS
  <2> HIDE DEF b, i1, n
  <2>3. /\ b \in Seq(HandleRecord) /\ Len(b) = n - i
        /\ \A k \in 1 .. n - i : b[k] = handles[i1 + k - 1]
    BY <1>1, <2>1, <2>2, SubSeqProperties
  <2> QED
    BY <2>1, <2>3
<1> HIDE DEF a, b, left
<1>5. /\ left \in Seq(HandleRecord) /\ Len(left) = Len(a) + Len(b)
      /\ \A k \in 1 .. Len(a) + Len(b) : left[k] = IF k <= Len(a) THEN a[k] ELSE b[k - Len(a)]
  BY <1>2, <1>3, <1>4, ConcatProperties
<1> HIDE DEF n
<1>6. DOMAIN left = 1 .. n - 1
  BY <1>1, <1>3, <1>4, <1>5
<1>7. ASSUME NEW k \in 1 .. n - 1
      PROVE  left[k] = IF k < i THEN handles[k] ELSE handles[k + 1]
  <2>1. CASE k < i
    <3>1. k \in 1 .. i - 1 /\ k \in 1 .. Len(a) + Len(b) /\ k <= Len(a)
      BY <1>1, <1>3, <1>4, <2>1
    <3> QED BY <1>3, <1>5, <2>1, <3>1
  <2>2. CASE ~ (k < i)
    <3>1. /\ k \in 1 .. Len(a) + Len(b) /\ ~ (k <= Len(a))
          /\ k - Len(a) \in 1 .. n - i /\ i + (k - Len(a)) = k + 1
      BY <1>1, <1>3, <1>4, <2>2
    <3>2. left[k] = b[k - Len(a)]
      BY <1>5, <3>1
    <3>3. b[k - Len(a)] = handles[i + (k - Len(a))]
      BY <1>4, <3>1
    <3> QED BY <2>2, <3>1, <3>2, <3>3
  <2> QED BY <2>1, <2>2
<1> DEFINE f == [k \in DOMAIN left |-> IF k < i THEN k ELSE k + 1]
<1>8. \A k \in 1 .. n - 1 : /\ f[k] = IF k < i THEN k ELSE k + 1
                            /\ f[k] \in DOMAIN handles /\ f[k] # i
  BY <1>1, <1>6
<1>9. \A j, k \in 1 .. n - 1 : f[j] = f[k] => j = k
  BY <1>1, <1>8
<1>10. \A k \in 1 .. n - 1 : left[k] = handles[f[k]]
  BY <1>7, <1>8
<1> HIDE DEF f
<1> QED
  BY <1>6, <1>8, <1>9, <1>10 DEF f, left

\* free_elem does.
LEMMA FreeElemMaps ==
    ASSUME IInv, IInv', MapInv, NEW i \in DOMAIN handles, free_elem(i)
    PROVE  MapInv'
<1> DEFINE s == LookupElem(handles[i].tok)
           left == RemoveAt(handles, i)
           f == [k \in DOMAIN left |-> IF k < i THEN k ELSE k + 1]
<1>1. \/ Astray \/ Exit("locked")
      \/ Running /\ handles' = left /\ UNCHANGED <<GC_ENABLE, status>>
  BY DEF free_elem
<1>2. CASE Astray \/ Exit("locked")
  BY <1>2, StrayKeeps, StrayMaps
<1>3. CASE Running /\ handles' = left /\ UNCHANGED <<GC_ENABLE, status>>
  <2>1. \A k \in DOMAIN left : /\ f[k] \in DOMAIN handles /\ f[k] # i /\ left[k] = handles[f[k]]
                               /\ \A j \in DOMAIN left : f[j] = f[k] => j = k
    BY RemovedHandles
  <2>2. Orderly({s})
    BY FreeElemLinks DEF MapInv
  <2> HIDE DEF f, left
  <2>3. GC_ENABLE => \A k \in DOMAIN handles' : ~ handles'[k].var => handles'[k].seg \notin {s}
    BY <1>3, <2>1, ElemFound
  <2> HIDE DEF s
  <2>4. NameInv'
    BY <1>3, <2>1, <2>2, <2>3, NamesStay DEF MapInv, Orderly
  <2> QED BY <1>3, <2>2, <2>4, SlabsStay DEF MapInv, Orderly
<1> QED
  BY <1>1, <1>2, <1>3

\* assign does.
LEMMA AssignMaps ==
    ASSUME IInv, IInv', MapInv, NEW t, NEW fields, NEW meant, NEW value, assign(t, fields, meant, value)
    PROVE  MapInv'
<1>1. \/ Astray \/ Exit("bad_access")
      \/ Running /\ UNCHANGED <<GC_ENABLE, status, segs, holes, handles>>
  BY DEF assign
<1>2. CASE Astray \/ Exit("bad_access")
  BY <1>2, StrayKeeps, StrayMaps
<1>3. CASE Running /\ UNCHANGED <<GC_ENABLE, status, segs, holes, handles>>
  BY <1>3, AssignLinks, FewerMaps DEF MapInv
<1> QED
  BY <1>1, <1>2, <1>3

\* The map holds at the start.
LEMMA InitMaps ==
    ASSUME Init
    PROVE  MapInv
<1>1. segs.node = <<>> /\ handles = <<>>
  BY DEF Init
<1>2. DOMAIN segs.node = {} /\ DOMAIN handles = {}
  BY <1>1
<1> QED
  BY <1>2, InitLinks DEF MapInv, SlabInv, NameInv

\* Every step keeps the map, if create_var finds the variable segment there is.
LEMMA NextMaps ==
    ASSUME IInv, IInv', MapInv, [Next]_vars,
           Running' => \A type \in Types : create_var(type) => SlabOnly(type)
    PROVE  MapInv'
<1> SUFFICES ASSUME Running' PROVE MapInv'
  BY StrayMaps
<1>1. CASE UNCHANGED vars
  BY <1>1 DEF vars, MapInv, LinkInv, SlabInv, NameInv, Linked, Running, Proper, Named
<1>2. CASE push_rbp
  BY <1>2, StillKeeps, FewerMaps DEF push_rbp, MapInv
<1>3. CASE gc_pop_frame
  BY <1>3, PopFrameMaps
<1>4. CASE gc_run
  <2>1. Running /\ UNCHANGED <<GC_ENABLE, status, handles>>
    BY <1>4 DEF gc_run
  <2>2. Orderly({})
    BY <1>4, GcRunLinks DEF MapInv
  <2> QED BY <2>1, <2>2, FewerMaps DEF Running
<1>5. ASSUME NEW type \in Types, create_var(type) PROVE MapInv'
  BY <1>5, CreateVarMaps
<1>6. ASSUME NEW type \in Types, NEW size \in ArraySizes, create_arr(type, size) PROVE MapInv'
  BY <1>6, CreateArrMaps
<1>7. ASSUME NEW i \in DOMAIN handles, NEW value \in {0, 1},
             \/ assign_var(handles[i], value)
             \/ assign_arr(handles[i], value)
             \/ assign_arr_at(handles[i], value, handles[i].size - 1)
      PROVE  MapInv'
  BY <1>7, AssignMaps DEF assign_var, assign_arr, assign_arr_at
<1>8. ASSUME NEW i \in DOMAIN handles, free_elem(i) PROVE MapInv'
  BY <1>8, FreeElemMaps
<1> QED
  BY <1>1, <1>2, <1>3, <1>4, <1>5, <1>6, <1>7, <1>8 DEF Next

\* With at most one variable segment after the step, create_var found it.
LEMMA OneSlabOnly ==
    ASSUME IInv, Running', OneSlab', NEW type \in Types, create_var(type)
    PROVE  SlabOnly(type)
<1> SUFFICES ASSUME ~ Found(FindSlab(type)), NEW y \in DOMAIN segs.node, segs.node[y].var PROVE FALSE
  BY DEF SlabOnly
<1>1. PICK g \in Garbage : NewSegment(Slots, type, TRUE, {0} \cup g, Slots * seg_counter)
  <2>1. Running /\ ~ Astray
    BY StrayKeeps DEF create_var
  <2> QED BY <2>1 DEF create_var
<1> DEFINE h == FirstFit(holes, Slots)
           n == seg_counter
           bitmap == {0} \cup g
           new == [prev |-> Null, next |-> Null, base |-> holes.node[h].base, size |-> Slots,
                   var |-> TRUE, type |-> type, bitmap |-> bitmap, mark |-> FALSE, onStack |-> FALSE]
           sl == insert_after_segment(segs, n, new)
<1>2. h \in DOMAIN holes.node /\ sl.ok /\ gc_push(sl, n)
  BY <1>1, StrayKeeps DEF NewSegment
<1>3. SegList(segs) /\ n \in Nat /\ DOMAIN segs.node \subseteq 0 .. n - 1 /\ HoleListType(holes)
  BY Types0 DEF IInv, StateType
<1>4. n \notin DOMAIN segs.node
  BY <1>3
<1>5. holes.node[h].base \in Nat
  BY <1>2, <1>3 DEF HoleListType, HoleRecord
<1>6. bitmap \in SUBSET (0 .. Slots - 1) /\ type \in 0 .. 3
  BY MMUAssumption DEF Slots
<1> HIDE DEF bitmap, h
<1>7. new \in SegRecord /\ new.var
  BY <1>5, <1>6, NullInt DEF SegRecord, Slots
<1> HIDE DEF new, n
<1>8. /\ SegList(sl) /\ DOMAIN sl.node = DOMAIN segs.node \cup {n}
      /\ Contents(sl.node[n]) = Contents(new) /\ Contents(sl.node[y]) = Contents(segs.node[y])
  BY <1>2, <1>3, <1>4, <1>7, InsertSegs
<1>9. sl.node[n].var /\ sl.node[y].var
  BY <1>7, <1>8 DEF Contents
<1> HIDE DEF sl
<1>10. DOMAIN segs'.node = DOMAIN sl.node /\ segs'.node[n].var /\ segs'.node[y].var
  <2>1. n \in DOMAIN sl.node
    BY <1>8
  <2> QED BY <1>2, <1>8, <1>9, <2>1, PushLinks DEF SameLinks
<1> QED
  BY <1>4, <1>8, <1>10 DEF OneSlab

\* The client uses one type, and malloc never leaves a bitmap that looks full.
OneKind ==
    /\ \A a, b \in Types : a = b
    /\ \A g \in Garbage : g \cup {0, 1} # SlabFull

\* Then create_var finds the variable segment, too.
LEMMA OneKindOnly ==
    ASSUME OneKind, IInv, MapInv, Running, NEW type \in Types
    PROVE  SlabOnly(type)
<1> SUFFICES ASSUME NEW v \in DOMAIN segs.node, segs.node[v].var PROVE Found(FindSlab(type))
  BY DEF SlabOnly
<1> DEFINE P == {s \in DOMAIN segs.node : s = segs.arr_head
                                             \/ (segs.node[s].type = type /\ segs.node[s].bitmap # SlabFull)}
<1>1. Linked(segs) /\ Proper(segs.node[v]) /\ IsFiniteSet(DOMAIN segs.node)
  BY Types0 DEF MapInv, LinkInv, SlabInv
<1>2. segs.var_head = v /\ v # segs.arr_head
  <2>1. segs.var_head = v
    BY <1>1 DEF Linked, HeadsRight
  <2>2. v # Null
    BY Types0, NullInt
  <2> QED BY <1>1, <2>1, <2>2 DEF Linked, HeadsRight
<1>3. segs.node[v].type = type
  BY <1>1 DEF Proper, OneKind
<1>4. segs.node[v].bitmap # SlabFull
  <2>1. PICK g \in Garbage : segs.node[v].bitmap \cup {0, 1} = g \cup {0, 1}
    BY <1>1 DEF Proper
  <2>2. SlabFull \cup {0, 1} = SlabFull
    BY DEF SlabFull
  <2> QED BY <2>1, <2>2 DEF OneKind
<1>5. v \in P
  BY <1>3, <1>4
<1>6. FindSlab(type) = Find(segs.var_head, segs.node, P)
  BY DEF FindSlab
<1> HIDE DEF P
<1>7. FindSlab(type) = v
  BY <1>1, <1>2, <1>5, <1>6, FindHead
<1> QED
  BY <1>2, <1>7 DEF Found

-----------------------------------------------------------------------------
(* What the client reads, with the collector.                               *)

Same(t, u) == t.tok = u.tok /\ t.var = u.var

\* The word that is the i-th field of what t names.
FieldWord(sl, t, i) == sl.node[t.seg].base + (IF t.var THEN t.tok - Slots * t.seg ELSE i)

\* A token of the segment it is of, which is one of the list.
Bound(sl, t) ==
    /\ t.seg \in Nat /\ t.size \in Nat /\ t.var \in BOOLEAN
    /\ t.seg \in DOMAIN sl.node /\ Named(t, sl.node[t.seg])
    /\ sl.node[t.seg].base \in Nat /\ sl.node[t.seg].size \in Nat

\* What the client has written through a token it still holds.
Remembers(sl, hs, wr, on) ==
    /\ wr.fields # {} => \E k \in DOMAIN hs : Same(hs[k], wr)
    /\ \A k \in DOMAIN hs, i \in wr.fields :
           Same(hs[k], wr) => i < hs[k].size /\ FieldWord(sl, hs[k], i) \in on

\* With the collector the memory holds what the client has written.
ValueInv == Running /\ GC_ENABLE => Remembers(segs, handles, written, ones)

\* A token the client holds is of its segment.
LEMMA TokenBound ==
    ASSUME IInv, MapInv, Running, GC_ENABLE, NEW k \in DOMAIN handles
    PROVE  Bound(segs, handles[k])
<1> DEFINE t == handles[k]
           r == segs.node[t.seg]
<1>1. t \in HandleRecord
  BY Types0
<1>2. t.seg \in Nat /\ t.size \in Nat /\ t.var \in BOOLEAN
  BY <1>1 DEF HandleRecord
<1>3. t.seg \in DOMAIN segs.node /\ Named(t, r)
  BY DEF MapInv, NameInv
<1>4. r \in SegRecord
  BY <1>3, Types0 DEF SegList
<1>5. r.base \in Nat /\ r.size \in Nat
  BY <1>4 DEF SegRecord
<1> QED
  BY <1>2, <1>3, <1>5 DEF Bound

\* And it stays so while the segment keeps its shape.
LEMMA TokenBoundThen ==
    ASSUME IInv', MapInv', Running', GC_ENABLE', NEW k \in DOMAIN handles'
    PROVE  Bound(segs', handles'[k])
<1> DEFINE t == handles'[k]
           r == segs'.node[t.seg]
<1>1. t \in HandleRecord
  <2>1. handles' \in Seq(HandleRecord)
    BY DEF IInv, StateType
  <2> QED BY <2>1
<1>2. t.seg \in Nat /\ t.size \in Nat /\ t.var \in BOOLEAN
  BY <1>1 DEF HandleRecord
<1>3. t.seg \in DOMAIN segs'.node /\ Named(t, r)
  <2>1. \A j \in DOMAIN handles' : handles'[j].seg \in DOMAIN segs'.node
                                    /\ Named(handles'[j], segs'.node[handles'[j].seg])
    BY DEF MapInv, NameInv, Named
  <2> QED BY <2>1
<1>4. r \in SegRecord
  <2>1. SegList(segs')
    BY DEF IInv, StateType, SegList
  <2> QED BY <1>3, <2>1 DEF SegList
<1>5. r.base \in Nat /\ r.size \in Nat
  BY <1>4 DEF SegRecord
<1> QED
  BY <1>2, <1>3, <1>5 DEF Bound

\* The field is a word of the segment.
LEMMA FieldInSpan ==
    ASSUME NEW sl, NEW t, Bound(sl, t), NEW i \in Nat, i < t.size
    PROVE  /\ FieldWord(sl, t, i) \in Nat /\ FieldWord(sl, t, i) \in Span(sl.node[t.seg])
           /\ In(FieldWord(sl, t, i), sl.node[t.seg].base, sl.node[t.seg].size)
<1> DEFINE b == sl.node[t.seg].base  n == sl.node[t.seg].size
           o == IF t.var THEN t.tok - Slots * t.seg ELSE i
<1>1. b \in Nat /\ n \in Nat /\ FieldWord(sl, t, i) = b + o
  BY DEF Bound, FieldWord
<1>2. o \in Nat /\ o < n
  <2>1. CASE t.var
    <3>1. (t.tok = Slots * t.seg \/ t.tok = Slots * t.seg + 1) /\ n = Slots /\ t.seg \in Nat
      BY <2>1 DEF Bound, Named
    <3> DEFINE s == t.seg  tok == t.tok
    <3>2. o = tok - 32 * s
      BY <2>1 DEF Slots
    <3> HIDE DEF s, tok, o, n
    <3>3. s \in Nat /\ (tok = 32 * s \/ tok = 32 * s + 1) /\ n = 32
      BY <3>1 DEF s, tok, n, Slots
    <3> QED BY <3>2, <3>3
  <2>2. CASE ~ t.var
    <3>1. t.size = n /\ o = i
      BY <2>2 DEF Bound, Named
    <3> QED BY <3>1
  <2> QED BY <2>1, <2>2
<1> HIDE DEF b, n, o
<1>3. b + o \in Nat /\ b <= b + o /\ b + o < b + n /\ b + o \in b .. b + n - 1
  BY <1>1, <1>2
<1> QED
  BY <1>1, <1>3 DEF In, Span, b, n

\* Two tokens that are the same name the same words.
LEMMA Twins ==
    ASSUME NEW sl, NEW t, NEW u, Bound(sl, t), Bound(sl, u), Same(t, u)
    PROVE  t.seg = u.seg /\ t.size = u.size /\ \A i : FieldWord(sl, t, i) = FieldWord(sl, u, i)
<1>1. t.seg = u.seg
  <2>1. CASE t.var
    <3> DEFINE m == t.seg  n == u.seg  tok == t.tok
    <3>1. /\ m \in Nat /\ n \in Nat
          /\ tok = Slots * m \/ tok = Slots * m + 1
          /\ tok = Slots * n \/ tok = Slots * n + 1
      BY <2>1 DEF Bound, Named, Same
    <3> HIDE DEF m, n, tok
    <3>2. m = n
      BY <3>1 DEF Slots
    <3> QED BY <3>2 DEF m, n
  <2>2. CASE ~ t.var
    BY <2>2 DEF Bound, Named, Same
  <2> QED BY <2>1, <2>2
<1>2. t.size = u.size
  BY <1>1 DEF Bound, Named, Same
<1> QED
  BY <1>1, <1>2 DEF FieldWord, Same

\* Different fields are different words, of one token or of two.
LEMMA Distinct ==
    ASSUME NEW sl, Apart(sl.node), NEW t, NEW u, Bound(sl, t), Bound(sl, u),
           NEW i \in Nat, i < t.size, NEW j \in Nat, j < u.size,
           FieldWord(sl, t, i) = FieldWord(sl, u, j)
    PROVE  Same(t, u) /\ i = j
<1> DEFINE w == FieldWord(sl, t, i)
<1>1. /\ w \in Nat /\ In(w, sl.node[t.seg].base, sl.node[t.seg].size)
      /\ In(w, sl.node[u.seg].base, sl.node[u.seg].size)
  BY FieldInSpan
<1>2. t.seg = u.seg
  <2>1. t.seg \in DOMAIN sl.node /\ u.seg \in DOMAIN sl.node
    BY DEF Bound
  <2> HIDE DEF w
  <2> QED BY <1>1, <2>1 DEF Apart
<1>3. t.var = u.var
  BY <1>2 DEF Bound, Named
<1> DEFINE b == sl.node[t.seg].base
           o == IF t.var THEN t.tok - Slots * t.seg ELSE i
           p == IF t.var THEN u.tok - Slots * t.seg ELSE j
<1>4. b + o = b + p /\ b \in Nat
  BY <1>2, <1>3 DEF FieldWord, Bound
<1>5. CASE t.var
  <2>1. i = 0 /\ j = 0
    <3>1. t.size = 1 /\ u.size = 1
      BY <1>3, <1>5 DEF Bound, Named
    <3> QED BY <3>1
  <2> DEFINE s == t.seg  tok == t.tok  uok == u.tok
  <2>2. /\ s \in Nat
        /\ tok = Slots * s \/ tok = Slots * s + 1
        /\ uok = Slots * s \/ uok = Slots * s + 1
        /\ b + (tok - Slots * s) = b + (uok - Slots * s)
    BY <1>2, <1>3, <1>4, <1>5 DEF Bound, Named
  <2> HIDE DEF s, tok, uok, b
  <2>3. tok = uok
    BY <1>4, <2>2 DEF Slots
  <2> QED BY <1>3, <2>1, <2>3 DEF Same, tok, uok
<1>6. CASE ~ t.var
  <2>1. t.tok = u.tok
    BY <1>2, <1>3, <1>6 DEF Bound, Named
  <2>2. b + i = b + j
    BY <1>4, <1>6
  <2> HIDE DEF b
  <2>3. i = j
    BY <1>4, <2>2
  <2> QED BY <1>3, <2>1, <2>3 DEF Same
<1> QED
  BY <1>3, <1>5, <1>6 DEF Bound

\* A segment that keeps its shape keeps its words.
LEMMA FieldStays ==
    ASSUME NEW sl, NEW after, NEW t, Shape(after.node[t.seg]) = Shape(sl.node[t.seg]), NEW i
    PROVE  FieldWord(after, t, i) = FieldWord(sl, t, i)
  BY DEF FieldWord, Shape

\* The client holds fewer tokens, and nobody writes.
LEMMA FewerValues ==
    ASSUME IInv, IInv', MapInv, MapInv', ValueInv, GC_ENABLE' = GC_ENABLE, Running' => Running,
           NEW S, Steady(S),
           \A k \in DOMAIN handles' : \E j \in DOMAIN handles : handles'[k] = handles[j],
           \/ written' = Nothing
           \/ /\ written' = written /\ (ones' = ones \/ ones' = Kept(segs'))
              /\ written.fields # {} => \E k \in DOMAIN handles' : Same(handles'[k], written)
    PROVE  ValueInv'
<1> SUFFICES ASSUME Running', GC_ENABLE' PROVE Remembers(segs', handles', written', ones')
  BY DEF ValueInv
<1>1. CASE written' = Nothing
  <2>1. written'.fields = {}
    BY <1>1 DEF Nothing
  <2> QED BY <2>1 DEF Remembers
<1>2. CASE /\ written' = written /\ (ones' = ones \/ ones' = Kept(segs'))
           /\ written.fields # {} => \E k \in DOMAIN handles' : Same(handles'[k], written)
  <2> SUFFICES ASSUME NEW k \in DOMAIN handles', NEW i \in written.fields, Same(handles'[k], written)
               PROVE  i < handles'[k].size /\ FieldWord(segs', handles'[k], i) \in ones'
    BY <1>2 DEF Remembers
  <2> DEFINE t == handles'[k]
  <2>1. Running /\ GC_ENABLE
    OBVIOUS
  <2>2. PICK j \in DOMAIN handles : t = handles[j]
    OBVIOUS
  <2>3. i < t.size /\ FieldWord(segs, t, i) \in ones
    BY <2>1, <2>2 DEF ValueInv, Remembers
  <2>4. Bound(segs, t) /\ Bound(segs', t)
    BY <2>1, <2>2, TokenBound, TokenBoundThen
  <2>5. Shape(segs'.node[t.seg]) = Shape(segs.node[t.seg])
    BY <2>4 DEF Bound, Steady
  <2>6. i \in Nat
    BY DEF IInv, StateType
  <2> HIDE DEF t
  <2>7. FieldWord(segs', t, i) = FieldWord(segs, t, i)
    BY <2>5, FieldStays
  <2>8. FieldWord(segs', t, i) \in Span(segs'.node[t.seg]) /\ t.seg \in DOMAIN segs'.node
    BY <2>3, <2>4, <2>6, FieldInSpan DEF Bound
  <2>9. FieldWord(segs', t, i) \in Kept(segs')
    BY <2>3, <2>7, <2>8 DEF Kept
  <2> QED BY <1>2, <2>3, <2>7, <2>9 DEF t
<1> QED
  BY <1>1, <1>2

\* A new token is one of its own, or one the client has already.
LEMMA MoreValues ==
    ASSUME IInv, IInv', MapInv, MapInv', ValueInv, GC_ENABLE' = GC_ENABLE, Running' => Running, Steady({}),
           \A k \in DOMAIN handles : k \in DOMAIN handles' /\ handles'[k] = handles[k],
           written' = written, ones' = ones
    PROVE  ValueInv'
<1> SUFFICES ASSUME Running', GC_ENABLE' PROVE Remembers(segs', handles', written, ones)
  BY DEF ValueInv
<1>1. Running /\ GC_ENABLE
  OBVIOUS
<1>2. Remembers(segs, handles, written, ones)
  BY <1>1 DEF ValueInv
<1>3. written.fields # {} => \E k \in DOMAIN handles' : Same(handles'[k], written)
  BY <1>2 DEF Remembers
<1>4. ASSUME NEW k \in DOMAIN handles', NEW i \in written.fields, Same(handles'[k], written)
      PROVE  i < handles'[k].size /\ FieldWord(segs', handles'[k], i) \in ones
  <2>1. PICK j \in DOMAIN handles : Same(handles[j], written)
    BY <1>2 DEF Remembers
  <2> DEFINE t == handles'[k]  u == handles[j]
  <2>2. i < u.size /\ FieldWord(segs, u, i) \in ones
    BY <1>2, <2>1 DEF Remembers
  <2>3. Bound(segs, u)
    BY <1>1, TokenBound
  <2>4. Bound(segs', u) /\ Bound(segs', t)
    <3>1. j \in DOMAIN handles' /\ handles'[j] = u
      OBVIOUS
    <3> QED BY <3>1, TokenBoundThen
  <2>5. Same(t, u)
    BY <1>4, <2>1 DEF Same
  <2>6. Shape(segs'.node[u.seg]) = Shape(segs.node[u.seg])
    BY <2>3, <2>4 DEF Bound, Steady
  <2> HIDE DEF t, u
  <2>7. t.size = u.size /\ FieldWord(segs', t, i) = FieldWord(segs', u, i)
    BY <2>4, <2>5, Twins
  <2>8. FieldWord(segs', u, i) = FieldWord(segs, u, i)
    BY <2>6, FieldStays
  <2> QED BY <2>2, <2>7, <2>8 DEF t
<1> QED
  BY <1>3, <1>4 DEF Remembers

\* GiveUp, as the invariant sees it.
LEMMA GaveUp ==
    ASSUME NEW held, NEW words, GiveUp(held, words)
    PROVE  \/ written' = Nothing
           \/ /\ written' = written /\ ones' = words
              /\ written.fields # {} => \E k \in DOMAIN held : Same(held[k], written)
  BY DEF GiveUp, Same

\* A frame is left, and its tokens with it.
LEMMA PopFrameValues ==
    ASSUME IInv, IInv', MapInv, MapInv', ValueInv, gc_pop_frame
    PROVE  ValueInv'
<1>1. /\ Running /\ UNCHANGED <<GC_ENABLE, status, holes>> /\ handles' = HandlesBelow(rbp)
      /\ GiveUp(handles', ones)
  BY DEF gc_pop_frame
<1>2. rbp \in Nat
  BY Types0
<1>3. \A k \in DOMAIN handles' : k \in DOMAIN handles /\ handles'[k] = handles[k]
  BY <1>1, <1>2, HandlesBelowPrefix
<1>4. Steady({})
  BY PopFrameLinks DEF MapInv, Orderly
<1>5. \/ written' = Nothing
      \/ /\ written' = written /\ ones' = ones
         /\ written.fields # {} => \E k \in DOMAIN handles' : Same(handles'[k], written)
  BY <1>1, GaveUp
<1> QED
  BY <1>1, <1>3, <1>4, <1>5, FewerValues

\* The collector frees nothing that a token is for.
LEMMA GcRunValues ==
    ASSUME IInv, IInv', MapInv, MapInv', ValueInv, gc_run
    PROVE  ValueInv'
<1>1. /\ Running /\ UNCHANGED <<GC_ENABLE, status, handles, written>> /\ ones' = Kept(segs')
  BY DEF gc_run
<1>2. Steady({})
  BY GcRunLinks DEF MapInv, Orderly
<1>3. GC_ENABLE /\ (written.fields # {} => \E k \in DOMAIN handles' : Same(handles'[k], written))
  BY <1>1 DEF ValueInv, Remembers, gc_run
<1> QED
  BY <1>1, <1>2, <1>3, FewerValues DEF Running

\* free_elem of a token gives up what was written through it.
LEMMA FreeElemValues ==
    ASSUME IInv, IInv', MapInv, MapInv', ValueInv, NEW i \in DOMAIN handles, free_elem(i)
    PROVE  ValueInv'
<1>1. \/ Astray \/ Exit("locked")
      \/ /\ Running /\ handles' = RemoveAt(handles, i) /\ UNCHANGED <<GC_ENABLE, status>>
         /\ GiveUp(handles', Kept(segs'))
  BY DEF free_elem
<1>2. CASE Astray \/ Exit("locked")
  BY <1>2, StrayKeeps DEF ValueInv
<1>3. CASE /\ Running /\ handles' = RemoveAt(handles, i) /\ UNCHANGED <<GC_ENABLE, status>>
           /\ GiveUp(handles', Kept(segs'))
  <2> DEFINE left == RemoveAt(handles, i)
             f == [k \in DOMAIN left |-> IF k < i THEN k ELSE k + 1]
             S == {LookupElem(handles[i].tok)}
  <2>1. \A k \in DOMAIN left : f[k] \in DOMAIN handles /\ left[k] = handles[f[k]]
    BY RemovedHandles
  <2> HIDE DEF f, left
  <2>2. \A k \in DOMAIN handles' : \E j \in DOMAIN handles : handles'[k] = handles[j]
    BY <1>3, <2>1 DEF left
  <2>3. Steady(S)
    BY FreeElemLinks DEF MapInv, Orderly
  <2> HIDE DEF S
  <2>4. \/ written' = Nothing
        \/ /\ written' = written /\ ones' = Kept(segs')
           /\ written.fields # {} => \E k \in DOMAIN handles' : Same(handles'[k], written)
    BY <1>3, GaveUp
  <2> QED BY <1>3, <2>2, <2>3, <2>4, FewerValues
<1> QED
  BY <1>1, <1>2, <1>3

\* A token is created.
LEMMA CreateValues ==
    ASSUME IInv, IInv', MapInv, MapInv', ValueInv, Steady({}), NEW type \in Types,
           create_var(type) \/ \E size \in ArraySizes : create_arr(type, size)
    PROVE  ValueInv'
<1>1. \/ Astray \/ Exit("no_memory")
      \/ /\ Running /\ UNCHANGED <<GC_ENABLE, status, memory>>
         /\ \E h : handles' = Append(handles, h)
  <2>1. ASSUME NEW size, NEW var, NEW bitmap, NEW tok, NewSegment(size, type, var, bitmap, tok)
        PROVE  \/ Astray \/ Exit("no_memory")
               \/ /\ UNCHANGED <<GC_ENABLE, status, memory>>
                  /\ \E h : handles' = Append(handles, h)
    BY <2>1 DEF NewSegment, Got
  <2>2. ASSUME NEW s, UseSlab(s, type)
        PROVE  UNCHANGED <<GC_ENABLE, status, memory>> /\ \E h : handles' = Append(handles, h)
    BY <2>2 DEF UseSlab, Got
  <2> QED BY <2>1, <2>2 DEF create_var, create_arr
<1>2. CASE Astray \/ Exit("no_memory")
  BY <1>2, StrayKeeps DEF ValueInv
<1>3. CASE /\ Running /\ UNCHANGED <<GC_ENABLE, status, memory>>
           /\ \E h : handles' = Append(handles, h)
  <2>1. PICK h : handles' = Append(handles, h)
    BY <1>3
  <2>2. handles \in Seq(HandleRecord) /\ Len(handles) \in Nat /\ DOMAIN handles = 1 .. Len(handles)
    BY Types0
  <2>3. \A k \in DOMAIN handles : k \in DOMAIN handles' /\ handles'[k] = handles[k]
    BY <2>1, <2>2
  <2> QED BY <1>3, <2>3, MoreValues DEF memory
<1> QED
  BY <1>1, <1>2, <1>3

\* No assignment through a token the client holds is refused, and it writes
\* the fields of what the token names.
LEMMA AssignFields ==
    ASSUME IInv, MapInv, GC_ENABLE, NEW k \in DOMAIN handles, NEW fields \in SUBSET Nat, NEW value,
           \A i \in fields : i < handles[k].size,
           assign(handles[k], fields, fields, value)
    PROVE  LET t == handles[k]
               words == {FieldWord(segs, t, i) : i \in fields}
           IN  /\ Running /\ (value = 1 => ones = {})
               /\ ones' = IF value = 1 THEN ones \cup words ELSE ones \ words
               /\ written' = Meant(t, fields, value)
               /\ UNCHANGED <<GC_ENABLE, status, segs, holes, seg_counter, gc, handles>>
<1> DEFINE t == handles[k]
           s == Lookup(t)
           r == segs.node[s]
           named == {Word(t, s, i) : i \in fields}
<1>1. /\ Running /\ (value = 1 => ones = {})
      /\ IF ~ NullOrNode(segs.node, s) THEN Astray
         ELSE IF s = Null THEN Exit("bad_access")
         ELSE IF r.type # t.type THEN Exit("bad_access")
         ELSE IF \E i \in fields : i >= r.size THEN Exit("bad_access")
         ELSE /\ ones' = IF value = 1 THEN ones \cup named ELSE ones \ named
              /\ written' = Meant(t, fields, value)
              /\ UNCHANGED <<GC_ENABLE, status, segs, holes, seg_counter, gc, handles>>
  BY DEF assign
<1>2. s = t.seg
  BY <1>1, TokenFound
<1>3. Bound(segs, t) /\ s \in DOMAIN segs.node /\ s # Null
  <2>1. Bound(segs, t)
    BY <1>1, TokenBound
  <2> QED BY <1>2, <2>1, NullInt DEF Bound
<1>4. Named(t, r) /\ r.type = t.type /\ t.size \in Nat /\ r.size \in Nat
  BY <1>2, <1>3 DEF Bound, Named
<1>5. t.size <= r.size
  <2>1. t.var => t.size = 1 /\ r.size = 32
    BY <1>4 DEF Named, Slots
  <2>2. ~ t.var => t.size = r.size
    BY <1>4 DEF Named
  <2> QED BY <1>4, <2>1, <2>2
<1>6. \A i \in fields : Word(t, s, i) = FieldWord(segs, t, i)
  BY <1>2 DEF Word, FieldWord
<1>7. named = {FieldWord(segs, t, i) : i \in fields}
  BY <1>6
<1> HIDE DEF s, r, named
<1>8. ~ \E i \in fields : i >= r.size
  BY <1>4, <1>5
<1> QED
  BY <1>1, <1>3, <1>4, <1>7, <1>8 DEF NullOrNode

\* assign writes the words of its token, and no others.
LEMMA AssignValues ==
    ASSUME IInv, MapInv, Divided(segs, holes), ValueInv, GC_ENABLE, NEW k \in DOMAIN handles,
           NEW fields \in SUBSET Nat, NEW value \in {0, 1},
           \A i \in fields : i < handles[k].size,
           assign(handles[k], fields, fields, value)
    PROVE  ValueInv' /\ status' = status
<1> DEFINE t == handles[k]
           words == {FieldWord(segs, t, i) : i \in fields}
<1>1. /\ Running /\ (value = 1 => ones = {})
      /\ ones' = IF value = 1 THEN ones \cup words ELSE ones \ words
      /\ written' = Meant(t, fields, value)
      /\ UNCHANGED <<status, segs, handles>>
  BY AssignFields
<1>2. \A j \in DOMAIN handles : Bound(segs, handles[j])
  BY <1>1, TokenBound
<1>3. Remembers(segs, handles, written, ones)
  BY <1>1 DEF ValueInv
<1>4. written \in [tok : Nat, var : BOOLEAN, fields : SUBSET Nat]
  BY DEF IInv, StateType
<1>5. Remembers(segs, handles, written', ones')
  <2>1. CASE value = 1
    <3>1. written' = [tok |-> t.tok, var |-> t.var, fields |-> fields] /\ words \subseteq ones'
      BY <1>1, <2>1 DEF Meant
    <3>2. Same(t, written') /\ written'.fields = fields
      BY <3>1 DEF Same
    <3>3. ASSUME NEW j \in DOMAIN handles, NEW i \in fields, Same(handles[j], written')
          PROVE  i < handles[j].size /\ FieldWord(segs, handles[j], i) \in ones'
      <4>1. Same(handles[j], t)
        BY <3>2, <3>3 DEF Same
      <4>2. handles[j].size = t.size /\ FieldWord(segs, handles[j], i) = FieldWord(segs, t, i)
        BY <1>2, <4>1, Twins
      <4> QED BY <3>1, <4>2
    <3> QED BY <3>2, <3>3 DEF Remembers
  <2>2. CASE value = 0
    <3>1. /\ ones' = ones \ words
          /\ written' = IF Same(t, written) THEN [written EXCEPT !.fields = @ \ fields] ELSE written
      BY <1>1, <2>2 DEF Meant, Same
    <3>2. /\ written'.tok = written.tok /\ written'.var = written.var
          /\ written'.fields = IF Same(t, written) THEN written.fields \ fields ELSE written.fields
      BY <1>4, <3>1
    <3>3. ASSUME NEW j \in DOMAIN handles, NEW i \in written'.fields, Same(handles[j], written')
          PROVE  i < handles[j].size /\ FieldWord(segs, handles[j], i) \in ones'
      <4> DEFINE u == handles[j]
      <4>1. Same(u, written) /\ i \in written.fields /\ i \in Nat /\ (Same(t, written) => i \notin fields)
        BY <1>4, <3>2, <3>3 DEF Same
      <4>2. i < u.size /\ FieldWord(segs, u, i) \in ones
        BY <1>3, <4>1 DEF Remembers
      <4>3. FieldWord(segs, u, i) \notin words
        <5> SUFFICES ASSUME NEW f \in fields, FieldWord(segs, u, i) = FieldWord(segs, t, f) PROVE FALSE
          OBVIOUS
        <5>1. Bound(segs, u) /\ Bound(segs, t) /\ Apart(segs.node) /\ f \in Nat /\ f < t.size
          BY <1>2 DEF Divided
        <5> HIDE DEF u, t
        <5>2. Same(u, t) /\ i = f
          BY <4>1, <4>2, <5>1, Distinct
        <5>3. Same(t, written)
          BY <4>1, <5>2 DEF Same
        <5> QED BY <4>1, <5>2, <5>3
      <4> QED BY <3>1, <4>2, <4>3
    <3>4. written'.fields # {} => \E j \in DOMAIN handles : Same(handles[j], written')
      BY <1>3, <3>2 DEF Remembers, Same
    <3> QED BY <3>3, <3>4 DEF Remembers
  <2> QED BY <2>1, <2>2
<1> QED
  BY <1>1, <1>5 DEF ValueInv

\* The client's three ways to assign.
LEMMA AssignmentValues ==
    ASSUME IInv, MapInv, Divided(segs, holes), ValueInv, GC_ENABLE, NEW k \in DOMAIN handles,
           NEW value \in {0, 1},
           \/ assign_var(handles[k], value)
           \/ assign_arr(handles[k], value)
           \/ assign_arr_at(handles[k], value, handles[k].size - 1)
    PROVE  ValueInv' /\ status' = status
<1> DEFINE t == handles[k]
           n == t.size
<1>1. n \in Nat /\ n > 0
  <2>1. t \in HandleRecord /\ n > 0
    BY Types0 DEF IInv, StateType
  <2> QED BY <2>1 DEF HandleRecord
<1>2. CASE assign_var(t, value)
  <2>1. assign(t, {0}, {0}, value)
    BY <1>2 DEF assign_var
  <2>2. {0} \in SUBSET Nat /\ \A i \in {0} : i < n
    BY <1>1
  <2> QED BY <2>1, <2>2, AssignValues
<1>3. CASE assign_arr(t, value)
  <2> DEFINE fields == 0 .. n - 1
             m == segs.node[Lookup(t)].size
  <2>1. Running /\ ~ t.var /\ assign(t, 0 .. m - 1, fields, value)
    BY <1>3 DEF assign_arr, assign
  <2>2. m = n
    <3>1. Lookup(t) = t.seg /\ Bound(segs, t)
      BY <2>1, TokenFound, TokenBound
    <3> QED BY <2>1, <3>1 DEF Bound, Named
  <2>3. fields \in SUBSET Nat /\ \A i \in fields : i < n
    BY <1>1
  <2>4. assign(t, fields, fields, value)
    BY <2>1, <2>2
  <2> HIDE DEF fields, m
  <2> QED BY <2>3, <2>4, AssignValues
<1>4. CASE assign_arr_at(t, value, n - 1)
  <2> DEFINE fields == {n - 1}
  <2>1. fields \in SUBSET Nat /\ \A i \in fields : i < n
    BY <1>1
  <2>2. assign(t, fields, fields, value)
    BY <1>4 DEF assign_arr_at
  <2> HIDE DEF fields
  <2> QED BY <2>1, <2>2, AssignValues
<1> QED
  BY <1>2, <1>3, <1>4

\* With the collector no assignment is refused.
UseInv == GC_ENABLE => AssignsSucceed

\* Every step keeps what was written.
LEMMA NextValues ==
    ASSUME IInv, IInv', MapInv, MapInv', Divided(segs, holes), ValueInv, [Next]_vars,
           Running' => \A type \in Types : create_var(type) => SlabOnly(type)
    PROVE  ValueInv'
<1> SUFFICES ASSUME Running', GC_ENABLE' PROVE ValueInv'
  BY DEF ValueInv, Remembers
<1>1. CASE UNCHANGED vars
  BY <1>1 DEF vars, memory, ValueInv, Remembers, Running, FieldWord
<1>2. CASE push_rbp
  <2>1. /\ Running /\ UNCHANGED <<GC_ENABLE, segs, handles, written, ones>>
        /\ written.fields # {} => \E k \in DOMAIN handles' : Same(handles'[k], written)
    BY <1>2 DEF push_rbp, memory, ValueInv, Remembers
  <2>2. Steady({})
    BY <2>1, StillKeeps DEF MapInv, Orderly
  <2> QED BY <2>1, <2>2, FewerValues
<1>3. CASE gc_pop_frame
  BY <1>3, PopFrameValues
<1>4. CASE gc_run
  BY <1>4, GcRunValues
<1>5. ASSUME NEW type \in Types, create_var(type) PROVE ValueInv'
  BY <1>5, CreateVarMaps, CreateValues
<1>6. ASSUME NEW type \in Types, NEW size \in ArraySizes, create_arr(type, size) PROVE ValueInv'
  BY <1>6, CreateArrMaps, CreateValues
<1>7. ASSUME NEW i \in DOMAIN handles, NEW value \in {0, 1},
             \/ assign_var(handles[i], value)
             \/ assign_arr(handles[i], value)
             \/ assign_arr_at(handles[i], value, handles[i].size - 1)
      PROVE  ValueInv'
  <2>1. GC_ENABLE
    BY <1>7 DEF assign_var, assign_arr, assign_arr_at, assign, Astray, Exit
  <2> QED BY <1>7, <2>1, AssignmentValues
<1>8. ASSUME NEW i \in DOMAIN handles, free_elem(i) PROVE ValueInv'
  BY <1>8, FreeElemValues
<1> QED
  BY <1>1, <1>2, <1>3, <1>4, <1>5, <1>6, <1>7, <1>8 DEF Next

\* No step makes an assignment fail.
LEMMA NextUse ==
    ASSUME IInv, MapInv, Divided(segs, holes), ValueInv, UseInv, [Next]_vars
    PROVE  UseInv'
<1> DEFINE Others == GC_ENABLE' = GC_ENABLE /\ status' \in {status, "no_memory", "locked"}
<1>1. CASE \/ UNCHANGED vars \/ push_rbp \/ gc_pop_frame \/ gc_run
           \/ \E type \in Types, size \in ArraySizes : create_arr(type, size)
           \/ \E type \in Types : create_var(type)
           \/ \E i \in DOMAIN handles : free_elem(i)
  <2>1. UNCHANGED vars \/ push_rbp \/ gc_pop_frame \/ gc_run => Others
    BY DEF vars, push_rbp, gc_pop_frame, gc_run
  <2>2. ASSUME NEW size, NEW type, NEW var, NEW bitmap, NEW tok, NewSegment(size, type, var, bitmap, tok)
        PROVE  Others
    BY <2>2 DEF NewSegment, Exit, Astray
  <2>3. ASSUME NEW type \in Types, create_var(type) PROVE Others
    BY <2>2, <2>3 DEF create_var, UseSlab, Astray
  <2>4. ASSUME NEW type \in Types, NEW size \in ArraySizes, create_arr(type, size) PROVE Others
    BY <2>2, <2>4 DEF create_arr
  <2>5. ASSUME NEW i \in DOMAIN handles, free_elem(i) PROVE Others
    BY <2>5 DEF free_elem, Exit, Astray
  <2>6. Others
    BY <1>1, <2>1, <2>3, <2>4, <2>5
  <2> QED BY <2>6 DEF UseInv, AssignsSucceed
<1>2. ASSUME NEW i \in DOMAIN handles, NEW value \in {0, 1},
             \/ assign_var(handles[i], value)
             \/ assign_arr(handles[i], value)
             \/ assign_arr_at(handles[i], value, handles[i].size - 1)
      PROVE  UseInv'
  <2>1. GC_ENABLE' = GC_ENABLE
    BY <1>2 DEF assign_var, assign_arr, assign_arr_at, assign, Astray, Exit
  <2>2. GC_ENABLE => status' = status
    BY <1>2, AssignmentValues
  <2> QED BY <2>1, <2>2 DEF UseInv, AssignsSucceed
<1> QED
  BY <1>1, <1>2 DEF Next

\* A turn of the collector frees what it should.
LEMMA MapCollects ==
    ASSUME IInv, MapInv
    PROVE  RoundCollects
<1> SUFFICES ASSUME Running, GC_ENABLE PROVE RoundCollects
  BY DEF RoundCollects
<1> DEFINE m == gc_sweep([segs |-> gc_mark(segs), holes |-> holes])
<1>1. /\ m.segs.ok
      /\ DOMAIN m.segs.node = {s \in DOMAIN segs.node : s \in Held \/ segs.node[s].mark}
      /\ \A s \in DOMAIN m.segs.node : ~ m.segs.node[s].mark
  BY RoundLinks DEF MapInv, LinkInv
<1>2. \A k \in DOMAIN handles : ~ handles[k].var => ~ segs.node[handles[k].seg].mark
  BY DEF MapInv, NameInv
<1> HIDE DEF m
<1> QED
  BY <1>1, <1>2 DEF RoundCollects, Held, m

\* The client reads what it has assigned.
LEMMA ReadsBack ==
    ASSUME Types \subseteq {0}, IInv, MapInv, ValueInv, UseInv, GC_ENABLE
    PROVE  ValuesKept
<1>1. AssignsSucceed
  BY DEF UseInv
<1>2. ASSUME Running, NEW k \in DOMAIN handles, NEW i \in written.fields,
             handles[k].tok = written.tok, handles[k].var = written.var
      PROVE  getval(handles[k], i) = {1}
  <2> DEFINE t == handles[k]
             s == Lookup(t)
  <2>1. s = t.seg /\ Bound(segs, t)
    BY <1>2, TokenFound, TokenBound
  <2>2. i < t.size /\ FieldWord(segs, t, i) \in ones
    BY <1>2 DEF ValueInv, Remembers, Same
  <2>3. t.type = 0
    <3>1. t \in HandleRecord
      BY Types0
    <3> QED BY <3>1 DEF HandleRecord
  <2>4. s \in DOMAIN segs.node /\ segs.node[s].type = 0 /\ i \in Nat /\ segs.node[s].size \in Nat
    BY <2>1, <2>3 DEF Bound, Named, IInv, StateType
  <2>5. CASE t.var
    <3>1. Word(t, s, 0) = FieldWord(segs, t, i)
      BY <2>1, <2>5 DEF Word, FieldWord
    <3> QED BY <2>2, <2>4, <2>5, <3>1 DEF getval
  <2>6. CASE ~ t.var
    <3>1. Word(t, s, i) = FieldWord(segs, t, i) /\ t.size = segs.node[s].size
      BY <2>1, <2>6 DEF Word, FieldWord, Bound, Named
    <3>2. ~ (i >= segs.node[s].size)
      BY <2>2, <2>4, <3>1
    <3> HIDE DEF s, t
    <3>3. getval(t, i) = IF Word(t, s, i) \in ones THEN {1} ELSE {0}
      BY <2>4, <2>6, <3>2 DEF getval, s
    <3> QED BY <2>2, <3>1, <3>3 DEF t
  <2> QED BY <2>5, <2>6
<1> QED
  BY <1>1, <1>2 DEF ValuesKept

\* Nothing has been written at the start.
LEMMA InitValues ==
    ASSUME Init
    PROVE  ValueInv /\ UseInv
<1>1. status = "running" /\ written.fields = {}
  BY DEF Init, Nothing
<1> QED
  BY <1>1 DEF ValueInv, Remembers, UseInv, AssignsSucceed

\* Everything together.
ReadInv == IInv /\ Divided(segs, holes) /\ MapInv /\ ValueInv /\ UseInv

\* Every step keeps all of it.
LEMMA NextReads ==
    ASSUME ReadInv, [Next]_vars, Running' => \A type \in Types : create_var(type) => SlabOnly(type)
    PROVE  ReadInv'
<1>1. IInv' /\ Divided(segs, holes)'
  BY NextKeeps, NextDivides DEF ReadInv
<1>2. MapInv'
  BY <1>1, NextMaps DEF ReadInv
<1>3. ValueInv'
  BY <1>1, <1>2, NextValues DEF ReadInv
<1>4. UseInv'
  BY NextUse DEF ReadInv
<1> QED
  BY <1>1, <1>2, <1>3, <1>4 DEF ReadInv

\* All of it holds while the list has at most one variable segment.
LEMMA ReadInvariance == Spec /\ []OneSlab => []ReadInv
<1>1. Init => ReadInv
  BY InitInv, InitDivides, InitMaps, InitValues DEF ReadInv
<1>2. ReadInv /\ [Next]_vars /\ OneSlab' => ReadInv'
  BY OneSlabOnly, NextReads DEF ReadInv
<1> QED
  BY <1>1, <1>2, PTL DEF Spec

\* And always, when the client uses one type.
LEMMA OneKindReads ==
    ASSUME OneKind
    PROVE  Spec => []ReadInv
<1>1. Init => ReadInv
  BY InitInv, InitDivides, InitMaps, InitValues DEF ReadInv
<1>2. ReadInv /\ [Next]_vars => ReadInv'
  <2> SUFFICES ASSUME ReadInv, [Next]_vars PROVE ReadInv'
    OBVIOUS
  <2>1. \A type \in Types : create_var(type) => SlabOnly(type)
    BY OneKindOnly DEF ReadInv, create_var
  <2> QED BY <2>1, NextReads
<1> QED
  BY <1>1, <1>2, PTL DEF Spec

\* While the list has one variable segment at most, and a second one is not
\* linked (mmu.cpp:47), a round collects exactly what it should (gc_run), and
\* no assignment is refused (assign_var, assign_arr).
THEOREM OneSlabCollects == Spec /\ []OneSlab => [](RoundCollects /\ (GC_ENABLE => AssignsSucceed))
<1>1. ReadInv => RoundCollects /\ (GC_ENABLE => AssignsSucceed)
  BY MapCollects DEF ReadInv, UseInv
<1> QED
  BY <1>1, ReadInvariance, PTL

\* That is so when the client uses one type, and malloc leaves no bitmap that
\* looks full: create_var then finds the variable segment (mmu.cpp:453).
THEOREM RoundsCollect ==
    ASSUME OneKind
    PROVE  Spec => []RoundCollects
<1>1. ReadInv => RoundCollects
  BY MapCollects DEF ReadInv
<1> QED
  BY <1>1, OneKindReads, PTL

\* And then, with the collector, what the client assigns to ints and arrays of
\* int it reads again (getval, assign_var, assign_arr).
THEOREM IntsKept ==
    ASSUME OneKind, Types \subseteq {0}
    PROVE  Spec => [](GC_ENABLE => ValuesKept)
<1>1. ReadInv => (GC_ENABLE => ValuesKept)
  BY ReadsBack DEF ReadInv
<1> QED
  BY <1>1, OneKindReads, PTL
=============================================================================
