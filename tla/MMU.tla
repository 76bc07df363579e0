-------------------------------- MODULE MMU --------------------------------
(***************************************************************************)
(* a5-memory-management-unit/mmu.cpp: a library that hands out variables   *)
(* and arrays from one block of memory, and a garbage collector thread     *)
(* that frees what no open frame of the program holds.                     *)
(*                                                                         *)
(* Every operation of the library, and every round of the collector, is    *)
(* one critical section of book_lock, hence one action.  The client is a   *)
(* program that pops the frames it has pushed and names a variable or an   *)
(* array only while the frame that created it is open, as demo1.cpp does.  *)
(*                                                                         *)
(* Of the memory, the model knows which words hold the value 1; all others *)
(* hold 0, or whatever has been left in them.  The code treats all values  *)
(* alike, so it is enough that the client writes 1 only while no word      *)
(* holds it: what is written elsewhere meanwhile differs from it.          *)
(*                                                                         *)
(* Left out: the log counters, and gc_compact, which nothing calls.        *)
(***************************************************************************)
EXTENDS HoleList

CONSTANTS Modes,        \* what GC_ENABLE may be
          Types,        \* the var_types the client uses, of 0 .. 3
          ArraySizes,   \* and the sizes of its arrays
          Words,        \* the words of the block create_mem is asked for
          Garbage,      \* what malloc may leave in newseg->bitmap
          MaxCounter,   \* bound of seg_counter
          MaxFrames,    \* bound of the client's open frames
          MaxHandles    \* bound of the tokens it holds

Slots == 32             \* the variables of a segment

ASSUME MMUAssumption ==
    /\ Modes \subseteq BOOLEAN /\ Modes # {}
    /\ Types \subseteq 0 .. 3
    /\ ArraySizes \subseteq Nat \ {0}
    /\ Words \in Nat \ {0}
    /\ Garbage \subseteq SUBSET (0 .. Slots - 1)
    /\ MaxCounter \in Nat /\ MaxFrames \in Nat /\ MaxHandles \in Nat

VARIABLES
    GC_ENABLE,
    status,        \* "running", "no_memory", "bad_access" or "locked"
    segs,          \* segment_list_t: node, var_head, var_tail, arr_head, arr_tail, ok
    holes,         \* free_list_t
    seg_counter,
    stack,         \* the nodes of gc_stack from the sentinel to top
    rbp,           \* gc_stack->rbp: its place in stack
    ones,          \* the words of the memory that hold 1
    handles,       \* the tokens the client holds, in the order it got them
    written        \* the fields it has set to 1, of which token: what it expects to read

gc == <<stack, rbp>>
memory == <<ones, written>>
vars == <<GC_ENABLE, status, segs, holes, seg_counter, gc, handles, memory>>

\* A node of gc_stack: ref is the segment, or in a frame node the rbp it saves.
FrameNode(r) == [frame |-> TRUE, ref |-> r]
SegNode(n) == [frame |-> FALSE, ref |-> n]

Nothing == [tok |-> 0, var |-> FALSE, fields |-> {}]

\* create_mem, with the frame it pushes above the sentinel, whose seg is itself.
Init ==
    /\ GC_ENABLE \in Modes
    /\ status = "running"
    /\ segs = [node |-> <<>>, var_head |-> Null, var_tail |-> Null,
               arr_head |-> Null, arr_tail |-> Null, ok |-> TRUE]
    /\ holes = OneHole(Words)
    /\ seg_counter = 0
    /\ stack = IF GC_ENABLE THEN <<FrameNode(1), FrameNode(1)>> ELSE <<>>
    /\ rbp = IF GC_ENABLE THEN 2 ELSE 0
    /\ handles = <<>>
    /\ ones = {} /\ written = Nothing

\* The process has neither exited, nor kept book_lock, nor left defined behaviour.
Running == status = "running" /\ segs.ok /\ holes.ok

-----------------------------------------------------------------------------
(* The list of segments: the variable segments and, behind them, the arrays. *)

get_segment_head(sl) == IF sl.var_head = Null THEN sl.arr_head ELSE sl.var_head

insert_variable(sl, n, new) ==
    LET t == sl.var_tail
    IN  IF sl.var_head = Null /\ t = Null
        THEN [sl EXCEPT !.node = With(SetPrev(@, sl.arr_head, n), n, [new EXCEPT !.next = sl.arr_head]),
                        !.var_head = n, !.var_tail = n,
                        !.ok = NullOrNode(sl.node, sl.arr_head)]
        ELSE IF t \notin DOMAIN sl.node THEN [sl EXCEPT !.ok = FALSE]
        ELSE [sl EXCEPT !.node = With(SetPrev(@, sl.node[t].next, n), n,
                                      [new EXCEPT !.next = sl.node[t].next, !.prev = t]),
                        !.var_tail = n,
                        !.ok = NullOrNode(sl.node, sl.node[t].next)]

insert_array(sl, n, new) ==
    LET t == IF sl.arr_head = Null THEN sl.var_tail ELSE sl.arr_tail
    IN  [sl EXCEPT !.node = With(SetNext(@, t, n), n, [new EXCEPT !.prev = t]),
                   !.arr_head = IF @ = Null THEN n ELSE @,
                   !.arr_tail = n,
                   !.ok = t \in DOMAIN sl.node \/ (t = Null /\ sl.arr_head = Null)]

insert_after_segment(sl, n, new) ==
    IF new.var THEN insert_variable(sl, n, new) ELSE insert_array(sl, n, new)

\* free_segment, its first half: s leaves the list.
unlink(sl, s) ==
    LET n == sl.node[s]
    IN  [node |-> Without(SetNext(SetPrev(sl.node, n.next, n.prev), n.prev, n.next), s),
         var_head |-> IF sl.var_head = s THEN n.next ELSE sl.var_head,
         var_tail |-> IF sl.var_tail = s THEN n.prev ELSE sl.var_tail,
         arr_head |-> IF sl.arr_head = s THEN n.next ELSE sl.arr_head,
         arr_tail |-> IF sl.arr_tail = s THEN n.prev ELSE sl.arr_tail,
         ok |-> sl.ok /\ NullOrNode(sl.node, n.next) /\ NullOrNode(sl.node, n.prev)]

free_segment(m, s) ==
    [segs  |-> unlink(m.segs, s),
     holes |-> InsertHole(m.holes, m.segs.node[s].base, m.segs.node[s].size)]

Span(r) == r.base .. r.base + r.size - 1

\* The client expects nothing of tokens it no longer holds, and nobody reads
\* a word that has not been written since it was handed out: so what is left in
\* the words of freed segments, or of tokens given up, is of no interest.
GiveUp(held, words) ==
    IF \E k \in DOMAIN held : held[k].tok = written.tok /\ held[k].var = written.var
    THEN written' = written /\ ones' = words
    ELSE written' = Nothing /\ ones' = {}

Kept(sl) == {w \in ones : \E s \in DOMAIN sl.node : w \in Span(sl.node[s])}

\* And of the others it expects what it has assigned last.
Meant(t, fields, value) ==
    IF value = 1 THEN [tok |-> t.tok, var |-> t.var, fields |-> fields]
    ELSE IF t.tok = written.tok /\ t.var = written.var
    THEN [written EXCEPT !.fields = @ \ fields]
    ELSE written

-----------------------------------------------------------------------------
(* The stack of the collector.                                             *)

\* The tokens the client got before the frame at place r of the stack was opened.
HandlesBelow(r) ==
    SubSeq(handles, 1, Min({k \in 1 .. Len(handles) + 1 :
                               k \in DOMAIN handles => handles[k].frame >= r}) - 1)

push_rbp ==
    /\ Running /\ GC_ENABLE
    /\ Cardinality({i \in DOMAIN stack : stack[i].frame}) <= MaxFrames
    /\ stack' = Append(stack, FrameNode(rbp))
    /\ rbp' = Len(stack) + 1
    /\ UNCHANGED <<GC_ENABLE, status, segs, holes, seg_counter, handles, memory>>

\* Mutant of gc_pop_frame: the segments keep their bit "is on the stack".
gc_pop_frameKeepsBit ==
    /\ Running /\ GC_ENABLE
    /\ rbp > 1
    /\ rbp' = stack[rbp].ref
    /\ stack' = SubSeq(stack, 1, rbp - 1)
    /\ handles' = HandlesBelow(rbp)
    /\ GiveUp(handles', ones)
    /\ UNCHANGED <<GC_ENABLE, status, segs, holes, seg_counter>>

\* The client leaves its innermost frame, which is not the sentinel.
gc_pop_frame ==
    /\ Running /\ GC_ENABLE
    /\ rbp > 1
    /\ LET popped  == {stack[i].ref : i \in rbp + 1 .. Len(stack)}
           flipped == [x \in DOMAIN segs.node |->
                           IF x \in popped THEN [segs.node[x] EXCEPT !.onStack = ~ @]
                                           ELSE segs.node[x]]
       IN  segs' = IF popped \subseteq DOMAIN segs.node
                   THEN [segs EXCEPT !.node = flipped] ELSE [segs EXCEPT !.ok = FALSE]
    /\ rbp' = stack[rbp].ref
    /\ stack' = SubSeq(stack, 1, rbp - 1)
    /\ handles' = HandlesBelow(rbp)
    /\ GiveUp(handles', ones)
    /\ UNCHANGED <<GC_ENABLE, status, holes, seg_counter>>

\* A segment is pushed unless it is on the stack already.
gc_push(sl, n) ==
    IF GC_ENABLE /\ ~ sl.node[n].onStack
    THEN /\ segs' = [sl EXCEPT !.node[n].onStack = TRUE]
         /\ stack' = Append(stack, SegNode(n))
         /\ rbp' = rbp
    ELSE segs' = sl /\ UNCHANGED gc

\* Mutant of gc_mark: only the innermost frame is marked.
gc_markTopFrame(sl) ==
    LET held == {stack[i].ref : i \in rbp + 1 .. Len(stack)}
    IN  [sl EXCEPT !.node = [x \in DOMAIN @ |->
             IF x \in held THEN [@[x] EXCEPT !.mark = TRUE] ELSE @[x]]]

\* Every segment on the stack is marked, in all frames: the chain of saved
\* rbps tells the frame nodes from the others.
gc_mark(sl) ==
    LET Saved  == Iterates([i \in DOMAIN stack |-> stack[i].ref], rbp, Len(stack))
        frames == {Saved[k] : k \in DOMAIN Saved}
        held   == {stack[i].ref : i \in DOMAIN stack \ frames}
        marked == [x \in DOMAIN sl.node |->
                      IF x \in held THEN [sl.node[x] EXCEPT !.mark = TRUE] ELSE sl.node[x]]
    IN  IF held \subseteq DOMAIN sl.node
        THEN [sl EXCEPT !.node = marked] ELSE [sl EXCEPT !.ok = FALSE]

\* Mutant of sweep_one: a live segment keeps its mark.
sweep_oneKeepsMark(m, s) == IF m.segs.node[s].mark THEN m ELSE free_segment(m, s)

sweep_one(m, s) ==
    IF m.segs.node[s].mark
    THEN [m EXCEPT !.segs.node[s].mark = FALSE]
    ELSE free_segment(m, s)

\* What is left after the first k segments of c.
Swept(m, c) ==
    LET After[k \in 0 .. Len(c)] == IF k = 0 THEN m ELSE sweep_one(After[k - 1], c[k])
    IN  After

\* The segments found from the head, in their order.
gc_sweep(m) ==
    LET head == get_segment_head(m.segs)
        c    == Chain(head, m.segs.node)
    IN  IF Ends(head, m.segs.node)
        THEN Swept(m, c)[Len(c)]
        ELSE [m EXCEPT !.segs.ok = FALSE]

\* A turn of gc_thread_handler.
gc_run ==
    /\ Running /\ GC_ENABLE
    /\ LET m == gc_sweep([segs |-> gc_mark(segs), holes |-> holes])
       IN  segs' = m.segs /\ holes' = m.holes /\ ones' = Kept(m.segs)
    /\ UNCHANGED <<GC_ENABLE, status, seg_counter, gc, handles, written>>

-----------------------------------------------------------------------------
(* The operations of the client.                                           *)

Handle(tok, var, type, n, size) ==
    [tok |-> tok, var |-> var, type |-> type, seg |-> n, frame |-> rbp, size |-> size]

Got(h) == Len(handles) < MaxHandles /\ handles' = Append(handles, h)

\* slab_full_indicator, bits 0 to 15
SlabFull == 0 .. 15

\* The loop of create_var compares bitmap & 1<<i with 1: it can only pass i = 0.
FreeSlot(bitmap) == IF 0 \in bitmap THEN 1 ELSE 0

\* The first variable segment of the type that does not look full.
FindSlab(type) ==
    Find(segs.var_head, segs.node,
         {s \in DOMAIN segs.node : s = segs.arr_head
                                     \/ (segs.node[s].type = type /\ segs.node[s].bitmap # SlabFull)})

Found(s) == s \in DOMAIN segs.node /\ s # segs.arr_head

\* exit(EXIT_FAILURE) before anything is changed, and a walk that goes astray.
Exit(why) ==
    /\ status' = why
    /\ UNCHANGED <<GC_ENABLE, segs, holes, seg_counter, gc, handles, memory>>

Astray ==
    /\ segs' = [segs EXCEPT !.ok = FALSE]
    /\ UNCHANGED <<GC_ENABLE, status, holes, seg_counter, gc, handles, memory>>

UseSlab(s, type) ==
    LET i == FreeSlot(segs.node[s].bitmap)
    IN  /\ gc_push([segs EXCEPT !.node[s].bitmap = @ \cup {i}], s)
        /\ Got(Handle(Slots * s + i, TRUE, type, s, 1))
        /\ UNCHANGED <<GC_ENABLE, status, holes, seg_counter, memory>>

\* A new segment of the given size takes the front of the first hole it fits in.
NewSegment(size, type, var, bitmap, tok) ==
    LET h   == FirstFit(holes, size)
        n   == seg_counter
        new == [prev |-> Null, next |-> Null, base |-> holes.node[h].base, size |-> size,
                var |-> var, type |-> type, bitmap |-> bitmap, mark |-> FALSE, onStack |-> FALSE]
        sl  == insert_after_segment(segs, n, new)
    IN  IF h = Null THEN Exit("no_memory")
        ELSE IF h \notin DOMAIN holes.node \/ ~ sl.ok THEN Astray
        ELSE /\ gc_push(sl, n)
             /\ holes' = Carve(holes, h, size)
             /\ seg_counter' = seg_counter + size
             /\ Got(Handle(tok, var, type, n, IF var THEN 1 ELSE size))
             /\ UNCHANGED <<GC_ENABLE, status, memory>>

create_var(type) ==
    /\ Running
    /\ seg_counter + Slots <= MaxCounter
    /\ LET s == FindSlab(type)
       IN  IF ~ NullOrNode(segs.node, s) THEN Astray
           ELSE IF Found(s) THEN UseSlab(s, type)
           ELSE \E g \in Garbage :
                    NewSegment(Slots, type, TRUE, {0} \cup g, Slots * seg_counter)

create_arr(type, size) ==
    /\ Running
    /\ seg_counter + size <= MaxCounter
    /\ NewSegment(size, type, FALSE, {}, seg_counter)

\* The segment assign_var and getval take a variable to be in,
\* and the one assign_arr and getval take an array to be.
LookupVar(tok) ==
    Find(get_segment_head(segs), segs.node,
         {s \in DOMAIN segs.node : tok \in Slots * s .. Slots * s + 31})

LookupArr(tok) == Find(segs.arr_head, segs.node, {tok})

Lookup(t) == IF t.var THEN LookupVar(t.tok) ELSE LookupArr(t.tok)

\* Mutant of Word: a variable is taken to be the first of its segment.
WordFirst(t, s, index) == segs.node[s].base + (IF t.var THEN 0 ELSE index)

\* The word of the memory that is the index-th field of what t names.
Word(t, s, index) == segs.node[s].base + (IF t.var THEN t.tok - Slots * s ELSE index)

\* The common body: the fields are written, and the client meant to write meant.
assign(t, fields, meant, value) ==
    /\ Running
    /\ value = 1 => ones = {}
    /\ LET s == Lookup(t)
       IN  IF ~ NullOrNode(segs.node, s) THEN Astray
           ELSE IF s = Null THEN Exit("bad_access")
           ELSE IF segs.node[s].type # t.type THEN Exit("bad_access")
           ELSE IF \E i \in fields : i >= segs.node[s].size THEN Exit("bad_access")
           ELSE LET words == {Word(t, s, i) : i \in fields}
                IN  /\ ones' = IF value = 1 THEN ones \cup words ELSE ones \ words
                    /\ written' = Meant(t, meant, value)
                    /\ UNCHANGED <<GC_ENABLE, status, segs, holes, seg_counter, gc, handles>>

assign_var(t, value) == t.var /\ assign(t, {0}, {0}, value)

\* The two overloads of assign_arr: all fields, or one.
assign_arr(t, value) ==
    ~ t.var /\ assign(t, 0 .. segs.node[Lookup(t)].size - 1, 0 .. t.size - 1, value)

assign_arr_at(t, value, index) == ~ t.var /\ assign(t, {index}, {index}, value)

\* The values the two getvals may return; none if they exit.  An array is read
\* as words of four bytes, of which assign_arr writes those of its type only.
getval(t, index) ==
    LET s == Lookup(t)
    IN  IF s \notin DOMAIN segs.node THEN {}
        ELSE IF t.var THEN {IF Word(t, s, 0) \in ones THEN 1 ELSE 0}
        ELSE IF index >= segs.node[s].size THEN {}
        ELSE IF segs.node[s].type # 0 THEN {0, 1}
        ELSE {IF Word(t, s, index) \in ones THEN 1 ELSE 0}

\* The segment free_elem takes a token to name.
LookupElem(tok) ==
    Find(get_segment_head(segs), segs.node,
         {s \in DOMAIN segs.node : IF segs.node[s].var
                                     THEN Slots * s <= tok /\ tok < Slots * (s + 1)
                                     ELSE s = tok})

\* What free_elem does with a segment it finds empty: with the collector it
\* sets the bit by which a sweep knows the live segments.
Release(sl, s) ==
    IF GC_ENABLE
    THEN segs' = [sl EXCEPT !.node[s].mark = TRUE] /\ UNCHANGED holes
    ELSE LET m == free_segment([segs |-> sl, holes |-> holes], s)
         IN  segs' = m.segs /\ holes' = m.holes

\* free_elem of the i-th token the client holds.  The offset is
\* (var - seg_num) << 5, a multiple of 32: the shift 1<<offset is undefined
\* unless it is 0, and an x86 shift takes the offset modulo 32, which is 0.
free_elem(i) ==
    /\ Running
    /\ LET s == LookupElem(handles[i].tok)
       IN  IF ~ NullOrNode(segs.node, s) THEN Astray
           ELSE IF s = Null THEN Exit("locked")   \* returns without unlocking
           ELSE /\ IF ~ segs.node[s].var THEN Release(segs, s)
                   ELSE LET b  == SymDiff(segs.node[s].bitmap, {0})
                            sl == [segs EXCEPT !.node[s].bitmap = b]
                        IN  IF b = {} THEN Release(sl, s)
                            ELSE segs' = sl /\ UNCHANGED holes
                /\ handles' = RemoveAt(handles, i)
                /\ GiveUp(handles', Kept(segs'))
                /\ UNCHANGED <<GC_ENABLE, status, seg_counter, gc>>

Next ==
    \/ push_rbp
    \/ gc_pop_frame
    \/ gc_run
    \/ \E type \in Types : create_var(type)
    \/ \E type \in Types, size \in ArraySizes : create_arr(type, size)
    \/ \E i \in DOMAIN handles :
           \/ \E value \in {0, 1} :
                  \/ assign_var(handles[i], value)
                  \/ assign_arr(handles[i], value)
                  \/ assign_arr_at(handles[i], value, handles[i].size - 1)
           \/ free_elem(i)

Spec == Init /\ [][Next]_vars

-----------------------------------------------------------------------------
(* Properties.                                                             *)

SegNodes == {i \in DOMAIN stack : ~ stack[i].frame}
SegRecord == [prev : Int, next : Int, base : Nat, size : Nat, var : BOOLEAN, type : 0 .. 3,
              bitmap : SUBSET (0 .. Slots - 1), mark : BOOLEAN, onStack : BOOLEAN]
HandleRecord == [tok : Nat, var : BOOLEAN, type : Types, seg : Nat, frame : Nat, size : Nat]

\* The types of the state; the numbers of the segments are below the counter.
TypeOK ==
    /\ GC_ENABLE \in Modes
    /\ status \in {"running", "no_memory", "bad_access", "locked"}
    /\ seg_counter \in 0 .. MaxCounter
    /\ \A s \in DOMAIN segs.node : s \in 0 .. seg_counter - 1 /\ segs.node[s] \in SegRecord
    /\ {segs.var_head, segs.var_tail, segs.arr_head, segs.arr_tail} \subseteq Int
    /\ \A h \in DOMAIN holes.node :
           h \in Nat /\ holes.node[h] \in [prev : Int, next : Int, base : Nat, size : Nat]
    /\ {holes.head, holes.tail} \subseteq Int
    /\ rbp \in 0 .. Len(stack)
    /\ \A i \in DOMAIN stack : stack[i] \in [frame : BOOLEAN, ref : Nat]
    /\ \A k \in DOMAIN handles : handles[k] \in HandleRecord
    /\ ones \subseteq Nat
    /\ written.tok \in Nat /\ written.var \in BOOLEAN /\ written.fields \subseteq Nat

\* The collector's two records of what is on its stack agree: each segment
\* node of the stack is of a segment that is still allocated, no segment has
\* two nodes, and the bit in a segment's info says whether it has one.
\* gc_push decides by the bit; gc_pop_frame flips it, through the node.
StackExact ==
    Running =>
        /\ \A i \in SegNodes : stack[i].ref \in DOMAIN segs.node
        /\ \A i, j \in SegNodes : stack[i].ref = stack[j].ref => i = j
        /\ \A s \in DOMAIN segs.node :
               segs.node[s].onStack <=> \E i \in SegNodes : stack[i].ref = s

\* Types and the collector's records together.
StackInv == TypeOK /\ StackExact

\* Nothing a frame still holds is collected: the segment of every token that
\* was created in an open frame is allocated, and with the collector it has
\* its node in that frame or in one below it, whatever rounds the collector
\* made, and although variables of several frames share a segment.
ScopeKept ==
    Running =>
        \A k \in DOMAIN handles :
            LET t == handles[k]
            IN  /\ t.seg \in DOMAIN segs.node
                /\ GC_ENABLE => \E i \in SegNodes :
                       stack[i].ref = t.seg /\ (i < t.frame \/ \A j \in t.frame + 1 .. i : ~ stack[j].frame)

\* No word of the memory is given out twice: the allocated segments and the
\* holes a search finds are pairwise disjoint and lie within the memory.
NoOverlap ==
    Running =>
        LET found == Range(Chain(holes.head, holes.node))
        IN  /\ \A s, t \in DOMAIN segs.node :
                   s # t => Span(segs.node[s]) \cap Span(segs.node[t]) = {}
            /\ \A h \in found, s \in DOMAIN segs.node :
                   Span(holes.node[h]) \cap Span(segs.node[s]) = {}
            /\ \A h, k \in found : h # k => Span(holes.node[h]) \cap Span(holes.node[k]) = {}
            /\ \A h \in found : Span(holes.node[h]) \subseteq 0 .. Words - 1
            /\ \A s \in DOMAIN segs.node : Span(segs.node[s]) \subseteq 0 .. Words - 1

\* A token the client holds can be used: assigning through it with the type
\* it was created with is never refused.
AssignsSucceed == status # "bad_access"

\* What the client has assigned it reads again, through any token it holds, and
\* no assignment is refused: however segments and arrays are created, released
\* and collected meanwhile, in whatever holes, and whatever is written through
\* other tokens.  (The third variable of a type has the token of the second,
\* line 455: who holds that token twice has one variable.)
ValuesKept ==
    /\ AssignsSucceed
    /\ Running => \A k \in DOMAIN handles, i \in written.fields :
           handles[k].tok = written.tok /\ handles[k].var = written.var
               => getval(handles[k], i) = {1}

\* mmu.h:64 of segment: "token value; for variable segments, ith individual
\* variables' token = i + seg_num*32".  Hence no two variables or arrays of one
\* type have the same token.
TokensDistinct ==
    Running => \A j, k \in DOMAIN handles :
        j # k /\ handles[j].var = handles[k].var => handles[j].tok # handles[k].tok

\* mmu.h:55 of the free list: "linked list of all holes, will remain sorted
\* on hole.baseptr's by implementation".
HolesSorted == Running => SortedList(holes)

\* A round collects what it should: were it to run now, it would free every
\* segment that is on no frame and was not marked before, nothing else, and
\* leave no mark; and before it runs no array is marked but those that
\* free_elem has released.  Hence each segment a frame lets go of is freed by
\* the next round, or by the one after it when it was released by hand.
RoundCollects ==
    Running /\ GC_ENABLE =>
        LET m    == gc_sweep([segs |-> gc_mark(segs), holes |-> holes])
            held == {stack[i].ref : i \in SegNodes}
        IN  /\ m.segs.ok
            /\ DOMAIN m.segs.node = {s \in DOMAIN segs.node : s \in held \/ segs.node[s].mark}
            /\ \A s \in DOMAIN m.segs.node : ~ m.segs.node[s].mark
            /\ \A k \in DOMAIN handles :
                   ~ handles[k].var => ~ segs.node[handles[k].seg].mark
=============================================================================
