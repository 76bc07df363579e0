------------------------- MODULE MultiwatchProofs -------------------------
(***************************************************************************)
(* Proofs about multiwatch, for any lists of commands, any size of the     *)
(* pipes and of the buffer, and any length of the output: what is shown    *)
(* under a name is what was written to the command's pipe, but for what a  *)
(* zero cuts off; by whom; and the shell prompts again only when nothing   *)
(* of the watch is left.                                                   *)
(***************************************************************************)
EXTENDS Multiwatch, SequenceTheorems, TLAPS

\* Before the list is parsed there is nothing to watch.
ParseInv == sur \in {"take", "parse"} => list = <<>> /\ j = 1 /\ revents = {}

\* The runner is waiting for, or writing about, a program in the foreground, and
\* those after it have not been started.
Runs(place, programs, states) ==
    /\ place.pc \in {"wait", "blank", "pushed"} =>
          place.at \in DOMAIN programs /\ ~ programs[place.at].bg
    /\ place.pc \in {"blank", "pushed"} => states[place.at] = "stopped"
    /\ place.pc \in {"none", "fork"} =>
          \A s \in DOMAIN programs : s >= place.at => states[s] = "none"
    /\ place.pc # "exited" => \A s \in DOMAIN programs : s > place.at => states[s] = "none"

RunnerInv == \A c \in Cmd : Runs(runner[c], list[c], prog[c])

\* The surrogate forks the runners in their order.
ForkInv == sur = "fork" => \A c \in Cmd : c >= j => runner[c].pc = "none"

\* poll's answer stays true until the pipe is read: nobody else reads it.
ReadInv == sur = "read" => \A c \in revents : c >= j => pipe[c] # <<>>

\* The surrogate ends only with everything it has started.
EndInv ==
    Over \/ sur = "second" =>
        \A c \in Cmd : /\ runner[c].pc \in {"none", "exited"}
                       /\ \A s \in DOMAIN list[c] : prog[c][s] \in {"none", "ended"}

\* The shell gets past its waitpid only when the surrogate has gone.
PromptInv ==
    /\ shell \in {"restore", "prompt"} => sur = "reaped"
    /\ shell = "prompt" => fg = Shell

IInv ==
    /\ TypeOK /\ ParseInv /\ OutputInv /\ NoticeInv /\ RunnerInv /\ ForkInv
    /\ ReadInv /\ EndInv /\ PromptInv

-----------------------------------------------------------------------------
(* Lemmas about the texts.                                                 *)

\* The numbers items may have.
Item == Nat \ {0}

\* A further item goes to the end of the pipe.
LEMMA PutShows ==
    ASSUME NEW all \in Seq(Kind), NEW rest \in Seq(Item), NEW text \in Seq(Item), NEW junks,
           Shows(all, rest, text, junks), NEW kind \in Kind
    PROVE  Shows(Append(all, kind), Append(rest, Len(all) + 1), text, junks)
<1> DEFINE al == Append(all, kind)
           re == Append(rest, Len(all) + 1)
           a == Len(all)
           b == Len(rest)
<1>1. a \in Nat /\ b \in Nat /\ Len(text) \in Nat /\ a + 1 \in Item
  BY LenProperties DEF Item
<1>2. Len(al) = a + 1 /\ \A i \in 1 .. a : al[i] = all[i]
  BY AppendProperties
<1>3. /\ Len(re) = b + 1 /\ DOMAIN re = 1 .. b + 1 /\ DOMAIN rest = 1 .. b
      /\ re[b + 1] = a + 1 /\ \A i \in 1 .. b : re[i] = rest[i]
  BY <1>1, AppendProperties, LenProperties
<1>4. /\ \A i \in 1 .. b : rest[i] = a - b + i
      /\ \A i \in DOMAIN text : text[i] \in 1 .. a - b /\ all[text[i]] # "zero"
      /\ \A i, k \in DOMAIN text : i < k => text[i] < text[k]
      /\ \A n \in 1 .. a - b : n \in Printed(text) \/ CutOff(all, text, n)
      /\ junks \subseteq MAX_BUFFER_SIZE .. Len(text)
  BY <1>3 DEF Shows
<1> HIDE DEF al, re, a, b
<1>5. (a + 1) - (b + 1) = a - b /\ 1 .. a - b \subseteq 1 .. a
  BY <1>1
<1>6. \A i \in 1 .. b + 1 : re[i] = a - b + i
  BY <1>1, <1>3, <1>4
<1>7. \A i \in DOMAIN text : al[text[i]] # "zero"
  BY <1>2, <1>4, <1>5
<1>8. ASSUME NEW n \in 1 .. a - b, CutOff(all, text, n) PROVE CutOff(al, text, n)
  <2>1. PICK z \in 1 .. n : /\ n < z + MAX_BUFFER_SIZE /\ all[z] = "zero"
                            /\ \A m \in z .. n : m \notin Printed(text)
    BY <1>8 DEF CutOff
  <2>2. z \in 1 .. a
    BY <1>1, <1>5
  <2> QED
    BY <1>2, <2>1, <2>2 DEF CutOff
<1>9. Shows(al, re, text, junks)
  BY <1>2, <1>3, <1>4, <1>5, <1>6, <1>7, <1>8 DEF Shows
<1> QED
  BY <1>9 DEF al, re, a

\* What is shown are items.
LEMMA TextItems ==
    ASSUME NEW all \in Seq(Kind), NEW rest \in Seq(Item), NEW text \in Seq(Nat), NEW junks,
           Shows(all, rest, text, junks)
    PROVE  text \in Seq(Item)
<1>1. \A i \in DOMAIN text : text[i] \in Item
  <2>1. \A i \in DOMAIN text : text[i] \in 1 .. Len(all) - Len(rest)
    BY DEF Shows
  <2> QED
    BY <2>1 DEF Item
<1>2. text = [i \in 1 .. Len(text) |-> text[i]] /\ Len(text) \in Nat /\ DOMAIN text = 1 .. Len(text)
  BY LenProperties
<1> QED
  BY <1>1, <1>2, IsASeq

\* A read takes t items from the head of the pipe; the first n of them, up to a
\* zero, are printed behind the others.
LEMMA ReadShows ==
    ASSUME NEW all \in Seq(Kind), NEW rest \in Seq(Item), NEW text \in Seq(Item), NEW junks,
           Shows(all, rest, text, junks),
           NEW t \in 0 .. Len(rest), t <= MAX_BUFFER_SIZE, NEW n \in 0 .. t,
           \A k \in 1 .. n : all[rest[k]] # "zero",
           n # t => all[rest[n + 1]] = "zero",
           NEW more, more = junks \/ (n = MAX_BUFFER_SIZE /\ more = junks \cup {Len(text) + n})
    PROVE  LET left == SubSeq(rest, t + 1, Len(rest))
               longer == text \o SubSeq(rest, 1, n)
           IN  /\ left \in Seq(Item) /\ Len(left) = Len(rest) - t
               /\ longer \in Seq(Item) /\ Len(longer) = Len(text) + n
               /\ Shows(all, left, longer, more)
<1> DEFINE left == SubSeq(rest, t + 1, Len(rest))
           head == SubSeq(rest, 1, n)
           longer == text \o head
           a == Len(all)
           b == Len(rest)
           l == Len(text)
<1>1. /\ a \in Nat /\ b \in Nat /\ l \in Nat /\ t \in 0 .. b /\ n \in 0 .. t
      /\ MAX_BUFFER_SIZE \in Nat \ {0} /\ t <= MAX_BUFFER_SIZE
      /\ DOMAIN rest = 1 .. b /\ DOMAIN text = 1 .. l
      /\ \A i \in 1 .. b : rest[i] \in Item
  BY LenProperties, WatchAssumption
<1>2. left \in Seq(Item) /\ Len(left) = b - t /\ \A i \in 1 .. b - t : left[i] = rest[t + i]
  <2>1. \A i \in t + 1 .. b : rest[i] \in Item
    BY <1>1
  <2>2. t + 1 \in Int /\ b \in Int /\ b - (t + 1) + 1 = b - t /\ (t + 1 <= b + 1)
    BY <1>1
  <2> HIDE DEF a, b
  <2>3. /\ left \in Seq(Item)
        /\ Len(left) = IF t + 1 <= b THEN b - (t + 1) + 1 ELSE 0
        /\ \A i \in 1 .. b - (t + 1) + 1 : left[i] = rest[(t + 1) + i - 1]
    BY <2>1, <2>2, SubSeqProperties DEF b
  <2> HIDE DEF left
  <2>4. \A i \in 1 .. b - t : (t + 1) + i - 1 = t + i
    BY <1>1
  <2> QED
    BY <1>1, <2>2, <2>3, <2>4
<1>3. head \in Seq(Item) /\ Len(head) = n /\ \A i \in 1 .. n : head[i] = rest[i]
  <2>1. \A i \in 1 .. n : rest[i] \in Item
    BY <1>1
  <2>2. n \in Int /\ n - 1 + 1 = n /\ n \in Nat
    BY <1>1
  <2>3. /\ head \in Seq(Item)
        /\ Len(head) = IF 1 <= n THEN n - 1 + 1 ELSE 0
        /\ \A i \in 1 .. n - 1 + 1 : head[i] = rest[1 + i - 1]
    BY <2>1, <2>2, SubSeqProperties
  <2> HIDE DEF head
  <2> QED
    BY <2>2, <2>3
<1> HIDE DEF left, head
<1>4. /\ longer \in Seq(Item) /\ Len(longer) = l + n /\ DOMAIN longer = 1 .. l + n
      /\ \A i \in 1 .. l + n : longer[i] = IF i <= l THEN text[i] ELSE head[i - l]
  <2>1. text \in Seq(Item) /\ head \in Seq(Item) /\ Len(text) = l /\ Len(head) = n
    BY <1>3
  <2> HIDE DEF head, l
  <2>2. /\ longer \in Seq(Item) /\ Len(longer) = Len(text) + Len(head)
        /\ \A i \in 1 .. Len(text) + Len(head) :
              longer[i] = IF i <= Len(text) THEN text[i] ELSE head[i - Len(text)]
    BY ONLY <2>1, ConcatProperties, Zenon
  <2> HIDE DEF longer
  <2>3. DOMAIN longer = 1 .. Len(longer)
    BY <2>2, LenProperties
  <2> QED
    BY <2>1, <2>2, <2>3
<1> HIDE DEF longer
<1>5. /\ \A i \in 1 .. b : rest[i] = a - b + i
      /\ \A i \in 1 .. l : text[i] \in 1 .. a - b /\ all[text[i]] # "zero"
      /\ \A i, k \in 1 .. l : i < k => text[i] < text[k]
      /\ \A m \in 1 .. a - b : m \in Printed(text) \/ CutOff(all, text, m)
      /\ junks \subseteq MAX_BUFFER_SIZE .. l
  BY <1>1 DEF Shows
<1>6. /\ \A k \in 1 .. n : all[rest[k]] # "zero"
      /\ n # t => all[rest[n + 1]] = "zero"
      /\ more = junks \/ (n = MAX_BUFFER_SIZE /\ more = junks \cup {l + n})
  OBVIOUS
<1> DEFINE r == a - b
<1>7. /\ r \in Int /\ a - (b - t) = r + t /\ (b # 0 => r \in Nat)
      /\ \A i \in 1 .. b : rest[i] = r + i
  <2>1. b # 0 => rest[1] \in Nat \ {0} /\ rest[1] = a - b + 1
    BY <1>1, <1>5 DEF Item
  <2> QED
    BY <1>1, <1>5, <2>1
<1> HIDE DEF a, b, l, r
\* What is left, and what has been printed.
<1>8. \A i \in 1 .. b - t : left[i] = r + t + i
  BY <1>1, <1>2, <1>7
<1>9. /\ \A i \in 1 .. l : longer[i] = text[i]
      /\ \A i \in 1 .. n : longer[l + i] = r + i /\ r + i \in 1 .. r + t /\ all[r + i] # "zero"
  <2>1. \A i \in 1 .. n : i \in 1 .. b /\ b # 0 /\ l + i \in 1 .. l + n /\ ~ (l + i <= l) /\ (l + i) - l = i
    BY <1>1
  <2>2. \A i \in 1 .. n : longer[l + i] = head[i] /\ head[i] = rest[i] /\ rest[i] = r + i
    <3> SUFFICES ASSUME NEW i \in 1 .. n
                 PROVE  longer[l + i] = head[i] /\ head[i] = rest[i] /\ rest[i] = r + i
      OBVIOUS
    <3>1. /\ l + i \in 1 .. l + n /\ ~ (l + i <= l) /\ (l + i) - l = i
      BY <2>1
    <3>2. longer[l + i] = head[i]
      <4> DEFINE k == l + i
      <4>1. k \in 1 .. l + n /\ ~ (k <= l) /\ k - l = i
        BY <3>1
      <4> HIDE DEF k
      <4>2. longer[k] = head[i]
        BY <1>4, <4>1
      <4> QED
        BY <4>2 DEF k
    <3> QED
      BY <1>3, <1>7, <2>1, <3>1, <3>2
  <2>3. \A i \in 1 .. n : r + i \in 1 .. r + t
    BY <1>1, <1>7, <2>1
  <2>4. \A i \in 1 .. l : i \in 1 .. l + n /\ i <= l
    BY <1>1
  <2> QED
    <3>1. \A i \in 1 .. l : longer[i] = text[i]
      BY <1>4, <2>4
    <3>2. \A i \in 1 .. n : all[r + i] # "zero"
      BY <1>6, <2>2
    <3> QED
      BY <2>2, <2>3, <3>1, <3>2
<1>10. \A i \in 1 .. l + n : i \in 1 .. l \/ \E k \in 1 .. n : i = l + k
  <2>1. \A i \in 1 .. l + n : i \in 1 .. l \/ (i - l \in 1 .. n /\ i = l + (i - l))
    BY <1>1
  <2> QED
    BY <2>1
<1>11. 1 .. r \subseteq 1 .. r + t /\ \A i \in 1 .. n, m \in 1 .. r : m < r + i /\ m # r + i
  BY <1>1, <1>7
<1>12. \A i \in 1 .. l : text[i] \in 1 .. r /\ all[text[i]] # "zero"
  BY <1>5 DEF r
<1>13. \A i \in 1 .. l + n : longer[i] \in 1 .. r + t /\ all[longer[i]] # "zero"
  BY <1>9, <1>10, <1>11, <1>12
<1>14. ASSUME NEW i \in 1 .. l + n, NEW k \in 1 .. l + n, i < k PROVE longer[i] < longer[k]
  <2>1. CASE k \in 1 .. l
    <3>1. i \in 1 .. l
      BY <1>1, <1>14, <2>1
    <3> QED
      BY <1>5, <1>9, <1>14, <2>1, <3>1
  <2>2. ASSUME NEW d \in 1 .. n, k = l + d PROVE longer[i] < longer[k]
    <3>1. CASE i \in 1 .. l
      BY <1>9, <1>11, <1>12, <2>2, <3>1
    <3>2. ASSUME NEW e \in 1 .. n, i = l + e PROVE longer[i] < longer[k]
      <4>1. r + e < r + d
        BY <1>1, <1>7, <1>14, <2>2, <3>2
      <4> QED
        BY <1>9, <2>2, <3>2, <4>1
    <3> QED
      BY <1>10, <3>1, <3>2
  <2> QED
    BY <1>10, <2>1, <2>2
<1>15. Printed(longer) = Printed(text) \cup {r + i : i \in 1 .. n}
  <2>1. Printed(text) = {text[i] : i \in 1 .. l} /\ Printed(longer) = {longer[i] : i \in 1 .. l + n}
    BY <1>1, <1>4 DEF Printed
  <2>2. \A i \in 1 .. l : i \in 1 .. l + n
    BY <1>1
  <2>3. \A i \in 1 .. n : l + i \in 1 .. l + n
    BY <1>1
  <2>4. ASSUME NEW x \in Printed(longer) PROVE x \in Printed(text) \cup {r + i : i \in 1 .. n}
    <3>1. PICK i \in 1 .. l + n : x = longer[i]
      BY <2>1
    <3>2. CASE i \in 1 .. l
      BY <1>9, <2>1, <3>1, <3>2
    <3>3. CASE \E k \in 1 .. n : i = l + k
      BY <1>9, <3>1, <3>3
    <3> QED
      BY <1>10, <3>2, <3>3
  <2>5. Printed(text) \subseteq Printed(longer)
    BY <1>9, <2>1, <2>2
  <2>6. \A i \in 1 .. n : r + i \in Printed(longer)
    BY <1>9, <2>1, <2>3
  <2> QED
    BY <2>4, <2>5, <2>6
<1>16. \A x \in Printed(text) : x \in 1 .. r
  BY <1>1, <1>12 DEF Printed
<1>17. ASSUME NEW m \in 1 .. r + t PROVE m \in Printed(longer) \/ CutOff(all, longer, m)
  <2>1. CASE m \in 1 .. r
    <3>1. CASE m \in Printed(text)
      BY <1>15, <3>1
    <3>2. CASE CutOff(all, text, m)
      <4>1. PICK z \in 1 .. m : /\ m < z + MAX_BUFFER_SIZE /\ all[z] = "zero"
                                /\ \A x \in z .. m : x \notin Printed(text)
        BY <3>2 DEF CutOff
      <4>2. \A x \in z .. m : x \in 1 .. r
        BY <1>7, <2>1
      <4>3. \A x \in z .. m : x \notin Printed(longer)
        BY <1>11, <1>15, <4>1, <4>2
      <4> QED
        BY <4>1, <4>3 DEF CutOff
    <3> QED
      BY <1>5, <2>1, <3>1, <3>2 DEF r
  <2>2. CASE m - r \in 1 .. n
    <3>1. m = r + (m - r)
      BY <1>7
    <3> QED
      BY <1>15, <2>2, <3>1
  <2>3. CASE m \notin 1 .. r /\ m - r \notin 1 .. n
    <3> DEFINE z == r + n + 1
    <3>1. n + 1 \in 1 .. t /\ n # t /\ z <= m /\ m <= r + t /\ t \in 1 .. b
      BY <1>1, <1>7, <2>3
    <3>2. r \in Nat /\ n + 1 \in 1 .. b
      BY <1>1, <1>7, <3>1
    <3>3. all[z] = "zero"
      <4>1. rest[n + 1] = r + (n + 1) /\ r + (n + 1) = z
        BY <1>1, <1>7, <3>2
      <4> QED
        BY <1>6, <3>1, <4>1
    <3>4. z \in 1 .. m /\ m < z + MAX_BUFFER_SIZE
      BY <1>1, <3>1, <3>2
    <3>5. \A x \in z .. m : x \notin 1 .. r /\ \A i \in 1 .. n : x # r + i
      BY <1>1, <3>2
    <3>6. \A x \in z .. m : x \notin Printed(longer)
      BY <1>15, <1>16, <3>5
    <3> QED
      BY <3>3, <3>4, <3>6 DEF CutOff
  <2> QED
    BY <2>1, <2>2, <2>3
<1>18. more \subseteq MAX_BUFFER_SIZE .. l + n
  <2>1. MAX_BUFFER_SIZE .. l \subseteq MAX_BUFFER_SIZE .. l + n
    BY <1>1
  <2>2. n = MAX_BUFFER_SIZE => l + n \in MAX_BUFFER_SIZE .. l + n
    BY <1>1
  <2> QED
    BY <1>5, <1>6, <2>1, <2>2
<1>19. /\ DOMAIN left = 1 .. b - t /\ Len(left) = b - t /\ Len(longer) = l + n
       /\ DOMAIN longer = 1 .. l + n /\ Len(all) - Len(left) = r + t
  <2>1. DOMAIN left = 1 .. Len(left) /\ Len(left) = b - t
    BY <1>2, LenProperties
  <2> QED
    BY <1>4, <1>7, <2>1 DEF a
<1>20. Shows(all, left, longer, more)
  BY <1>8, <1>13, <1>14, <1>17, <1>18, <1>19 DEF Shows
<1> QED
  BY <1>2, <1>4, <1>20 DEF left, longer, head, b, l

\* The commands of a list are numbered from 1.
LEMMA Commands ==
    ASSUME TypeOK
    PROVE  /\ list \in Seq(Seq(Program)) /\ Len(list) \in Nat /\ Cmd = 1 .. Len(list)
           /\ \A c \in Cmd : list[c] \in Seq(Program)
           /\ \A c \in Cmd : DOMAIN list[c] \subseteq Nat
<1>1. list \in Seq(Seq(Program))
  <2>1. <<>> \in Seq(Seq(Program))
    OBVIOUS
  <2>2. Watches \subseteq Seq(Seq(Program)) /\ list \in Watches \cup {<<>>}
    BY WatchAssumption DEF TypeOK
  <2> QED
    BY <2>1, <2>2
<1>2. Len(list) \in Nat /\ Cmd = 1 .. Len(list) /\ \A c \in Cmd : list[c] \in Seq(Program)
  BY <1>1, LenProperties DEF Cmd
<1>3. \A c \in Cmd : DOMAIN list[c] \subseteq Nat
  BY <1>2, LenProperties
<1> QED
  BY <1>1, <1>2, <1>3

-----------------------------------------------------------------------------
(* The shell and the surrogate.                                            *)

LEMMA InitInv == Init => IInv
<1> SUFFICES ASSUME Init PROVE IInv
  OBVIOUS
<1>1. Cmd = {} /\ Len(list) = 0
  BY DEF Init, Cmd
<1>2. TypeOK
  <2>1. DOMAIN <<>> = {} /\ <<>> = [c \in {} |-> 0]
    OBVIOUS
  <2>2. \A S : <<>> \in [{} -> S]
    BY <2>1
  <2>3. /\ runner \in [Cmd -> [pc : Place, at : Nat \ {0}]]
        /\ DOMAIN prog = Cmd /\ written \in [Cmd -> Seq(Kind)]
        /\ pipe \in [Cmd -> Seq(Nat \ {0})] /\ shown \in [Cmd -> Seq(Nat)]
        /\ junk \in [Cmd -> SUBSET Nat]
    BY <1>1, <2>1, <2>2 DEF Init
  <2>4. j \in 1 .. Len(list) + 1
    BY <1>1 DEF Init
  <2> QED
    BY <1>1, <2>3, <2>4 DEF Init, TypeOK
<1> QED
  BY <1>1, <1>2 DEF Init, IInv, ParseInv, OutputInv, NoticeInv, RunnerInv, ForkInv,
     ReadInv, EndInv, PromptInv, Over

\* The steps that move only the shell, the terminal and the surrogate.
LEMMA UserKeeps ==
    ASSUME IInv, ShellStep \/ HandlerReaps \/ SurrogateTakes \/ StartLoop \/ SecondShellExits
    PROVE  IInv'
<1>1. UNCHANGED <<list, j, revents, runner, prog, written, pipe, shown, junk, interrupted>>
  BY DEF ShellStep, ShellGives, ShellWaits, ShellRestores, HandlerReaps, SurrogateTakes,
     StartLoop, SecondShellExits, watch, commands, user
<1>2. Cmd' = Cmd
  BY <1>1 DEF Cmd
<1>3. /\ shell' \in {"give", "wait", "restore", "prompt"} /\ fg' \in {Shell, Watch}
      /\ sur' \in {"take", "parse", "fork", "poll", "read", "second", "zombie", "reaped"}
  BY DEF ShellStep, ShellGives, ShellWaits, ShellRestores, HandlerReaps, SurrogateTakes,
     StartLoop, SecondShellExits, user, IInv, TypeOK
<1>4. TypeOK'
  BY <1>1, <1>2, <1>3 DEF IInv, TypeOK
<1>5. ParseInv' /\ ReadInv' /\ PromptInv'
  BY <1>1 DEF ShellStep, ShellGives, ShellWaits, ShellRestores, HandlerReaps, SurrogateTakes,
     StartLoop, SecondShellExits, user, IInv, ParseInv, ReadInv, PromptInv, Over
<1>6. OutputInv' /\ NoticeInv' /\ RunnerInv'
  BY <1>1, <1>2 DEF IInv, OutputInv, NoticeInv, RunnerInv
<1>8. ForkInv'
  BY <1>1, <1>2 DEF ShellStep, ShellGives, ShellWaits, ShellRestores, HandlerReaps, SurrogateTakes,
     StartLoop, SecondShellExits, IInv, ForkInv
<1>7. EndInv'
  <2>1. Over' \/ sur' = "second" => Over \/ sur = "second" \/ Cmd = {}
    BY DEF ShellStep, ShellGives, ShellWaits, ShellRestores, HandlerReaps, SurrogateTakes,
       StartLoop, SecondShellExits, user, Over
  <2> QED
    BY <1>1, <1>2, <2>1 DEF IInv, EndInv
<1> QED
  BY <1>4, <1>5, <1>6, <1>7, <1>8 DEF IInv

LEMMA ParseKeeps ==
    ASSUME IInv, NEW w \in Watches, Parse(w)
    PROVE  IInv'
<1>1. /\ sur = "parse" /\ list = <<>> /\ j = 1 /\ revents = {}
      /\ UNCHANGED <<shell, fg, j, revents, interrupted>>
  BY DEF Parse, IInv, ParseInv, user
<1>2. CASE sur' = "zombie" /\ UNCHANGED <<list, commands>>
  <2>1. Cmd = {} /\ Cmd' = {} /\ UNCHANGED <<list, runner, prog, written, pipe, shown, junk>>
    BY <1>1, <1>2 DEF Cmd, commands
  <2>2. TypeOK'
    BY <1>1, <1>2, <2>1 DEF IInv, TypeOK
  <2> QED
    BY <1>1, <1>2, <2>1, <2>2
       DEF IInv, ParseInv, OutputInv, NoticeInv, RunnerInv, ForkInv, ReadInv, EndInv, PromptInv
<1>3. CASE sur' # "zombie"
  <2>1. /\ sur' = "fork" /\ list' = w
        /\ runner' = [c \in DOMAIN w |-> [pc |-> "none", at |-> 1]]
        /\ prog' = [c \in DOMAIN w |-> [s \in DOMAIN w[c] |-> "none"]]
        /\ written' = [c \in DOMAIN w |-> <<>>]
        /\ pipe' = [c \in DOMAIN w |-> <<>>]
        /\ shown' = [c \in DOMAIN w |-> <<>>] /\ junk' = [c \in DOMAIN w |-> {}]
    BY <1>1, <1>3 DEF Parse
  <2>2. Cmd' = DOMAIN w /\ Len(w) \in Nat
    BY <2>1, WatchAssumption DEF Cmd
  <2>3. TypeOK'
    <3>1. \A S : <<>> \in Seq(S) /\ Len(<<>>) = 0
      OBVIOUS
    <3>2. 1 \in 1 .. Len(w) + 1 /\ 0 <= PipeSize
      BY <2>2, WatchAssumption
    <3>3. /\ runner' \in [Cmd' -> [pc : Place, at : Nat \ {0}]]
          /\ junk' \in [Cmd' -> SUBSET Nat]
      BY <2>1, <2>2 DEF Place
    <3>4. /\ pipe' \in [Cmd' -> Seq(Nat \ {0})] /\ \A c \in Cmd' : Len(pipe'[c]) <= PipeSize
          /\ shown' \in [Cmd' -> Seq(Nat)] /\ written' \in [Cmd' -> Seq(Kind)]
      BY <2>1, <2>2, <3>1, <3>2
    <3>5. /\ DOMAIN prog' = Cmd'
          /\ \A c \in Cmd' :
                prog'[c] \in [DOMAIN list'[c] -> {"none", "new", "running", "stopped", "ended"}]
      BY <2>1, <2>2
    <3> QED
      BY <1>1, <2>1, <3>2, <3>3, <3>4, <3>5 DEF IInv, TypeOK
  <2>4. OutputInv'
    <3>1. Shows(<<>>, <<>>, <<>>, {})
      BY DEF Shows
    <3> QED
      BY <2>1, <2>2, <3>1 DEF OutputInv
  <2>5. NoticeInv' /\ RunnerInv' /\ ForkInv'
    BY <2>1, <2>2 DEF NoticeInv, RunnerInv, Runs, ForkInv
  <2> QED
    BY <1>1, <2>1, <2>3, <2>4, <2>5 DEF IInv, ParseInv, ReadInv, EndInv, PromptInv, Over
<1> QED
  BY <1>2, <1>3 DEF Parse

\* The steps of the surrogate that touch neither pipe nor text.
LEMMA LoopKeeps ==
    ASSUME IInv, ForkRunner \/ Poll \/ NextPipe
    PROVE  IInv'
<1> USE Commands DEF IInv
<1>1. UNCHANGED <<list, prog, written, pipe, shown, junk, shell, fg, interrupted>> /\ Cmd' = Cmd
  BY DEF ForkRunner, Poll, NextPipe, commands, user, Cmd
<1>2. /\ sur \in {"fork", "poll", "read"} /\ sur' \in {"fork", "poll", "read"}
  BY DEF ForkRunner, Poll, NextPipe
<1>3. /\ j' \in 1 .. Len(list) + 1 /\ revents' \subseteq Cmd
      /\ runner' \in [Cmd -> [pc : Place, at : Nat \ {0}]]
  <2>1. CASE ForkRunner
    <3>1. /\ j \in Cmd /\ j' = j + 1 /\ revents' = revents
          /\ runner' = [runner EXCEPT ![j].pc = "fork"]
      BY <2>1 DEF ForkRunner
    <3>2. j + 1 \in 1 .. Len(list) + 1
      BY <3>1
    <3>3. /\ revents \subseteq Cmd
          /\ runner \in [Cmd -> [pc : Place, at : Nat \ {0}]]
      BY DEF TypeOK
    <3>4. runner' \in [Cmd -> [pc : Place, at : Nat \ {0}]]
      <4> HIDE DEF IInv
      <4>1. runner' = [runner EXCEPT ![j] = [runner[j] EXCEPT !.pc = "fork"]] /\ j \in Cmd
        BY <3>1
      <4>2. [runner[j] EXCEPT !.pc = "fork"] \in [pc : Place, at : Nat \ {0}]
        BY <3>1, <3>3 DEF Place
      <4> QED
        BY <3>3, <4>1, <4>2
    <3> HIDE Commands DEF IInv
    <3> QED
      BY <3>1, <3>2, <3>3, <3>4
  <2>2. CASE Poll
    <3>1. /\ j' = 1 /\ runner' = runner /\ revents' \subseteq Cmd
      BY <2>2 DEF Poll, commands
    <3>2. /\ 1 \in 1 .. Len(list) + 1
          /\ runner \in [Cmd -> [pc : Place, at : Nat \ {0}]]
      BY DEF TypeOK
    <3> HIDE Commands DEF IInv
    <3> QED
      BY <3>1, <3>2
  <2>3. CASE NextPipe
    BY <2>3 DEF NextPipe, TypeOK, commands
  <2> QED
    BY <2>1, <2>2, <2>3
<1>4. TypeOK'
  BY <1>1, <1>2, <1>3 DEF TypeOK
<1>5. ReadInv'
  <2>1. CASE ForkRunner
    BY <2>1 DEF ForkRunner, ReadInv
  <2>2. CASE Poll
    BY <2>2 DEF Poll, ReadInv, commands
  <2>3. CASE NextPipe
    <3>1. sur = "read" /\ UNCHANGED <<revents, pipe>> /\ (j' = j + 1 \/ sur' = "poll")
      BY <2>3 DEF NextPipe, commands
    <3>2. j \in Nat /\ \A c \in revents : c \in Nat
      <4>1. TypeOK /\ Len(list) \in Nat /\ Cmd = 1 .. Len(list)
        BY Commands
      <4> HIDE DEF IInv
      <4>2. j \in 1 .. Len(list) + 1 /\ revents \subseteq Cmd
        BY <4>1 DEF TypeOK
      <4>3. j \in Nat /\ Cmd \subseteq Nat
        BY <4>1, <4>2
      <4> QED
        BY <4>2, <4>3
    <3>3. \A c \in revents : c >= j + 1 => c >= j
      BY <3>2
    <3> QED
      BY <3>1, <3>3 DEF ReadInv
  <2> QED
    BY <2>1, <2>2, <2>3
<1>6. ParseInv' /\ EndInv' /\ PromptInv' /\ OutputInv' /\ NoticeInv'
  BY <1>1, <1>2 DEF ParseInv, EndInv, PromptInv, OutputInv, NoticeInv, Over
<1>7. RunnerInv' /\ ForkInv'
  <2>1. CASE ForkRunner
    <3>1. sur = "fork" /\ j \in Cmd /\ j' = j + 1 /\ runner' = [runner EXCEPT ![j].pc = "fork"]
      BY <2>1 DEF ForkRunner
    <3>2. j \in Nat /\ \A c \in Cmd : c \in Nat
      <4>1. Len(list) \in Nat /\ Cmd = 1 .. Len(list)
        BY Commands
      <4> QED
        BY <3>1, <4>1
    <3> USE DEF IInv
    <3>3. /\ runner[j].pc = "none"
          /\ \A c \in Cmd : c >= j + 1 => c >= j /\ c # j
      BY <3>1, <3>2 DEF ForkInv
    <3>4. /\ \A c \in Cmd \ {j} : runner'[c] = runner[c]
          /\ runner'[j].pc = "fork" /\ runner'[j].at = runner[j].at
      BY <3>1 DEF TypeOK
    <3>5. RunnerInv'
      <4>1. RunnerInv
        OBVIOUS
      <4> HIDE DEF IInv
      <4> QED
        BY <1>1, <3>1, <3>3, <3>4, <4>1 DEF RunnerInv, Runs, Current
    <3>6. ForkInv'
      BY <1>1, <3>1, <3>3, <3>4 DEF ForkInv
    <3> QED
      BY <3>5, <3>6
  <2>2. CASE Poll \/ NextPipe
    <3>1. runner' = runner /\ sur' # "fork"
      BY <2>2 DEF Poll, NextPipe, commands
    <3> QED
      BY <1>1, <3>1 DEF RunnerInv, ForkInv, IInv
  <2> QED
    BY <2>1, <2>2
<1> QED
  BY <1>4, <1>5, <1>6, <1>7

\* A read takes items from the head of the pipe and prints them behind the
\* others, up to a zero.
LEMMA ReadPipeKeeps == IInv /\ ReadPipe => IInv'
<1> SUFFICES ASSUME IInv, ReadPipe PROVE IInv'
  OBVIOUS
<1>1. /\ sur = "read" /\ sur' = "read" /\ j \in revents /\ j \in Cmd /\ j' = j + 1
      /\ UNCHANGED <<shell, fg, list, revents, runner, prog, written, interrupted>>
      /\ Cmd' = Cmd
  BY DEF ReadPipe, user, IInv, TypeOK, Cmd
<1> DEFINE all == written[j]
           rest == pipe[j]
           text == shown[j]
           t == Taken(j)
           left == SubSeq(rest, t + 1, Len(rest))
<1>2. /\ all \in Seq(Kind) /\ rest \in Seq(Item) /\ text \in Seq(Item) /\ Len(rest) <= PipeSize
      /\ Shows(all, rest, text, junk[j]) /\ Len(rest) \in Nat
  <2>1. /\ all \in Seq(Kind) /\ rest \in Seq(Item) /\ text \in Seq(Nat) /\ Len(rest) <= PipeSize
        /\ Shows(all, rest, text, junk[j])
    BY <1>1 DEF IInv, TypeOK, OutputInv, Item
  <2>2. text \in Seq(Item)
    BY <2>1, TextItems
  <2> QED
    BY <2>1, <2>2, LenProperties
<1>3. t \in 0 .. Len(rest) /\ t <= MAX_BUFFER_SIZE
  BY <1>2, WatchAssumption DEF Taken
<1>4. PICK n \in 0 .. t :
         /\ UpToZero(j, n)
         /\ shown' = [shown EXCEPT ![j] = text \o SubSeq(rest, 1, n)]
         /\ \/ UNCHANGED junk
            \/ n = MAX_BUFFER_SIZE /\ junk' = [junk EXCEPT ![j] = junk[j] \cup {Len(shown'[j])}]
  BY <1>1 DEF ReadPipe, IInv, TypeOK
<1> DEFINE longer == text \o SubSeq(rest, 1, n)
           more == junk'[j]
<1>5. /\ \A k \in 1 .. n : all[rest[k]] # "zero"
      /\ n # t => all[rest[n + 1]] = "zero"
  BY <1>4 DEF UpToZero
<1>6. /\ shown'[j] = longer /\ pipe'[j] = left /\ pipe' = [pipe EXCEPT ![j] = left]
      /\ shown' = [shown EXCEPT ![j] = longer]
      /\ \A c \in Cmd \ {j} : shown'[c] = shown[c] /\ pipe'[c] = pipe[c] /\ junk'[c] = junk[c]
  BY <1>1, <1>4 DEF ReadPipe, IInv, TypeOK
<1>7. Len(longer) = Len(text) + n
  <2>1. SubSeq(rest, 1, n) \in Seq(Item) /\ Len(SubSeq(rest, 1, n)) = n
    <3>1. /\ \A i \in 1 .. n : rest[i] \in Item
          /\ n \in Int /\ n - 1 + 1 = n /\ n \in Nat
      BY <1>2, <1>3, <1>4, LenProperties
    <3> HIDE DEF rest, t
    <3> QED
      BY <3>1, SubSeqProperties
  <2> QED
    BY <1>2, <2>1, ConcatProperties
<1>8. more = junk[j] \/ (n = MAX_BUFFER_SIZE /\ more = junk[j] \cup {Len(text) + n})
  BY <1>1, <1>4, <1>6, <1>7 DEF IInv, TypeOK
<1> HIDE DEF all, rest, text, t, more
<1>9. /\ left \in Seq(Item) /\ Len(left) = Len(rest) - t
      /\ longer \in Seq(Item) /\ Shows(all, left, longer, more)
  BY <1>2, <1>3, <1>4, <1>5, <1>8, ReadShows
<1> HIDE DEF left, longer
<1>10. OutputInv'
  <2>1. written'[j] = all
    BY <1>1 DEF all
  <2>2. \A c \in Cmd \ {j} : Shows(written'[c], pipe'[c], shown'[c], junk'[c])
    BY <1>1, <1>6 DEF IInv, OutputInv
  <2> QED
    BY <1>1, <1>6, <1>9, <2>1, <2>2 DEF OutputInv, more
<1>11. TypeOK'
  <2>1. Len(left) <= PipeSize
    BY <1>2, <1>3, <1>9, WatchAssumption
  <2>2. left \in Seq(Nat \ {0}) /\ longer \in Seq(Nat)
    <3>1. Seq(Item) \subseteq Seq(Nat)
      BY DEF Item
    <3> QED
      BY <1>9, <3>1 DEF Item
  <2>3. /\ shown' \in [Cmd -> Seq(Nat)] /\ pipe' \in [Cmd -> Seq(Nat \ {0})]
        /\ \A c \in Cmd : Len(pipe'[c]) <= PipeSize
    BY <1>1, <1>6, <2>1, <2>2 DEF IInv, TypeOK
  <2>4. j' \in 1 .. Len(list) + 1
    <3>1. j \in 1 .. Len(list) /\ Len(list) \in Nat
      BY <1>1, Commands DEF IInv
    <3> QED
      BY <1>1, <3>1
  <2>5. junk' \in [Cmd -> SUBSET Nat]
    <3>1. Len(shown'[j]) \in Nat
      BY <1>6, <1>9, LenProperties
    <3> QED
      BY <1>1, <1>4, <3>1 DEF IInv, TypeOK
  <2> QED
    BY <1>1, <2>3, <2>4, <2>5 DEF IInv, TypeOK
<1>12. ReadInv'
  <2>1. \A c \in revents : c \in Nat /\ (c >= j + 1 => c >= j /\ c # j /\ c \in Cmd)
    <3>1. j \in Nat /\ \A c \in revents : c \in Nat /\ c \in Cmd
      <4>1. j \in 1 .. Len(list) + 1 /\ revents \subseteq Cmd
        BY DEF IInv, TypeOK
      <4>2. Len(list) \in Nat /\ Cmd = 1 .. Len(list)
        BY Commands DEF IInv
      <4> QED
        BY <4>1, <4>2
    <3> QED
      BY <3>1
  <2> QED
    BY <1>1, <1>6, <2>1 DEF IInv, ReadInv
<1>13. ParseInv' /\ EndInv' /\ PromptInv' /\ NoticeInv' /\ RunnerInv' /\ ForkInv'
  BY <1>1 DEF IInv, ParseInv, EndInv, PromptInv, NoticeInv, RunnerInv, ForkInv, Over
<1> QED
  BY <1>10, <1>11, <1>12, <1>13 DEF IInv

-----------------------------------------------------------------------------
(* The runners, their programs and the keys.                               *)

\* One program of one command goes to another state.
LEMMA ProgramType ==
    ASSUME TypeOK, NEW c \in Cmd, NEW s \in DOMAIN list[c],
           NEW x \in {"none", "new", "running", "stopped", "ended"},
           prog' = [prog EXCEPT ![c][s] = x]
    PROVE  /\ DOMAIN prog' = Cmd
           /\ \A d \in Cmd :
                 prog'[d] \in [DOMAIN list[d] -> {"none", "new", "running", "stopped", "ended"}]
<1>1. prog'[c] = [prog[c] EXCEPT ![s] = x] /\ DOMAIN prog' = Cmd
  BY DEF TypeOK
<1>2. \A d \in Cmd \ {c} : prog'[d] = prog[d]
  BY DEF TypeOK
<1> QED
  BY <1>1, <1>2 DEF TypeOK

\* A program that has stopped or ended stays so, but for a key that ends it, and
\* one that has not been started is left alone.
LEMMA ProgramsStay ==
    ASSUME NoticeInv, RunnerInv, ForkInv, UNCHANGED <<sur, list, j, runner, written>>,
           \A c \in Cmd : \A s \in DOMAIN list[c] :
               prog[c][s] \in {"none", "stopped", "ended"} => prog'[c][s] = prog[c][s]
    PROVE  NoticeInv' /\ RunnerInv' /\ ForkInv'
<1>1. Cmd' = Cmd
  BY DEF Cmd
<1>2. NoticeInv' /\ ForkInv'
  BY <1>1 DEF NoticeInv, ForkInv
<1>3. RunnerInv'
  <2> SUFFICES ASSUME NEW c \in Cmd PROVE Runs(runner[c], list[c], prog'[c])
    BY <1>1 DEF RunnerInv
  <2> QED
    BY DEF RunnerInv, Runs
<1> QED
  BY <1>2, <1>3

\* What a runner's step keeps besides what it is about: the types but those of the
\* pipe, and what is said of the surrogate and the shell.
LEMMA RunnerType ==
    ASSUME IInv, NEW c \in Cmd, RunnerStep(c)
    PROVE  /\ UNCHANGED <<shell, sur, list, j, revents, shown, junk, interrupted>>
           /\ Cmd' = Cmd /\ ~ Over /\ sur # "second"
           /\ fg' \in {Shell, Watch}
           /\ runner' \in [Cmd -> [pc : Place, at : Nat \ {0}]]
           /\ \A d \in Cmd \ {c} : runner'[d] = runner[d] /\ prog'[d] = prog[d]
           /\ DOMAIN prog' = Cmd
           /\ \A d \in Cmd :
                 prog'[d] \in [DOMAIN list[d] -> {"none", "new", "running", "stopped", "ended"}]
           /\ ParseInv' /\ ForkInv' /\ EndInv' /\ PromptInv'
<1>1. /\ UNCHANGED <<shell, sur, list, j, revents, shown, junk, interrupted>>
      /\ Cmd' = Cmd /\ runner[c].pc \in {"fork", "wait", "blank", "pushed", "restore"}
  BY DEF RunnerStep, RunnerForks, RunnerWaits, RunnerPushes, RunnerRestores, user, watch, Cmd
<1>2. ~ Over /\ sur # "second"
  BY <1>1 DEF IInv, EndInv
<1>3. fg' \in {Shell, Watch} /\ (shell = "prompt" => fg' = Shell)
  BY DEF RunnerStep, RunnerForks, RunnerWaits, RunnerPushes, RunnerRestores, user,
     IInv, PromptInv, TypeOK
<1>4. /\ runner' \in [Cmd -> [pc : Place, at : Nat \ {0}]]
      /\ \A d \in Cmd \ {c} : runner'[d] = runner[d]
  <2>1. /\ runner[c].at \in Nat \ {0} /\ runner[c].pc \in Place
        /\ runner \in [Cmd -> [pc : Place, at : Nat \ {0}]]
    BY DEF IInv, TypeOK
  <2>2. runner[c].at + 1 \in Nat \ {0}
    BY <2>1
  <2>3. \E x \in Place, k \in {runner[c].at, runner[c].at + 1} :
            runner' = [runner EXCEPT ![c] = [pc |-> x, at |-> k]]
    BY <1>1, <2>1, <2>2
       DEF RunnerStep, RunnerForks, RunnerWaits, RunnerPushes, RunnerRestores, Place
  <2> QED
    BY <2>1, <2>2, <2>3
<1>5. /\ DOMAIN prog' = Cmd
      /\ \A d \in Cmd :
            prog'[d] \in [DOMAIN list[d] -> {"none", "new", "running", "stopped", "ended"}]
      /\ \A d \in Cmd \ {c} : prog'[d] = prog[d]
  BY ProgramType DEF RunnerStep, RunnerForks, RunnerWaits, RunnerPushes, RunnerRestores,
     Current, IInv, TypeOK
<1>6. ForkInv'
  BY <1>1, <1>4 DEF IInv, ForkInv
<1> QED
  BY <1>1, <1>2, <1>3, <1>4, <1>5, <1>6 DEF IInv, ParseInv, EndInv, PromptInv, Over

\* A runner's step that writes nothing.
LEMMA RunnerKeeps ==
    ASSUME IInv, NEW c \in Cmd, RunnerForks(c) \/ RunnerWaits(c) \/ RunnerRestores(c)
    PROVE  IInv'
<1>1. /\ UNCHANGED <<shell, sur, list, j, revents, shown, junk, interrupted>>
      /\ Cmd' = Cmd
      /\ fg' \in {Shell, Watch}
      /\ runner' \in [Cmd -> [pc : Place, at : Nat \ {0}]]
      /\ \A d \in Cmd \ {c} : runner'[d] = runner[d] /\ prog'[d] = prog[d]
      /\ DOMAIN prog' = Cmd
      /\ \A d \in Cmd :
            prog'[d] \in [DOMAIN list[d] -> {"none", "new", "running", "stopped", "ended"}]
      /\ ParseInv' /\ ForkInv' /\ EndInv' /\ PromptInv'
  BY RunnerType DEF RunnerStep
<1>2. UNCHANGED <<written, pipe>>
  BY DEF RunnerForks, RunnerWaits, RunnerRestores
<1>3. TypeOK'
  BY <1>1, <1>2 DEF IInv, TypeOK
<1>4. OutputInv' /\ ReadInv'
  BY <1>1, <1>2 DEF IInv, OutputInv, ReadInv
<1>5. /\ NoticeInv /\ RunnerInv /\ Current(c) \in Nat
      /\ \A s \in DOMAIN list[c] : s \in Nat
  BY Commands DEF IInv, TypeOK, Current
<1>6. CASE RunnerForks(c) /\ Current(c) \in DOMAIN list[c]
  <2>1. /\ runner[c].pc = "fork" /\ prog[c][Current(c)] = "none"
        /\ prog'[c] = [prog[c] EXCEPT ![Current(c)] = "new"]
        /\ \/ /\ runner'[c] = [runner[c] EXCEPT !.at = Current(c) + 1]
           \/ /\ runner'[c] = [runner[c] EXCEPT !.pc = "wait"] /\ ~ list[c][Current(c)].bg
    <3>1. /\ runner[c].pc = "fork"
          /\ prog' = [prog EXCEPT ![c][Current(c)] = "new"]
          /\ runner' = IF list[c][Current(c)].bg THEN [runner EXCEPT ![c].at = @ + 1]
                       ELSE [runner EXCEPT ![c].pc = "wait"]
      BY <1>6 DEF RunnerForks
    <3>2. prog[c][Current(c)] = "none"
      <4>1. Current(c) >= Current(c)
        BY <1>5
      <4> QED
        BY <1>5, <1>6, <3>1, <4>1 DEF RunnerInv, Runs, Current
    <3>3. c \in DOMAIN runner /\ c \in DOMAIN prog
      BY DEF IInv, TypeOK
    <3> QED
      BY <3>1, <3>2, <3>3 DEF Current
  <2>2. \A s \in DOMAIN list[c] : s # Current(c) => prog'[c][s] = prog[c][s]
    BY <2>1 DEF IInv, TypeOK
  <2>3. NoticeInv'
    BY <1>1, <1>2, <1>5, <2>1, <2>2 DEF NoticeInv
  <2>4. /\ runner[c].pc \in {"none", "fork", "wait"} /\ runner[c] \in [pc : Place, at : Nat \ {0}]
    BY <2>1 DEF IInv, TypeOK
  <2>5. \/ runner'[c].pc = "fork" /\ runner'[c].at = Current(c) + 1
        \/ runner'[c].pc = "wait" /\ runner'[c].at = Current(c) /\ ~ list[c][Current(c)].bg
    BY <2>1, <2>4 DEF Current
  <2>6. \A s \in DOMAIN list[c] :
           /\ s > Current(c) => prog'[c][s] = "none"
           /\ (s >= Current(c) + 1 \/ s > Current(c) + 1) => s > Current(c)
    BY <1>5, <2>1, <2>2 DEF RunnerInv, Runs, Current
  <2>7. RunnerInv'
    <3> SUFFICES ASSUME NEW d \in Cmd PROVE Runs(runner'[d], list[d], prog'[d])
      BY <1>1 DEF RunnerInv
    <3>1. CASE d = c
      BY <1>6, <2>5, <2>6, <3>1 DEF Runs, Current
    <3>2. CASE d # c
      BY <1>1, <1>5, <3>2 DEF RunnerInv
    <3> QED
      BY <3>1, <3>2
  <2> QED
    BY <1>1, <1>3, <1>4, <2>3, <2>7 DEF IInv
<1>7. CASE ~ (RunnerForks(c) /\ Current(c) \in DOMAIN list[c])
  <2>1. prog' = prog
    BY <1>7 DEF RunnerForks, RunnerWaits, RunnerRestores
  <2>2. NoticeInv'
    BY <1>1, <1>2, <1>5, <2>1 DEF NoticeInv
  <2>3. \/ runner'[c].pc = "exited"
        \/ /\ runner[c].pc = "wait" /\ runner'[c].pc = "restore" /\ runner'[c].at = Current(c)
        \/ /\ runner[c].pc = "wait" /\ runner'[c].pc = "blank" /\ runner'[c].at = Current(c)
           /\ prog[c][Current(c)] = "stopped"
        \/ /\ runner[c].pc = "restore" /\ runner'[c].pc = "fork"
           /\ runner'[c].at = Current(c) + 1
    BY <1>7 DEF RunnerForks, RunnerWaits, RunnerRestores, IInv, TypeOK, Current
  <2>4. \A s \in DOMAIN list[c] : (s >= Current(c) + 1 \/ s > Current(c) + 1) => s > Current(c)
    BY <1>5
  <2>5. RunnerInv'
    <3> SUFFICES ASSUME NEW d \in Cmd PROVE Runs(runner'[d], list[d], prog[d])
      BY <1>1, <2>1 DEF RunnerInv
    <3>1. CASE d = c
      BY <1>5, <2>3, <2>4, <3>1 DEF RunnerInv, Runs, Current
    <3>2. CASE d # c
      BY <1>1, <1>5, <3>2 DEF RunnerInv
    <3> QED
      BY <3>1, <3>2
  <2> QED
    BY <1>1, <1>3, <1>4, <2>2, <2>5 DEF IInv
<1> QED
  BY <1>6, <1>7

\* Whoever writes an item: it goes to the end of the pipe.
LEMMA PutKeeps ==
    ASSUME IInv, NEW c \in Cmd, NEW kind \in Kind, Put(c, kind),
           UNCHANGED <<sur, list, j, revents, shown, junk>>
    PROVE  /\ written' \in [Cmd -> Seq(Kind)]
           /\ pipe' \in [Cmd -> Seq(Nat \ {0})] /\ \A d \in Cmd : Len(pipe'[d]) <= PipeSize
           /\ OutputInv' /\ ReadInv'
           /\ \A d \in Cmd \ {c} : written'[d] = written[d]
           /\ \A n \in DOMAIN written'[c] :
                 (n \in DOMAIN written[c] /\ written'[c][n] = written[c][n]) \/ written'[c][n] = kind
<1> DEFINE all == written[c]
           rest == pipe[c]
           text == shown[c]
<1>1. /\ all \in Seq(Kind) /\ rest \in Seq(Item) /\ text \in Seq(Item)
      /\ Shows(all, rest, text, junk[c])
      /\ Len(all) \in Nat /\ Len(rest) \in Nat /\ Len(rest) + 1 <= PipeSize
  <2>1. /\ all \in Seq(Kind) /\ rest \in Seq(Item) /\ text \in Seq(Nat)
        /\ Shows(all, rest, text, junk[c]) /\ Len(rest) < PipeSize
    BY DEF IInv, TypeOK, OutputInv, Item, Put
  <2>2. Len(all) \in Nat /\ Len(rest) \in Nat
    BY <2>1, LenProperties
  <2>3. Len(rest) + 1 <= PipeSize
    BY <2>1, <2>2, WatchAssumption
  <2>4. text \in Seq(Item)
    BY <2>1, TextItems
  <2> QED
    BY <2>1, <2>2, <2>3, <2>4
<1> DEFINE al == Append(all, kind)
           re == Append(rest, Len(all) + 1)
<1>2. written' = [written EXCEPT ![c] = al] /\ pipe' = [pipe EXCEPT ![c] = re]
  BY DEF Put, IInv, TypeOK
<1>3. /\ written'[c] = al /\ pipe'[c] = re
      /\ \A d \in Cmd \ {c} : written'[d] = written[d] /\ pipe'[d] = pipe[d]
      /\ DOMAIN written' = Cmd /\ DOMAIN pipe' = Cmd /\ Cmd' = Cmd
  BY <1>2 DEF IInv, TypeOK, Cmd
<1>4. Len(all) + 1 \in Item
  BY <1>1 DEF Item
<1> HIDE DEF all, rest, text
<1>5. /\ al \in Seq(Kind) /\ re \in Seq(Item) /\ Len(re) = Len(rest) + 1 /\ re # <<>>
      /\ DOMAIN al = 1 .. Len(all) + 1 /\ DOMAIN all = 1 .. Len(all)
      /\ al[Len(all) + 1] = kind /\ \A i \in 1 .. Len(all) : al[i] = all[i]
  BY <1>1, <1>4, AppendProperties, LenProperties
<1>6. Shows(al, re, text, junk[c])
  BY ONLY <1>1, PutShows, kind \in Kind
<1> HIDE DEF al, re
<1>7. /\ written' \in [Cmd -> Seq(Kind)] /\ pipe' \in [Cmd -> Seq(Nat \ {0})]
      /\ \A d \in Cmd : Len(pipe'[d]) <= PipeSize
  BY <1>1, <1>2, <1>3, <1>5 DEF IInv, TypeOK, Item
<1>8. OutputInv'
  BY <1>3, <1>6 DEF IInv, OutputInv, text
<1>9. ReadInv'
  BY <1>3, <1>5 DEF IInv, ReadInv, TypeOK
<1>10. \A n \in 1 .. Len(all) + 1 : n \in 1 .. Len(all) \/ n = Len(all) + 1
  BY <1>1
<1> QED
  BY <1>3, <1>5, <1>7, <1>8, <1>9, <1>10 DEF all

\* The runner writes about the program it was waiting for, which has stopped.
LEMMA RunnerPushesKeeps ==
    ASSUME IInv, NEW c \in Cmd, RunnerPushes(c)
    PROVE  IInv'
<1>1. /\ UNCHANGED <<shell, sur, list, j, revents, shown, junk, interrupted>>
      /\ Cmd' = Cmd
      /\ fg' \in {Shell, Watch}
      /\ runner' \in [Cmd -> [pc : Place, at : Nat \ {0}]]
      /\ \A d \in Cmd \ {c} : runner'[d] = runner[d] /\ prog'[d] = prog[d]
      /\ ParseInv' /\ ForkInv' /\ EndInv' /\ PromptInv'
  BY RunnerType DEF RunnerStep
<1>2. Put(c, "notice") /\ prog' = prog /\ runner[c].pc \in {"blank", "pushed"}
  BY DEF RunnerPushes
<1>3. "notice" \in Kind
  BY DEF Kind
<1>4. /\ written' \in [Cmd -> Seq(Kind)]
      /\ pipe' \in [Cmd -> Seq(Nat \ {0})] /\ \A d \in Cmd : Len(pipe'[d]) <= PipeSize
      /\ OutputInv' /\ ReadInv'
      /\ \A d \in Cmd \ {c} : written'[d] = written[d]
      /\ \A n \in DOMAIN written'[c] :
            (n \in DOMAIN written[c] /\ written'[c][n] = written[c][n]) \/ written'[c][n] = "notice"
  BY <1>1, <1>2, <1>3, PutKeeps
<1>5. TypeOK'
  BY <1>1, <1>2, <1>4 DEF IInv, TypeOK
<1>6. /\ Current(c) \in DOMAIN list[c] /\ ~ list[c][Current(c)].bg
      /\ prog[c][Current(c)] = "stopped"
  BY <1>2 DEF IInv, RunnerInv, Runs, Current
<1>7. NoticeInv'
  BY <1>1, <1>2, <1>4, <1>6 DEF IInv, NoticeInv
<1>8. RunnerInv'
  <2>1. runner'[c].at = runner[c].at /\ runner'[c].pc \in {"pushed", "restore"}
    BY DEF RunnerPushes, IInv, TypeOK
  <2>2. RunnerInv
    BY DEF IInv
  <2> QED
    BY <1>1, <1>2, <1>6, <2>1, <2>2 DEF RunnerInv, Runs, Current
<1> QED
  BY <1>1, <1>4, <1>5, <1>7, <1>8 DEF IInv

LEMMA ProgramKeeps ==
    ASSUME IInv, NEW c \in Cmd, NEW s \in DOMAIN list[c],
           ProgramStarts(c, s) \/ ProgramEnds(c, s) \/ ProgramReads(c, s)
    PROVE  IInv'
<1>1. /\ UNCHANGED <<shell, fg, sur, list, j, revents, runner, written, pipe, shown, junk, interrupted>>
      /\ Cmd' = Cmd /\ prog[c][s] \in {"new", "running"}
  BY DEF ProgramStarts, ProgramEnds, ProgramReads, To, user, watch, Cmd
<1>2. ~ Over /\ sur # "second"
  BY <1>1 DEF IInv, EndInv
<1>3. /\ DOMAIN prog' = Cmd
      /\ \A d \in Cmd :
            prog'[d] \in [DOMAIN list[d] -> {"none", "new", "running", "stopped", "ended"}]
  BY ProgramType DEF ProgramStarts, ProgramEnds, ProgramReads, To, IInv
<1>4. TypeOK'
  BY <1>1, <1>3 DEF IInv, TypeOK
<1>5. \A d \in Cmd : \A r \in DOMAIN list[d] :
         prog[d][r] \in {"none", "stopped", "ended"} => prog'[d][r] = prog[d][r]
  <2>1. \E x \in {"running", "ended", "stopped"} : prog' = [prog EXCEPT ![c][s] = x]
    BY DEF ProgramStarts, ProgramEnds, ProgramReads, To
  <2>2. /\ \A d \in Cmd \ {c} : prog'[d] = prog[d]
        /\ \A r \in DOMAIN list[c] : r # s => prog'[c][r] = prog[c][r]
    BY <2>1 DEF IInv, TypeOK
  <2> QED
    BY <1>1, <2>2
<1>6. NoticeInv' /\ RunnerInv' /\ ForkInv'
  BY <1>1, <1>5, ProgramsStay DEF IInv
<1> QED
  BY <1>1, <1>2, <1>4, <1>6 DEF IInv, ParseInv, OutputInv, ReadInv, EndInv, PromptInv, Over

LEMMA ProgramWritesKeeps ==
    ASSUME IInv, NEW c \in Cmd, NEW s \in DOMAIN list[c], ProgramWrites(c, s)
    PROVE  IInv'
<1>1. /\ UNCHANGED <<shell, fg, sur, list, j, revents, runner, prog, shown, junk, interrupted>>
      /\ Cmd' = Cmd /\ prog[c][s] = "running"
  BY DEF ProgramWrites, user, watch, Cmd
<1>2. ~ Over /\ sur # "second"
  BY <1>1 DEF IInv, EndInv
<1>3. PICK kind \in list[c][s].out : Put(c, kind)
  BY DEF ProgramWrites
<1>4. kind \in {"text", "zero"} /\ kind \in Kind
  <2>1. list[c][s] \in Program
    <3>1. list[c] \in Seq(Program)
      BY Commands DEF IInv
    <3> QED
      BY <3>1, LenProperties, ElementOfSeq
  <2> QED
    BY <1>3, <2>1 DEF Program, Kind
<1>5. /\ written' \in [Cmd -> Seq(Kind)]
      /\ pipe' \in [Cmd -> Seq(Nat \ {0})] /\ \A d \in Cmd : Len(pipe'[d]) <= PipeSize
      /\ OutputInv' /\ ReadInv'
      /\ \A d \in Cmd \ {c} : written'[d] = written[d]
      /\ \A n \in DOMAIN written'[c] :
            (n \in DOMAIN written[c] /\ written'[c][n] = written[c][n]) \/ written'[c][n] = kind
  BY <1>1, <1>3, <1>4, PutKeeps
<1>6. TypeOK'
  BY <1>1, <1>5 DEF IInv, TypeOK
<1>7. NoticeInv'
  <2>1. NoticeInv /\ kind # "notice"
    BY <1>4 DEF IInv
  <2>2. \A d \in Cmd : \A n \in DOMAIN written'[d] : written'[d][n] = "notice" =>
           n \in DOMAIN written[d] /\ written[d][n] = "notice"
    BY <1>5, <2>1
  <2> QED
    BY <1>1, <2>1, <2>2 DEF NoticeInv
<1>8. ParseInv' /\ RunnerInv' /\ ForkInv' /\ EndInv' /\ PromptInv'
  BY <1>1, <1>2 DEF IInv, ParseInv, RunnerInv, ForkInv, EndInv, PromptInv, Over
<1> QED
  BY <1>5, <1>6, <1>7, <1>8 DEF IInv

\* Ctrl-C leaves nothing of the watch behind, or does nothing.
LEMMA CtrlCKeeps == IInv /\ CtrlC => IInv'
<1> SUFFICES ASSUME IInv, CtrlC PROVE IInv'
  OBVIOUS
<1>1. /\ UNCHANGED <<shell, fg, list, j, revents, written, pipe, shown, junk>>
      /\ Cmd' = Cmd /\ ~ Over /\ interrupted' \in BOOLEAN
  BY DEF CtrlC, user, watch, Cmd, IInv, TypeOK
<1>2. CASE UNCHANGED <<sur, runner, prog>>
  <2>1. TypeOK'
    BY <1>1, <1>2 DEF IInv, TypeOK
  <2>2. NoticeInv' /\ RunnerInv' /\ ForkInv'
    BY <1>1, <1>2 DEF IInv, NoticeInv, RunnerInv, ForkInv
  <2> QED
    BY <1>1, <1>2, <2>1, <2>2 DEF IInv, ParseInv, OutputInv, ReadInv, EndInv, PromptInv, Over
<1>3. CASE /\ sur' = "zombie"
           /\ runner' = [c \in Cmd |-> [runner[c] EXCEPT !.pc = "exited"]]
           /\ prog' = [c \in Cmd |-> [s \in DOMAIN prog[c] |-> "ended"]]
  <2>1. /\ runner' \in [Cmd -> [pc : Place, at : Nat \ {0}]]
        /\ \A c \in Cmd : runner'[c].pc = "exited"
    <3>1. \A c \in Cmd :
              [runner[c] EXCEPT !.pc = "exited"] = [pc |-> "exited", at |-> runner[c].at]
      BY DEF IInv, TypeOK
    <3>2. \A c \in Cmd : runner[c].at \in Nat \ {0}
      BY DEF IInv, TypeOK
    <3>3. runner' = [c \in Cmd |-> [pc |-> "exited", at |-> runner[c].at]]
      BY <1>3, <3>1
    <3>4. "exited" \in Place
      BY DEF Place
    <3> HIDE DEF IInv
    <3> QED
      BY <3>2, <3>3, <3>4
  <2>2. /\ DOMAIN prog' = Cmd
        /\ \A c \in Cmd : /\ DOMAIN prog[c] = DOMAIN list[c]
                          /\ prog'[c] = [s \in DOMAIN list[c] |-> "ended"]
    BY <1>3 DEF IInv, TypeOK
  <2>3. TypeOK'
    BY <1>1, <1>3, <2>1, <2>2 DEF IInv, TypeOK
  <2>4. EndInv'
    BY <1>1, <2>1, <2>2 DEF EndInv
  <2>5. shell \notin {"restore", "prompt"}
    BY <1>1 DEF IInv, PromptInv, Over
  <2>6. NoticeInv' /\ RunnerInv' /\ ForkInv'
    BY <1>1, <1>3, <2>1, <2>2 DEF IInv, NoticeInv, RunnerInv, Runs, ForkInv
  <2> QED
    BY <1>1, <1>3, <2>3, <2>4, <2>5, <2>6 DEF IInv, ParseInv, OutputInv, ReadInv, PromptInv
<1> QED
  BY <1>2, <1>3 DEF CtrlC

LEMMA CtrlZKeeps == IInv /\ CtrlZ => IInv'
<1> SUFFICES ASSUME IInv, CtrlZ PROVE IInv'
  OBVIOUS
<1>1. /\ UNCHANGED <<shell, fg, sur, list, j, revents, runner, written, pipe, shown, junk, interrupted>>
      /\ Cmd' = Cmd /\ ~ Over /\ sur # "second"
  BY DEF CtrlZ, user, watch, Cmd, Executing, Over
<1>2. /\ DOMAIN prog' = Cmd
      /\ \A c \in Cmd :
            prog'[c] \in [DOMAIN list[c] -> {"none", "new", "running", "stopped", "ended"}]
  BY DEF CtrlZ, IInv, TypeOK
<1>3. TypeOK'
  BY <1>1, <1>2 DEF IInv, TypeOK
<1>4. \A c \in Cmd : \A s \in DOMAIN list[c] :
         prog[c][s] \in {"none", "stopped", "ended"} => prog'[c][s] = prog[c][s]
  BY DEF CtrlZ, IInv, TypeOK
<1>5. NoticeInv' /\ RunnerInv' /\ ForkInv'
  BY <1>1, <1>4, ProgramsStay DEF IInv
<1> QED
  BY <1>1, <1>3, <1>5 DEF IInv, ParseInv, OutputInv, ReadInv, EndInv, PromptInv, Over

-----------------------------------------------------------------------------
(* The theorem.                                                            *)

LEMMA StepInv == IInv /\ [Next]_vars => IInv'
<1> SUFFICES ASSUME IInv, [Next]_vars PROVE IInv'
  OBVIOUS
<1>1. CASE SurrogateStep
  BY <1>1, UserKeeps, ParseKeeps, LoopKeeps, ReadPipeKeeps DEF SurrogateStep
<1>2. ASSUME NEW c \in Cmd, NEW s \in DOMAIN list[c], ProgramStep(c, s) PROVE IInv'
  BY <1>2, ProgramKeeps, ProgramWritesKeeps DEF ProgramStep
<1>3. CASE UNCHANGED vars
  <2>1. /\ shell' = shell /\ fg' = fg /\ sur' = sur /\ interrupted' = interrupted
        /\ list' = list /\ j' = j /\ revents' = revents /\ runner' = runner /\ prog' = prog
        /\ written' = written /\ pipe' = pipe /\ shown' = shown /\ junk' = junk /\ Cmd' = Cmd
    BY <1>3 DEF vars, user, watch, commands, Cmd
  <2> USE <2>1
  <2>2. TypeOK'
    <3>1. TypeOK
      BY DEF IInv
    <3> QED
      BY <3>1 DEF TypeOK
  <2>3. ParseInv' /\ OutputInv' /\ NoticeInv' /\ RunnerInv' /\ ForkInv'
    BY DEF IInv, ParseInv, OutputInv, NoticeInv, RunnerInv, ForkInv
  <2>4. ReadInv' /\ EndInv' /\ PromptInv'
    BY DEF IInv, ReadInv, EndInv, PromptInv, Over
  <2> QED
    BY <2>2, <2>3, <2>4 DEF IInv
<1>4. ASSUME NEW c \in Cmd, RunnerStep(c) PROVE IInv'
  BY <1>4, RunnerKeeps, RunnerPushesKeeps DEF RunnerStep
<1> QED
  BY <1>1, <1>2, <1>3, <1>4, UserKeeps, CtrlCKeeps, CtrlZKeeps DEF Next

\* However reads, writes and keys interleave, and however long the texts are:
\* under each command's name is shown, in order and once, what was written to its
\* pipe, as far as it is read and no zero cuts it off; what was written is the
\* programs' output and the runner's lines about a stage that has stopped; and the
\* shell prompts only over a watch of which nothing is left.
THEOREM WatchSafe == Spec => []WatchInv
<1>1. IInv => WatchInv
  BY DEF IInv, ReadInv, EndInv, PromptInv, WatchInv, TypeOK, Over
<1>2. Spec => []IInv
  BY InitInv, StepInv, PTL DEF Spec
<1> QED
  BY <1>1, <1>2, PTL
=============================================================================
