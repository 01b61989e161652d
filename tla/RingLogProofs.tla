--------------------------- MODULE RingLogProofs ---------------------------
(***************************************************************************)
(* PagesNotShared, ListsSound and RecordsKept of RingLog.tla, for any      *)
(* number of entries, logs, restarts and workers: however often entries    *)
(* are freed and handed out again, and whichever writes a kill leaves in   *)
(* the file.                                                               *)
(*                                                                         *)
(* There are three free lists to keep sound, the one the process follows   *)
(* and those that a restart would find in the file with and without its    *)
(* last page.  Each has a set of free pages that its links do not leave.   *)
(* The entries in use are linked in the order in which their logs came.    *)
(***************************************************************************)
EXTENDS RingLog, FiniteSetTheorems, SequenceTheorems, WellFoundedInduction, TLAPS

-----------------------------------------------------------------------------
(* What holds whoever writes and however often the node is killed: the     *)
(* counts of the header stay zero, and a log is written by one worker.     *)

Busy == {w \in Writers : writing[w] # NotWriting}

NumsZero ==
  \A h \in {head, file.head, flushed.head} : h.todoListNum = 0 /\ h.freeListNum = 0

(* A worker outside mtx_ writes the log it was given a page for.           *)
Owners ==
  /\ \A w \in Busy : LET l == writing[w].body.log
                     IN  phase[l] = "writing" /\ addr[l] = writing[w].addr
  /\ \A v, w \in Busy : writing[v].body.log = writing[w].body.log => v = w
  /\ \A l \in Logs :
       /\ phase[l] = "writing" => \E w \in Busy : writing[w].body.log = l
       /\ phase[l] \in {"writing", "held"} => addr[l] # Nowhere
       /\ phase[l] \in {"new", "freed"} => addr[l] = Nowhere

-----------------------------------------------------------------------------
(* From here on entries are written one at a time and the free list has    *)
(* not run out.                                                            *)

Orderly == alone /\ ~spent

InUse(l) == phase[l] \in {"writing", "held"}
Live == {l \in Logs : InUse(l)}
Used == {addr[l] : l \in Live}

(* The logs that have an entry, and those whose entry was written.         *)
Placed == {l \in Logs : addr[l] # Nowhere}
Settled == {l \in Placed : phase[l] # "writing"}

NotShared == \A l, m \in Logs : addr[l] = addr[m] /\ addr[l] # Nowhere => l = m

(* The one worker that writes has the entry at todoList, and the stream    *)
(* stands where it is about to write.                                      *)
TheWriter ==
  /\ \A v, w \in Busy : v = w
  /\ \A w \in Busy :
       /\ writing[w].addr = head.todoList
       /\ writing[w].seeked => pos = writing[w].addr /\ flushed = file

Ring ==
  /\ NotShared /\ TheWriter
  /\ \A l \in Logs : addr[l] # 0
  /\ \A k, l \in Logs : k < l /\ phase[k] = "new" => phase[l] = "new"

-----------------------------------------------------------------------------
(* The free list that header h starts in file f.                           *)

Goes(h, f, p) == p # h.freeListEnd /\ f.page[p].nxt # 0

(* Its pages are among S, no two of them link to the same page and none    *)
(* links to the first.  Page 0 is on no list.                              *)
Chain(h, f, S) ==
  /\ S \subseteq 1..N /\ h.freeList \in S /\ h.freeListEnd # 0
  /\ \A p \in S : Goes(h, f, p) => f.page[p].nxt \in S \ {h.freeList}
  /\ \A p, q \in S : Goes(h, f, p) /\ Goes(h, f, q) /\ f.page[p].nxt = f.page[q].nxt => p = q
  /\ f.page[0].nxt = 0

(* None of them belongs to one of the logs L.  Page 1, over which FreeLog  *)
(* writes the header, leads on only until it is first taken.               *)
Fits(h, f, S, L) ==
  /\ Chain(h, f, S)
  /\ h.todoList \notin S \/ h.todoList = 1
  /\ \A l \in L : addr[l] \notin S
  /\ 1 \in S /\ Goes(h, f, 1) =>
       /\ h.freeList = 1 /\ h.todoList = 0 /\ f.page[0].pre = 0
       /\ \A l \in L : ~InUse(l)

-----------------------------------------------------------------------------
(* The list of entries in use: the logs of L, which have the entries at.   *)

First(L, l) == \A k \in L : l <= k
Last(L, l) == \A k \in L : k <= l
JustBelow(L, m, l) == m \in L /\ m < l /\ \A k \in L : k < l => k <= m
JustAbove(L, m, l) == m \in L /\ l < m /\ \A k \in L : l < k => m <= k

(* The link of a log leads to the log before it, that of the first leaves  *)
(* the list for one of the pages E.                                        *)
Below(L, at, E, l, n) ==
  \/ \E m \in L : JustBelow(L, m, l) /\ n = at[m]
  \/ First(L, l) /\ n \in E

(* Its predecessor is the log after it; the last names the page to be      *)
(* taken next.                                                             *)
Above(L, at, free, l, p) ==
  \/ \E m \in L : JustAbove(L, m, l) /\ p = at[m]
  \/ Last(L, l) /\ p = free

(* Nothing, or page 1, or, after a kill, a page that was in use before it. *)
Elsewhere(S) ==
  {n \in Pages : n \notin Used /\ (n \in {0, 1} \/ (kills > 0 /\ n \notin S))}

Overwritten(a, f) == a = 1 /\ f.page[1].pre = 0 /\ f.page[1].nxt = 0

Top(S) ==
  \/ Live = {} /\ head.todoList \in Elsewhere(S)
  \/ \E l \in Live : Last(Live, l) /\ addr[l] = head.todoList

(* todoList is the last, each entry links to its neighbours, and freed     *)
(* pages are not appended to one of them.  FreeLog overwrites page 1.      *)
Links(S) ==
  /\ Top(S)
  /\ head.nxt = 0 /\ head.freeListEnd \notin Used
  /\ 1 \in Used \/ (1 \in S /\ Goes(head, file, 1)) => head.pre = 0
  /\ \A l \in Live : addr[l] = 1 => First(Live, l)
  /\ \A l \in Live : phase[l] = "held" =>
       /\ Below(Live, addr, Elsewhere(S), l, file.page[addr[l]].nxt)
       /\ \/ Overwritten(addr[l], file)
          \/ Above(Live, addr, head.freeList, l, file.page[addr[l]].pre)
  /\ \A w \in Busy : LET m == writing[w].body.log
                     IN  /\ Below(Live, addr, Elsewhere(S), m, writing[w].body.nxt)
                         /\ Last(Live, m) /\ writing[w].body.pre = head.freeList

-----------------------------------------------------------------------------
InMemory == \E S \in SUBSET Pages : Fits(head, file, S, Placed) /\ Links(S)

(* freeListEnd in memory may be ahead of the header in the file.           *)
OnFile ==
  \E S \in SUBSET Pages :
    /\ Fits(file.head, file, S, Placed)
    /\ head.freeListEnd = file.head.freeListEnd \/ head.freeListEnd \notin S

OnDisk == \E S \in SUBSET Pages : Fits(flushed.head, flushed, S, Settled)

(* What the page still in the stream's buffer can add to the loss.         *)
UnreadableIn(f) ==
  {l \in Logs : /\ phase[l] \in {"held", "orphan"} /\ addr[l] \notin {1, Nowhere}
                /\ f.page[addr[l]].log # l}

LastWritten == \E x \in Logs \cup {Blank} : UnreadableIn(flushed) \subseteq UnreadableIn(file) \cup {x}

Basics == TypeOK /\ NumsZero /\ Owners
Apart == Orderly => Ring /\ InMemory /\ OnFile /\ OnDisk
Records == RecordsKept /\ (Orderly => LastWritten)

(* The inductive invariant.  The three properties need all of it: a page   *)
(* is not shared because the one taken next belongs to no log, and it      *)
(* stays so because FreeLog writes to the neighbours that Links names; the *)
(* others' records stay because pages are not shared.                      *)
IInv == Basics /\ Apart /\ Records

-----------------------------------------------------------------------------
(* What is written where.                                                  *)

LEMMA PageNumbers ==
  /\ N \in Nat /\ N >= 1 /\ MaxLogs \in Nat /\ Pages = 0..N /\ Logs = 1..MaxLogs
  /\ 0 \in Pages /\ 1 \in Pages /\ Nowhere \notin Pages
BY RingAssumption DEF Pages, Logs, Nowhere

LEMMA PutBodyPuts ==
  ASSUME NEW f \in LogFile, NEW a \in Pages, NEW body \in Body
  PROVE  /\ PutBody(f, a, body) \in LogFile /\ PutBody(f, a, body).head = f.head
         /\ \A p \in Pages : PutBody(f, a, body).page[p] = IF p = a THEN body ELSE f.page[p]
BY DEF PutBody, LogFile

Overlaid(h) == [log |-> Blank, pre |-> h.pre, nxt |-> h.nxt]

LEMMA PutHeadPuts ==
  ASSUME NEW f \in LogFile, NEW a \in Pages, NEW h \in Header
  PROVE  /\ PutHead(f, a, h) \in LogFile
         /\ PutHead(f, a, h).head = IF a = 0 THEN h ELSE f.head
         /\ \A p \in Pages :
              PutHead(f, a, h).page[p] = IF p = a THEN Overlaid(h) ELSE f.page[p]
<1>1. Overlaid(h) \in Body
  BY DEF Overlaid, Body, Header
<1>2. CASE a = 0
  BY <1>1, <1>2, PageNumbers DEF PutHead, LogFile, Overlaid
<1>3. CASE a # 0
  BY <1>1, <1>3 DEF PutHead, LogFile, Overlaid
<1>. QED
  BY <1>2, <1>3

LEMMA FileParts ==
  ASSUME NEW f \in LogFile
  PROVE  /\ f.head \in Header /\ GetHead(f) \in Header
         /\ GetHead(f).freeList = f.head.freeList
         /\ GetHead(f).freeListEnd = f.head.freeListEnd
         /\ GetHead(f).todoList = f.head.todoList
         /\ GetHead(f).pre = f.page[0].pre /\ GetHead(f).nxt = f.page[0].nxt
         /\ GetHead(f).todoListNum = f.head.todoListNum
         /\ GetHead(f).freeListNum = f.head.freeListNum
         /\ \A p \in Pages : f.page[p] \in Body
BY PageNumbers DEF LogFile, GetHead, Header, Body

LEMMA Redone ==
  ASSUME NEW f \in LogFile, f.head.todoListNum = 0
  PROVE  RedoTask(f) = GetHead(f)
<1>1. GetHead(f) \in Header /\ GetHead(f).todoListNum = 0
  BY FileParts
<1>. QED
  BY <1>1 DEF RedoTask, Header

-----------------------------------------------------------------------------
(* FreeLog's writes, one after another.                                    *)

Unlink1(a) ==
  LET cur == file.page[a]
  IN  PutBody(file, cur.nxt, [file.page[cur.nxt] EXCEPT !.pre = cur.pre])

Unlink2(a) ==
  LET cur == file.page[a]
  IN  PutBody(Unlink1(a), cur.pre, [Unlink1(a).page[cur.pre] EXCEPT !.nxt = cur.nxt])

UnlinkDone(a) == IF head.todoList = a THEN Unlink1(a) ELSE Unlink2(a)

Appended(a) ==
  PutBody(UnlinkDone(a), head.freeListEnd, [UnlinkDone(a).page[head.freeListEnd] EXCEPT !.nxt = a])

Blanked(a) ==
  PutBody(Appended(a), a, [log |-> Blank, pre |-> head.freeListEnd, nxt |-> 0])

Freed(a) == PutHead(Blanked(a), 1, HeadAfterFree(a, file.page[a]))

LEMMA ThreeMore ==
  ASSUME NEW S, NEW s \in Seq(S), NEW x \in S, NEW y \in S, NEW z \in S
  PROVE  /\ Len(s \o <<x, y, z>>) = Len(s) + 3 /\ Len(s) \in Nat
         /\ (s \o <<x, y, z>>)[Len(s) + 3] = z
         /\ (s \o <<x, y, z>>)[Len(s) + 2] = y
         /\ (s \o <<x, y, z>>)[Len(s) + 1] = x
         /\ \A i \in 1..Len(s) : (s \o <<x, y, z>>)[i] = s[i]
<1> DEFINE t == <<x, y, z>>
<1>1. t \in Seq(S) /\ Len(t) = 3 /\ t[1] = x /\ t[2] = y /\ t[3] = z
  OBVIOUS
<1>2. Len(s) \in Nat
  BY LenProperties
<1>. HIDE DEF t
<1>3. /\ Len(s \o t) = Len(s) + Len(t)
      /\ \A i \in 1..(Len(s) + Len(t)) :
           (s \o t)[i] = IF i <= Len(s) THEN s[i] ELSE t[i - Len(s)]
  BY <1>1, ConcatProperties
<1>4. /\ Len(s \o t) = Len(s) + 3
      /\ (s \o t)[Len(s) + 3] = z
      /\ (s \o t)[Len(s) + 2] = y
      /\ (s \o t)[Len(s) + 1] = x
      /\ \A i \in 1..Len(s) : (s \o t)[i] = s[i]
  BY <1>1, <1>2, <1>3
<1>. QED
  BY <1>2, <1>4 DEF t

(* What the file holds after the last write, before it, and earlier.       *)
LEMMA FreeStepsAre ==
  ASSUME NumsZero, NEW a
  PROVE  /\ FreeSteps(a)[Len(FreeSteps(a))] = Freed(a)
         /\ FreeSteps(a)[Len(FreeSteps(a)) - 1] = Blanked(a)
         /\ \A i \in 2..(Len(FreeSteps(a)) - 2) :
              FreeSteps(a)[i] \in {Unlink1(a), UnlinkDone(a), Appended(a)}
<1> DEFINE u == Unlinked(a, file.page[a])
           s == <<file>> \o u
           S == {file, Unlink1(a), Unlink2(a), Appended(a), Blanked(a), Freed(a)}
<1>1. ~SoleEntry(a)
  BY DEF SoleEntry, NumsZero
<1>2. /\ u \in Seq(S) /\ Len(u) \in Nat \ {0}
      /\ \A i \in 1..Len(u) : u[i] \in {Unlink1(a), UnlinkDone(a)}
      /\ u[Len(u)] = UnlinkDone(a)
  <2>1. CASE head.todoList = a
    <3>1. u = <<Unlink1(a)>>
      BY <1>1, <2>1 DEF Unlinked, Unlink1
    <3>. QED
      BY <2>1, <3>1 DEF UnlinkDone
  <2>2. CASE head.todoList # a
    <3>1. u = <<Unlink1(a), Unlink2(a)>>
      BY <1>1, <2>2 DEF Unlinked, Unlink1, Unlink2
    <3>. QED
      BY <2>2, <3>1 DEF UnlinkDone
  <2>. QED
    BY <2>1, <2>2
<1>3. /\ s \in Seq(S) /\ Len(s) = 1 + Len(u) /\ Len(s) \in Nat
      /\ \A i \in 2..Len(s) : s[i] \in {Unlink1(a), UnlinkDone(a)}
      /\ s[Len(s)] = UnlinkDone(a)
  <2> DEFINE f == <<file>>
  <2>1. f \in Seq(S) /\ Len(f) = 1
    OBVIOUS
  <2>. HIDE DEF f, u, S
  <2>2. /\ f \o u \in Seq(S) /\ Len(f \o u) = Len(f) + Len(u)
        /\ \A i \in 1..(Len(f) + Len(u)) : (f \o u)[i] = IF i <= Len(f) THEN f[i] ELSE u[i - Len(f)]
    BY <1>2, <2>1, ConcatProperties
  <2>3. /\ f \o u \in Seq(S) /\ Len(f \o u) = 1 + Len(u) /\ 1 + Len(u) \in Nat
        /\ \A i \in 2..(1 + Len(u)) : (f \o u)[i] = u[i - 1] /\ i - 1 \in 1..Len(u)
        /\ 1 + Len(u) \in 2..(1 + Len(u)) /\ (1 + Len(u)) - 1 = Len(u)
    BY <1>2, <2>1, <2>2
  <2>4. s = f \o u
    BY DEF f
  <2>. HIDE DEF s
  <2>. QED
    BY <1>2, <2>3, <2>4
<1>. HIDE DEF u
<1>4. s[Len(s)] = UnlinkDone(a) => FreeSteps(a) = s \o <<Appended(a), Blanked(a), Freed(a)>>
  BY DEF FreeSteps, Appended, Blanked, Freed, u
<1>5. /\ Appended(a) \in S /\ Blanked(a) \in S /\ Freed(a) \in S
  OBVIOUS
<1>. HIDE DEF s, S
<1>6. FreeSteps(a) = s \o <<Appended(a), Blanked(a), Freed(a)>>
  BY <1>3, <1>4
<1>7. /\ Len(FreeSteps(a)) = Len(s) + 3
      /\ FreeSteps(a)[Len(s) + 3] = Freed(a) /\ FreeSteps(a)[Len(s) + 2] = Blanked(a)
      /\ FreeSteps(a)[Len(s) + 1] = Appended(a)
      /\ \A i \in 1..Len(s) : FreeSteps(a)[i] = s[i]
  BY <1>3, <1>5, <1>6, ThreeMore
<1>8. ASSUME NEW i \in 2..(Len(s) + 1)
      PROVE FreeSteps(a)[i] \in {Unlink1(a), UnlinkDone(a), Appended(a)}
  <2>1. CASE i = Len(s) + 1
    BY <1>7, <2>1
  <2>2. CASE i # Len(s) + 1
    <3>1. i \in 2..Len(s) /\ i \in 1..Len(s)
      BY <1>3, <2>2
    <3>. QED
      BY <1>3, <1>7, <3>1
  <2>. QED
    BY <2>1, <2>2
<1>9. (Len(s) + 3) - 1 = Len(s) + 2 /\ (Len(s) + 3) - 2 = Len(s) + 1
  BY <1>3
<1>. QED
  BY <1>7, <1>8, <1>9

-----------------------------------------------------------------------------
(* What each write of FreeLog changes on which page.                       *)

Pre(a) == file.page[a].pre
Nxt(a) == file.page[a].nxt

LEMMA Links1 ==
  ASSUME TypeOK, NEW a \in Pages
  PROVE  /\ file \in LogFile /\ head.freeListEnd \in Pages
         /\ file.page[a] \in Body /\ Pre(a) \in Pages /\ Nxt(a) \in Pages
BY FileParts DEF TypeOK, Pre, Nxt, Body, Header

LEMMA HeadParts ==
  ASSUME TypeOK
  PROVE  /\ head \in Header /\ head.todoList \in Pages /\ head.freeList \in Pages
         /\ head.freeListEnd \in Pages /\ head.pre \in Pages /\ head.nxt \in Pages
BY DEF TypeOK, Header

LEMMA PrePut ==
  ASSUME NEW b \in Body, NEW p \in Pages
  PROVE  /\ [b EXCEPT !.pre = p] \in Body /\ [b EXCEPT !.pre = p].pre = p
         /\ [b EXCEPT !.pre = p].nxt = b.nxt /\ [b EXCEPT !.pre = p].log = b.log
         /\ [b EXCEPT !.nxt = p] \in Body /\ [b EXCEPT !.nxt = p].nxt = p
         /\ [b EXCEPT !.nxt = p].pre = b.pre /\ [b EXCEPT !.nxt = p].log = b.log
BY DEF Body

LEMMA Unlink1Pages ==
  ASSUME TypeOK, NEW a \in Pages
  PROVE  /\ Unlink1(a) \in LogFile /\ Unlink1(a).head = file.head
         /\ \A p \in Pages : /\ Unlink1(a).page[p].log = file.page[p].log
                             /\ Unlink1(a).page[p].nxt = Nxt(p)
                             /\ Unlink1(a).page[p].pre = IF p = Nxt(a) THEN Pre(a) ELSE Pre(p)
<1> DEFINE b == [file.page[Nxt(a)] EXCEPT !.pre = Pre(a)]
<1>1. /\ b \in Body /\ b.pre = Pre(a)
      /\ b.nxt = Nxt(Nxt(a)) /\ b.log = file.page[Nxt(a)].log
  BY Links1, PrePut DEF Nxt
<1>2. Unlink1(a) = PutBody(file, Nxt(a), b)
  BY DEF Unlink1, Nxt, Pre
<1>. HIDE DEF b
<1>3. /\ PutBody(file, Nxt(a), b) \in LogFile /\ PutBody(file, Nxt(a), b).head = file.head
      /\ \A p \in Pages : PutBody(file, Nxt(a), b).page[p] = IF p = Nxt(a) THEN b ELSE file.page[p]
  BY <1>1, Links1, PutBodyPuts
<1>. QED
  BY <1>1, <1>2, <1>3 DEF Nxt, Pre

LEMMA UnlinkDonePages ==
  ASSUME TypeOK, NEW a \in Pages
  PROVE  /\ UnlinkDone(a) \in LogFile /\ UnlinkDone(a).head = file.head
         /\ \A p \in Pages :
              /\ UnlinkDone(a).page[p].log = file.page[p].log
              /\ UnlinkDone(a).page[p].nxt
                   = IF head.todoList # a /\ p = Pre(a) THEN Nxt(a) ELSE Nxt(p)
              /\ UnlinkDone(a).page[p].pre = IF p = Nxt(a) THEN Pre(a) ELSE Pre(p)
<1>1. CASE head.todoList = a
  BY <1>1, Unlink1Pages DEF UnlinkDone
<1>2. CASE head.todoList # a
  <2> DEFINE f == Unlink1(a)
             b == [f.page[Pre(a)] EXCEPT !.nxt = Nxt(a)]
  <2>1. f.page[Pre(a)] \in Body
    BY Links1, Unlink1Pages, FileParts
  <2>2. b \in Body /\ b.nxt = Nxt(a) /\ b.pre = f.page[Pre(a)].pre /\ b.log = f.page[Pre(a)].log
    BY <2>1, Links1, PrePut
  <2>3. UnlinkDone(a) = PutBody(f, Pre(a), b)
    BY <1>2 DEF UnlinkDone, Unlink2, Nxt, Pre
  <2>. HIDE DEF b
  <2>4. /\ UnlinkDone(a) \in LogFile /\ UnlinkDone(a).head = f.head
        /\ \A p \in Pages : UnlinkDone(a).page[p] = IF p = Pre(a) THEN b ELSE f.page[p]
    <3>1. f \in LogFile /\ Pre(a) \in Pages
      BY Links1, Unlink1Pages
    <3>. HIDE DEF f
    <3>2. /\ PutBody(f, Pre(a), b) \in LogFile /\ PutBody(f, Pre(a), b).head = f.head
          /\ \A p \in Pages : PutBody(f, Pre(a), b).page[p] = IF p = Pre(a) THEN b ELSE f.page[p]
      BY <2>2, <3>1, PutBodyPuts
    <3>. QED
      BY <2>3, <3>2
  <2>5. /\ f.head = file.head /\ Pre(a) \in Pages
        /\ \A p \in Pages :
             /\ f.page[p].log = file.page[p].log /\ f.page[p].nxt = Nxt(p)
             /\ f.page[p].pre = IF p = Nxt(a) THEN Pre(a) ELSE Pre(p)
    BY Links1, Unlink1Pages
  <2>. HIDE DEF f
  <2>. QED
    BY <1>2, <2>2, <2>4, <2>5
<1>. QED
  BY <1>1, <1>2

LEMMA AppendedPages ==
  ASSUME TypeOK, NEW a \in Pages
  PROVE  /\ Appended(a) \in LogFile /\ Appended(a).head = file.head
         /\ \A p \in Pages :
              /\ Appended(a).page[p].log = file.page[p].log
              /\ Appended(a).page[p].nxt
                   = IF p = head.freeListEnd THEN a ELSE UnlinkDone(a).page[p].nxt
              /\ Appended(a).page[p].pre = UnlinkDone(a).page[p].pre
<1> DEFINE f == UnlinkDone(a)
           end == head.freeListEnd
           b == [f.page[end] EXCEPT !.nxt = a]
<1>1. f \in LogFile /\ end \in Pages /\ f.page[end] \in Body
  BY Links1, UnlinkDonePages, FileParts
<1>2. b \in Body /\ b.nxt = a /\ b.pre = f.page[end].pre /\ b.log = f.page[end].log
  BY <1>1, PrePut
<1>3. Appended(a) = PutBody(f, end, b)
  BY DEF Appended
<1>. HIDE DEF b, f, end
<1>4. /\ Appended(a) \in LogFile /\ Appended(a).head = f.head
      /\ \A p \in Pages : Appended(a).page[p] = IF p = end THEN b ELSE f.page[p]
  <2>1. /\ PutBody(f, end, b) \in LogFile /\ PutBody(f, end, b).head = f.head
        /\ \A p \in Pages : PutBody(f, end, b).page[p] = IF p = end THEN b ELSE f.page[p]
    BY <1>1, <1>2, PutBodyPuts
  <2>. QED
    BY <1>3, <2>1
<1>. QED
  BY <1>1, <1>2, <1>4, UnlinkDonePages DEF f, end

LEMMA BlankedPages ==
  ASSUME TypeOK, NEW a \in Pages
  PROVE  /\ Blanked(a) \in LogFile /\ Blanked(a).head = file.head
         /\ \A p \in Pages \ {a} : Blanked(a).page[p] = Appended(a).page[p]
         /\ Blanked(a).page[a].nxt = 0
<1> DEFINE b == [log |-> Blank, pre |-> head.freeListEnd, nxt |-> 0]
<1>1. b \in Body /\ b.nxt = 0
  BY Links1, PageNumbers DEF Body
<1>. HIDE DEF b
<1>2. Blanked(a) = PutBody(Appended(a), a, b)
  BY DEF Blanked, b
<1>. QED
  BY <1>1, <1>2, AppendedPages, PutBodyPuts

LEMMA HeadFreed ==
  ASSUME TypeOK, NumsZero, NEW a \in Pages
  PROVE  LET h == HeadAfterFree(a, file.page[a])
         IN  /\ h \in Header
             /\ h.todoList = IF head.todoList = a THEN Nxt(a) ELSE head.todoList
             /\ h.freeListEnd = a /\ h.freeList = head.freeList
             /\ h.pre = head.pre /\ h.nxt = head.nxt
             /\ h.todoListNum = 0 /\ h.freeListNum = 0
<1>1. head \in Header /\ head.todoListNum = 0 /\ head.freeListNum = 0
  BY DEF TypeOK, NumsZero
<1>2. ~SoleEntry(a)
  BY <1>1 DEF SoleEntry
<1>. QED
  BY <1>1, <1>2, Links1 DEF HeadAfterFree, Header, Nxt

LEMMA FreedPages ==
  ASSUME TypeOK, NumsZero, NEW a \in Pages
  PROVE  /\ Freed(a) \in LogFile /\ Freed(a).head = file.head
         /\ \A p \in Pages \ {1} : Freed(a).page[p] = Blanked(a).page[p]
         /\ Freed(a).page[1].pre = head.pre /\ Freed(a).page[1].nxt = head.nxt
<1> DEFINE h == HeadAfterFree(a, file.page[a])
<1>1. h \in Header /\ h.pre = head.pre /\ h.nxt = head.nxt
  BY HeadFreed
<1>2. Freed(a) = PutHead(Blanked(a), 1, h)
  BY DEF Freed
<1>. HIDE DEF h
<1>3. /\ PutHead(Blanked(a), 1, h) \in LogFile
      /\ PutHead(Blanked(a), 1, h).head = IF 1 = 0 THEN h ELSE Blanked(a).head
      /\ \A p \in Pages :
           PutHead(Blanked(a), 1, h).page[p] = IF p = 1 THEN Overlaid(h) ELSE Blanked(a).page[p]
  BY <1>1, PageNumbers, BlankedPages, PutHeadPuts
<1>4. Overlaid(h).pre = head.pre /\ Overlaid(h).nxt = head.nxt
  BY <1>1 DEF Overlaid
<1>. QED
  BY <1>2, <1>3, <1>4, PageNumbers, BlankedPages

(* Every write leaves the records of the other pages, and links on all but *)
(* two of them.                                                            *)
Writes(a) == {Unlink1(a), UnlinkDone(a), Appended(a), Blanked(a), Freed(a)}

LEMMA WritesLeave ==
  ASSUME TypeOK, NumsZero, NEW a \in Pages, NEW s \in Writes(a)
  PROVE  /\ s \in LogFile /\ s.head = file.head
         /\ \A p \in Pages \ {a, 1} : s.page[p].log = file.page[p].log
         /\ \A p \in Pages \ {a} :
              \/ s.page[p].nxt = Nxt(p)
              \/ p = head.freeListEnd
              \/ head.todoList # a /\ p = Pre(a) /\ s.page[p].nxt = Nxt(a)
              \/ p = 1 /\ s.page[p].nxt = head.nxt
<1>1. /\ s \in LogFile /\ s.head = file.head
      /\ \A p \in Pages \ {a, 1} :
           s.page[p] \in {Unlink1(a).page[p], UnlinkDone(a).page[p], Appended(a).page[p]}
      /\ \A p \in Pages \ {a} :
           \/ s.page[p] \in {Unlink1(a).page[p], UnlinkDone(a).page[p], Appended(a).page[p]}
           \/ p = 1 /\ s.page[p].nxt = head.nxt
  BY Unlink1Pages, UnlinkDonePages, AppendedPages, BlankedPages, FreedPages DEF Writes
<1>2. ASSUME NEW p \in Pages, NEW t \in {Unlink1(a), UnlinkDone(a), Appended(a)}
      PROVE  /\ t.page[p].log = file.page[p].log
             /\ \/ t.page[p].nxt = Nxt(p)
                \/ p = head.freeListEnd
                \/ head.todoList # a /\ p = Pre(a) /\ t.page[p].nxt = Nxt(a)
  BY Unlink1Pages, UnlinkDonePages, AppendedPages
<1>. QED
  BY <1>1, <1>2

(* The links of the other entries after the last write.                    *)
LEMMA FreedLinks ==
  ASSUME TypeOK, NumsZero, NEW a \in Pages, NEW b \in Pages \ {a, 1}
  PROVE  /\ Freed(a).page[b].nxt
              = IF b = head.freeListEnd THEN a
                ELSE IF head.todoList # a /\ b = Pre(a) THEN Nxt(a) ELSE Nxt(b)
         /\ Freed(a).page[b].pre = IF b = Nxt(a) THEN Pre(a) ELSE Pre(b)
<1>1. Freed(a).page[b] = Appended(a).page[b]
  BY FreedPages, BlankedPages
<1>. QED
  BY <1>1, AppendedPages, UnlinkDonePages

-----------------------------------------------------------------------------
(* What the workers' steps do.                                             *)

LEMMA BusyFacts ==
  ASSUME TypeOK
  PROVE  /\ \A w \in Writers :
              /\ w \in Busy <=> writing[w].addr # Nowhere
              /\ w \in Busy => /\ writing[w] \in Entries /\ writing[w].addr \in Pages
                               /\ writing[w].body.log \in Logs /\ writing[w].body \in Body
              /\ writing[w].seeked => w \in Busy
         /\ NobodyWrites <=> Busy = {}
<1>1. ASSUME NEW w \in Writers
      PROVE  /\ w \in Busy <=> writing[w].addr # Nowhere
             /\ w \in Busy => /\ writing[w] \in Entries /\ writing[w].addr \in Pages
                              /\ writing[w].body.log \in Logs /\ writing[w].body \in Body
             /\ writing[w].seeked => w \in Busy
  <2>1. writing[w] = NotWriting \/ writing[w] \in Entries
    BY DEF TypeOK
  <2>2. CASE writing[w] = NotWriting
    BY <2>2 DEF NotWriting, Busy
  <2>3. CASE writing[w] \in Entries
    <3>1. writing[w].addr \in Pages /\ writing[w].addr # Nowhere
      BY <2>3, PageNumbers DEF Entries
    <3>2. writing[w] # NotWriting
      BY <3>1 DEF NotWriting
    <3>3. writing[w].body \in [log : Logs, pre : Pages, nxt : Pages]
      BY <2>3 DEF Entries
    <3>4. writing[w].body.log \in Logs /\ writing[w].body \in Body
      BY <3>3 DEF Body
    <3>. QED
      BY <2>3, <3>1, <3>2, <3>4 DEF Busy
  <2>. QED
    BY <2>1, <2>2, <2>3
<1>. QED
  BY <1>1 DEF NobodyWrites, Busy

LEMMA TakeFacts ==
  ASSUME TypeOK, NEW w \in Writers, NEW l \in Logs, GetFreebody(w, l)
  PROVE  /\ head' \in Header
         /\ head'.freeList = Nxt(head.freeList) /\ head'.todoList = head.freeList
         /\ head'.freeListEnd = head.freeListEnd
         /\ head'.pre = head.pre /\ head'.nxt = head.nxt
         /\ head'.todoListNum = head.todoListNum /\ head'.freeListNum = head.freeListNum
         /\ file' \in LogFile /\ file'.head = head' /\ flushed' = file
         /\ file'.page[0].pre = head.pre /\ file'.page[0].nxt = head.nxt
         /\ \A p \in Pages \ {0} : file'.page[p] = file.page[p]
         /\ file'.page[0].log = Blank
         /\ writing'[w] \in Entries /\ writing'[w].addr = head.freeList /\ ~writing'[w].seeked
         /\ writing'[w].body.log = l /\ writing'[w].body.pre = Nxt(head.freeList)
         /\ writing'[w].body.nxt = head.todoList
         /\ \A v \in Writers \ {w} : writing'[v] = writing[v]
         /\ writing' \in [Writers -> {NotWriting} \cup Entries]
         /\ w \notin Busy /\ Busy' = Busy \cup {w}
<1> DEFINE free == file.page[head.freeList]
           e == [addr |-> head.freeList, seeked |-> FALSE,
                 body |-> [log |-> l, pre |-> free.nxt, nxt |-> head.todoList]]
<1>1. /\ head \in Header /\ head.freeList \in Pages /\ head.todoList \in Pages
      /\ free.nxt \in Pages /\ free.nxt = Nxt(head.freeList)
      /\ writing \in [Writers -> {NotWriting} \cup Entries]
      /\ file \in LogFile
  <2>1. head \in Header /\ head.freeList \in Pages /\ head.todoList \in Pages
    BY DEF TypeOK, Header
  <2>. QED
    BY <2>1, Links1 DEF TypeOK, Nxt
<1>2. head' = [head EXCEPT !.freeList = free.nxt, !.todoList = head.freeList]
  BY DEF GetFreebody, HeadAfterTaking
<1>3. /\ head' \in Header
      /\ head'.freeList = free.nxt /\ head'.todoList = head.freeList
      /\ head'.freeListEnd = head.freeListEnd
      /\ head'.pre = head.pre /\ head'.nxt = head.nxt
      /\ head'.todoListNum = head.todoListNum /\ head'.freeListNum = head.freeListNum
  BY <1>1, <1>2 DEF Header
<1>4. /\ file' \in LogFile /\ file'.head = head' /\ file'.page[0] = Overlaid(head')
      /\ \A p \in Pages \ {0} : file'.page[p] = file.page[p]
  <2> DEFINE h == head'
             g == PutHead(file, 0, h)
             o == Overlaid(h)
  <2>1. file' = g
    BY DEF GetFreebody, HeaderSaved
  <2>2. file \in LogFile /\ 0 \in Pages /\ h \in Header
    BY <1>1, <1>3, PageNumbers
  <2>. HIDE DEF h
  <2>3. /\ g \in LogFile /\ g.head = h
        /\ \A p \in Pages : g.page[p] = IF p = 0 THEN o ELSE file.page[p]
    BY ONLY <2>2, PutHeadPuts
  <2>. HIDE DEF g, o
  <2>4. file'.page[0] = o /\ \A p \in Pages \ {0} : file'.page[p] = file.page[p]
    BY ONLY <2>1, <2>2, <2>3
  <2>. QED
    BY <2>1, <2>3, <2>4 DEF h, o
<1>5. Overlaid(head').pre = head.pre /\ Overlaid(head').nxt = head.nxt /\ Overlaid(head').log = Blank
  BY <1>3 DEF Overlaid
<1>6. writing' = [writing EXCEPT ![w] = e]
  BY DEF GetFreebody, LinksOfNew
<1>7. /\ e \in Entries /\ e.addr = head.freeList /\ ~e.seeked
      /\ e.body.log = l /\ e.body.pre = free.nxt /\ e.body.nxt = head.todoList
  BY <1>1 DEF Entries
<1>8. e # NotWriting
  <2>1. e.addr # Nowhere
    BY <1>1, <1>7, PageNumbers
  <2>. QED
    BY <2>1 DEF NotWriting
<1>. HIDE DEF e
<1>9. /\ writing'[w] = e /\ \A v \in Writers \ {w} : writing'[v] = writing[v]
      /\ writing' \in [Writers -> {NotWriting} \cup Entries]
  BY <1>1, <1>6, <1>7
<1>10. w \notin Busy /\ Busy' = Busy \cup {w}
  <2>1. writing[w] = NotWriting
    BY DEF GetFreebody
  <2>. QED
    BY <1>8, <1>9, <2>1 DEF Busy
<1>11. flushed' = file
  BY DEF GetFreebody
<1>. QED
  BY <1>1, <1>3, <1>4, <1>5, <1>7, <1>9, <1>10, <1>11

LEMMA SeekFacts ==
  ASSUME TypeOK, NEW w \in Writers, SeekBody(w)
  PROVE  /\ w \in Busy /\ Busy' = Busy
         /\ writing'[w] \in Entries /\ writing'[w].addr = writing[w].addr
         /\ writing'[w].body = writing[w].body /\ writing'[w].seeked
         /\ \A v \in Writers \ {w} : writing'[v] = writing[v]
         /\ writing' \in [Writers -> {NotWriting} \cup Entries]
         /\ pos' = writing[w].addr /\ flushed' = file
<1> DEFINE e == [writing[w] EXCEPT !.seeked = TRUE]
<1>1. w \in Busy /\ writing[w] \in Entries /\ writing[w].addr \in Pages
  BY BusyFacts DEF SeekBody
<1>2. /\ e \in Entries /\ e.addr = writing[w].addr /\ e.body = writing[w].body /\ e.seeked
  BY <1>1 DEF Entries
<1>3. e # NotWriting
  BY <1>1, <1>2, PageNumbers DEF NotWriting
<1>4. writing' = [writing EXCEPT ![w] = e] /\ writing \in [Writers -> {NotWriting} \cup Entries]
  BY DEF SeekBody, TypeOK
<1>. HIDE DEF e
<1>5. /\ writing'[w] = e /\ \A v \in Writers \ {w} : writing'[v] = writing[v]
      /\ writing' \in [Writers -> {NotWriting} \cup Entries]
  BY <1>2, <1>4
<1>6. Busy' = Busy
  BY <1>1, <1>3, <1>5 DEF Busy
<1>. QED
  BY <1>1, <1>2, <1>5, <1>6 DEF SeekBody

LEMMA WriteFacts ==
  ASSUME TypeOK, NEW w \in Writers, WriteBody(w)
  PROVE  /\ w \in Busy /\ Busy' = Busy \ {w} /\ writing[w].seeked
         /\ \A v \in Writers \ {w} : writing'[v] = writing[v]
         /\ writing' \in [Writers -> {NotWriting} \cup Entries]
         /\ file' \in LogFile /\ file'.head = file.head
         /\ pos \in Pages => \A p \in Pages :
              file'.page[p] = IF p = pos THEN writing[w].body ELSE file.page[p]
         /\ phase' = [phase EXCEPT ![writing[w].body.log] = "held"]
         /\ pos' = pos + 1 /\ UNCHANGED <<flushed, head, addr, kills, alone, spent>>
<1>1. /\ w \in Busy /\ writing[w] \in Entries /\ writing[w].body \in Body /\ writing[w].seeked
  BY BusyFacts DEF WriteBody
<1>2. writing' = [writing EXCEPT ![w] = NotWriting] /\ writing \in [Writers -> {NotWriting} \cup Entries]
  BY DEF WriteBody, TypeOK
<1>3. /\ writing'[w] = NotWriting /\ \A v \in Writers \ {w} : writing'[v] = writing[v]
      /\ writing' \in [Writers -> {NotWriting} \cup Entries]
  BY <1>2
<1>4. Busy' = Busy \ {w}
  BY <1>1, <1>3 DEF Busy
<1>5. /\ file' \in LogFile /\ file'.head = file.head
      /\ pos \in Pages => \A p \in Pages :
           file'.page[p] = IF p = pos THEN writing[w].body ELSE file.page[p]
  <2>1. file \in LogFile
    BY DEF TypeOK
  <2>2. CASE pos \in Pages
    <3>1. file' = PutBody(file, pos, writing[w].body)
      BY <2>2 DEF WriteBody
    <3>2. /\ PutBody(file, pos, writing[w].body) \in LogFile
          /\ PutBody(file, pos, writing[w].body).head = file.head
          /\ \A p \in Pages : PutBody(file, pos, writing[w].body).page[p]
                                = IF p = pos THEN writing[w].body ELSE file.page[p]
      BY <1>1, <2>1, <2>2, PutBodyPuts
    <3>. QED
      BY <3>1, <3>2
  <2>3. CASE pos \notin Pages
    BY <2>1, <2>3 DEF WriteBody
  <2>. QED
    BY <2>2, <2>3
<1>. QED
  BY <1>1, <1>3, <1>4, <1>5 DEF WriteBody

LEMMA FreeFacts ==
  ASSUME Basics, NEW w \in Writers, NEW l \in Logs, FreeLog(w, l)
  PROVE  /\ addr[l] \in Pages /\ phase[l] = "held"
         /\ file' = Freed(addr[l]) /\ flushed' = Blanked(addr[l])
         /\ file' \in LogFile /\ flushed' \in LogFile
         /\ file'.head = file.head /\ flushed'.head = file.head
         /\ head' \in Header /\ head'.freeList = head.freeList /\ head'.freeListEnd = addr[l]
         /\ head'.todoList = IF head.todoList = addr[l] THEN Nxt(addr[l]) ELSE head.todoList
         /\ head'.pre = head.pre /\ head'.nxt = head.nxt
         /\ head'.todoListNum = 0 /\ head'.freeListNum = 0
         /\ phase' = [phase EXCEPT ![l] = "freed"] /\ addr' = [addr EXCEPT ![l] = Nowhere]
         /\ pos' = 2 /\ UNCHANGED <<writing, kills, spent>>
<1> DEFINE a == addr[l]
<1>1. TypeOK /\ NumsZero
  BY DEF Basics
<1>2. phase[l] = "held" /\ a \in Pages
  BY <1>1 DEF FreeLog, TypeOK, Basics, Owners
<1>3. file' = Freed(a) /\ flushed' = Blanked(a)
  BY <1>1, FreeStepsAre DEF FreeLog
<1>4. head' = HeadAfterFree(a, file.page[a])
  BY DEF FreeLog
<1>5. /\ file' \in LogFile /\ flushed' \in LogFile
      /\ file'.head = file.head /\ flushed'.head = file.head
  BY <1>1, <1>2, <1>3, FreedPages, BlankedPages
<1>. QED
  BY <1>1, <1>2, <1>3, <1>4, <1>5, HeadFreed DEF FreeLog

LEMMA RestartFacts ==
  ASSUME NEW f \in LogFile, f.head.todoListNum = 0, RestartFrom(f)
  PROVE  /\ file' = f /\ flushed' = f /\ head' = GetHead(f) /\ pos' = 1
         /\ kills < MaxKills /\ kills' = kills + 1 /\ alone' = alone /\ spent' = spent
         /\ writing' \in [Writers -> {NotWriting} \cup Entries] /\ Busy' = {}
<1>1. writing' = [w \in Writers |-> NotWriting]
  BY DEF RestartFrom
<1>2. Busy' = {}
  BY <1>1 DEF Busy
<1>. QED
  BY <1>1, <1>2, Redone DEF RestartFrom

LEMMA KillFacts ==
  ASSUME Basics, Kill
  PROVE  \E f \in {file, flushed} : RestartFrom(f) /\ f \in LogFile /\ f.head.todoListNum = 0
BY DEF Kill, Basics, TypeOK, NumsZero

LEMMA KillInFreeFacts ==
  ASSUME Basics, NEW l \in Logs, KillInFree(l)
  PROVE  /\ addr[l] \in Pages /\ phase[l] = "held" /\ Busy = {}
         /\ \E s \in Writes(addr[l]) :
              RestartFrom(s) /\ s \in LogFile /\ s.head = file.head /\ s.head.todoListNum = 0
<1>1. TypeOK /\ NumsZero
  BY DEF Basics
<1>2. phase[l] = "held" /\ addr[l] \in Pages
  BY <1>1 DEF KillInFree, TypeOK, Basics, Owners
<1>3. PICK i \in 2..(Len(FreeSteps(addr[l])) - 2) : RestartFrom(FreeSteps(addr[l])[i])
  BY DEF KillInFree
<1>4. FreeSteps(addr[l])[i] \in Writes(addr[l])
  BY <1>1, FreeStepsAre DEF Writes
<1>5. Busy = {}
  BY <1>1, BusyFacts DEF KillInFree
<1>. QED
  BY <1>1, <1>2, <1>3, <1>4, <1>5, WritesLeave DEF NumsZero

-----------------------------------------------------------------------------
(* Types, counts and owners, step by step.                                 *)

LEMMA FreshFacts ==
  /\ FreshFile \in LogFile /\ FreshHead \in Header
  /\ FreshFile.head = FreshHead /\ FreshHead.todoListNum = 0 /\ FreshHead.freeListNum = 0
  /\ FreshHead.freeList = 1 /\ FreshHead.freeListEnd = N /\ FreshHead.todoList = 0
  /\ FreshHead.pre = 0 /\ FreshHead.nxt = 0
  /\ FreshFile.page[0].pre = 0 /\ FreshFile.page[0].nxt = 0
  /\ \A p \in 1..(N - 1) : FreshFile.page[p].nxt = p + 1
<1>1. /\ FreshHead \in Header /\ FreshHead.todoListNum = 0 /\ FreshHead.freeListNum = 0
      /\ FreshHead.freeList = 1 /\ FreshHead.freeListEnd = N /\ FreshHead.todoList = 0
      /\ FreshHead.pre = 0 /\ FreshHead.nxt = 0
  BY PageNumbers DEF FreshHead, Header
<1> DEFINE body(p) == [log |-> Blank, pre |-> IF p = 0 THEN 0 ELSE p - 1,
                       nxt |-> IF p \in {0, N} THEN 0 ELSE p + 1]
<1>2. ASSUME NEW p \in Pages PROVE body(p) \in Body
  <2>1. (IF p = 0 THEN 0 ELSE p - 1) \in Pages /\ (IF p \in {0, N} THEN 0 ELSE p + 1) \in Pages
    BY PageNumbers
  <2>. QED
    BY <2>1 DEF Body
<1>3. FreshFile = [head |-> FreshHead, page |-> [p \in Pages |-> body(p)]]
  BY DEF FreshFile
<1>4. /\ FreshFile.page[0].pre = 0 /\ FreshFile.page[0].nxt = 0
      /\ \A p \in 1..(N - 1) : FreshFile.page[p].nxt = p + 1
  BY <1>3, PageNumbers
<1>. HIDE DEF body
<1>5. FreshFile \in LogFile /\ FreshFile.head = FreshHead
  BY <1>1, <1>2, <1>3 DEF LogFile
<1>. QED
  BY <1>1, <1>4, <1>5

LEMMA InitBasics == Init => Basics
<1>. SUFFICES ASSUME Init PROVE Basics
  OBVIOUS
<1>1. Busy = {}
  BY DEF Init, Busy
<1>2. TypeOK
  BY FreshFacts, PageNumbers, RingAssumption DEF Init, TypeOK
<1>3. NumsZero
  BY FreshFacts DEF Init, NumsZero
<1>4. Owners
  BY <1>1 DEF Init, Owners
<1>. QED
  BY <1>2, <1>3, <1>4 DEF Basics

LEMMA TakeBasics ==
  ASSUME Basics, NEW w \in Writers, NEW l \in Logs, GetFreebody(w, l)
  PROVE  Basics'
<1>1. TypeOK /\ NumsZero /\ Owners
  BY DEF Basics
<1>2. /\ phase[l] = "new" /\ phase' = [phase EXCEPT ![l] = "writing"]
      /\ addr' = [addr EXCEPT ![l] = head.freeList] /\ pos' = 1 /\ kills' = kills
      /\ phase \in [Logs -> {"new", "writing", "held", "freed", "orphan"}]
      /\ addr \in [Logs -> Pages \cup {Nowhere}] /\ head.freeList \in Pages
  BY <1>1, HeadParts DEF GetFreebody, TypeOK
<1>3. TypeOK'
  BY <1>1, <1>2, TakeFacts DEF TypeOK
<1>4. NumsZero'
  BY <1>1, TakeFacts DEF NumsZero
<1>5. Owners'
  <2>1. ASSUME NEW v \in Busy' PROVE LET k == writing'[v].body.log
                                     IN  phase'[k] = "writing" /\ addr'[k] = writing'[v].addr
    <3>1. CASE v = w
      BY <1>1, <1>2, <3>1, TakeFacts
    <3>2. CASE v # w
      <4>1. v \in Busy /\ v \in Writers /\ writing'[v] = writing[v]
        BY <1>1, <3>2, TakeFacts DEF Busy
      <4>2. /\ writing[v].body.log \in Logs /\ phase[writing[v].body.log] = "writing"
            /\ addr[writing[v].body.log] = writing[v].addr
        BY <1>1, <4>1, BusyFacts DEF Owners
      <4>. QED
        BY <1>2, <4>1, <4>2
    <3>. QED
      BY <3>1, <3>2
  <2>2. ASSUME NEW u \in Busy', NEW v \in Busy', writing'[u].body.log = writing'[v].body.log
        PROVE  u = v
    <3>1. ASSUME NEW x \in Busy', x # w
          PROVE  x \in Busy /\ writing'[x] = writing[x] /\ writing[x].body.log # l
      <4>1. x \in Busy /\ x \in Writers /\ writing'[x] = writing[x]
        BY <1>1, <3>1, TakeFacts DEF Busy
      <4>. QED
        BY <1>1, <1>2, <4>1 DEF Owners
    <3>. QED
      BY <1>1, <2>2, <3>1, TakeFacts DEF Owners
  <2>3. ASSUME NEW k \in Logs
        PROVE  /\ phase'[k] = "writing" => \E v \in Busy' : writing'[v].body.log = k
               /\ phase'[k] \in {"writing", "held"} => addr'[k] # Nowhere
               /\ phase'[k] \in {"new", "freed"} => addr'[k] = Nowhere
    <3>1. CASE k = l
      BY <1>1, <1>2, <3>1, TakeFacts, PageNumbers
    <3>2. CASE k # l
      <4>1. phase'[k] = phase[k] /\ addr'[k] = addr[k]
        BY <1>2, <3>2
      <4>2. ASSUME NEW v \in Busy PROVE v \in Busy' /\ writing'[v] = writing[v]
        <5>1. v \in Writers /\ v # w
          BY <1>1, TakeFacts DEF Busy
        <5>. QED
          BY <1>1, <5>1, TakeFacts
      <4>. QED
        BY <1>1, <4>1, <4>2 DEF Owners
    <3>. QED
      BY <3>1, <3>2
  <2>. QED
    BY <2>1, <2>2, <2>3 DEF Owners
<1>. QED
  BY <1>3, <1>4, <1>5 DEF Basics

LEMMA SeekBasics ==
  ASSUME Basics, NEW w \in Writers, SeekBody(w)
  PROVE  Basics'
<1>1. TypeOK /\ NumsZero /\ Owners
  BY DEF Basics
<1>2. UNCHANGED <<file, head, phase, addr, kills, alone>>
  BY DEF SeekBody
<1>3. TypeOK'
  <2>1. pos' \in Nat
    BY <1>1, SeekFacts, BusyFacts, PageNumbers
  <2>. QED
    BY <1>1, <1>2, <2>1, SeekFacts DEF TypeOK
<1>4. NumsZero'
  BY <1>1, <1>2, SeekFacts DEF NumsZero
<1>5. Owners'
  <2>1. ASSUME NEW v \in Busy
        PROVE  writing'[v].body = writing[v].body /\ writing'[v].addr = writing[v].addr
    BY <1>1, SeekFacts DEF Busy
  <2>. QED
    BY <1>1, <1>2, <2>1, SeekFacts DEF Owners
<1>. QED
  BY <1>3, <1>4, <1>5 DEF Basics

LEMMA WriteBasics ==
  ASSUME Basics, NEW w \in Writers, WriteBody(w)
  PROVE  Basics'
<1>1. TypeOK /\ NumsZero /\ Owners
  BY DEF Basics
<1> DEFINE l == writing[w].body.log
<1>2. /\ l \in Logs /\ phase[l] = "writing" /\ addr[l] # Nowhere
      /\ phase \in [Logs -> {"new", "writing", "held", "freed", "orphan"}]
      /\ phase' = [phase EXCEPT ![l] = "held"]
  BY <1>1, WriteFacts, BusyFacts DEF Owners, TypeOK
<1>3. TypeOK'
  BY <1>1, <1>2, WriteFacts DEF TypeOK
<1>4. NumsZero'
  BY <1>1, WriteFacts DEF NumsZero
<1>5. Owners'
  <2>1. ASSUME NEW v \in Busy'
        PROVE  v \in Busy /\ writing'[v] = writing[v] /\ writing[v].body.log # l
               /\ writing[v].body.log \in Logs
    <3>1. v \in Busy /\ v # w /\ v \in Writers
      BY <1>1, WriteFacts DEF Busy
    <3>. QED
      BY <1>1, <3>1, WriteFacts, BusyFacts DEF Owners
  <2>2. ASSUME NEW k \in Logs, k # l, phase[k] = "writing"
        PROVE  \E v \in Busy' : writing'[v].body.log = k
    <3>1. PICK v \in Busy : writing[v].body.log = k
      BY <1>1, <2>2 DEF Owners
    <3>2. v # w /\ v \in Writers
      BY <2>2, <3>1 DEF Busy
    <3>. QED
      BY <1>1, <3>1, <3>2, WriteFacts
  <2>3. addr' = addr
    BY <1>1, WriteFacts
  <2>. HIDE DEF l
  <2>. QED
    BY <1>1, <1>2, <2>1, <2>2, <2>3 DEF Owners
<1>. QED
  BY <1>3, <1>4, <1>5 DEF Basics

LEMMA FreeBasics ==
  ASSUME Basics, NEW w \in Writers, NEW l \in Logs, FreeLog(w, l)
  PROVE  Basics'
<1>1. TypeOK /\ NumsZero /\ Owners
  BY DEF Basics
<1>2. /\ phase[l] = "held" /\ phase' = [phase EXCEPT ![l] = "freed"]
      /\ addr' = [addr EXCEPT ![l] = Nowhere] /\ writing' = writing
  BY FreeFacts
<1>3. TypeOK'
  <2>1. /\ file' \in LogFile /\ flushed' \in LogFile /\ head' \in Header /\ pos' = 2
        /\ kills' = kills
    BY FreeFacts
  <2>. QED
    BY <1>1, <1>2, <2>1 DEF TypeOK
<1>4. NumsZero'
  <2>1. head'.todoListNum = 0 /\ head'.freeListNum = 0 /\ file'.head = file.head /\ flushed'.head = file.head
    BY FreeFacts
  <2>. QED
    BY <1>1, <2>1 DEF NumsZero
<1>5. Owners'
  <2>1. Busy' = Busy
    BY <1>2 DEF Busy
  <2>2. \A v \in Busy : writing[v].body.log \in Logs /\ writing[v].body.log # l
    BY <1>1, <1>2, BusyFacts DEF Owners, Busy
  <2>3. /\ phase \in [Logs -> {"new", "writing", "held", "freed", "orphan"}]
        /\ addr \in [Logs -> Pages \cup {Nowhere}]
    BY <1>1 DEF TypeOK
  <2>4. \A v \in Busy : LET k == writing'[v].body.log IN phase'[k] = "writing" /\ addr'[k] = writing'[v].addr
    BY <1>1, <1>2, <2>2, <2>3 DEF Owners
  <2>5. \A k \in Logs :
          /\ phase'[k] = "writing" => \E v \in Busy : writing'[v].body.log = k
          /\ phase'[k] \in {"writing", "held"} => addr'[k] # Nowhere
          /\ phase'[k] \in {"new", "freed"} => addr'[k] = Nowhere
    BY <1>1, <1>2, <2>3 DEF Owners
  <2>. QED
    BY <1>1, <1>2, <2>1, <2>4, <2>5 DEF Owners
<1>. QED
  BY <1>3, <1>4, <1>5 DEF Basics

LEMMA RestartBasics ==
  ASSUME Basics, Kill \/ \E l \in Logs : KillInFree(l)
  PROVE  Basics'
<1>1. TypeOK /\ NumsZero /\ Owners
  BY DEF Basics
<1>2. ASSUME NEW f \in LogFile, RestartFrom(f), f.head.todoListNum = 0, f.head.freeListNum = 0,
             phase' \in [Logs -> {"new", "writing", "held", "freed", "orphan"}],
             addr' \in [Logs -> Pages \cup {Nowhere}],
             \A k \in Logs : /\ phase'[k] \notin {"writing", "held"}
                             /\ phase'[k] \in {"new", "freed"} => addr'[k] = Nowhere
      PROVE Basics'
  <2>1. /\ file' = f /\ flushed' = f /\ head' = GetHead(f) /\ pos' = 1
        /\ kills < MaxKills /\ kills' = kills + 1 /\ alone' = alone
        /\ writing' \in [Writers -> {NotWriting} \cup Entries] /\ Busy' = {}
    BY <1>2, RestartFacts
  <2>2. /\ GetHead(f) \in Header /\ GetHead(f).todoListNum = 0 /\ GetHead(f).freeListNum = 0
    BY <1>2, FileParts
  <2>3. TypeOK'
    BY <1>1, <1>2, <2>1, <2>2, RingAssumption DEF TypeOK
  <2>4. NumsZero'
    BY <1>2, <2>1, <2>2 DEF NumsZero
  <2>5. Owners'
    BY <1>2, <2>1 DEF Owners
  <2>. QED
    BY <2>3, <2>4, <2>5 DEF Basics
<1>3. /\ phase \in [Logs -> {"new", "writing", "held", "freed", "orphan"}]
      /\ addr \in [Logs -> Pages \cup {Nowhere}]
  BY <1>1 DEF TypeOK
<1>4. CASE Kill
  <2>1. PICK f \in {file, flushed} : RestartFrom(f) /\ f \in LogFile /\ f.head.todoListNum = 0
    BY <1>4, KillFacts
  <2>2. f.head.freeListNum = 0
    BY <1>1, <2>1 DEF NumsZero
  <2>3. /\ phase' = [k \in Logs |-> IF phase[k] \in {"writing", "held"} THEN "orphan" ELSE phase[k]]
        /\ addr' = [k \in Logs |-> IF phase[k] = "writing" THEN Nowhere ELSE addr[k]]
    BY <1>4 DEF Kill
  <2>4. /\ phase' \in [Logs -> {"new", "writing", "held", "freed", "orphan"}]
        /\ addr' \in [Logs -> Pages \cup {Nowhere}]
        /\ \A k \in Logs : /\ phase'[k] \notin {"writing", "held"}
                           /\ phase'[k] \in {"new", "freed"} => addr'[k] = Nowhere
    BY <1>1, <1>3, <2>3 DEF Owners
  <2>. QED
    BY <1>2, <2>1, <2>2, <2>4
<1>5. ASSUME NEW l \in Logs, KillInFree(l) PROVE Basics'
  <2>1. PICK s \in Writes(addr[l]) :
          RestartFrom(s) /\ s \in LogFile /\ s.head = file.head /\ s.head.todoListNum = 0
    BY <1>5, KillInFreeFacts
  <2>2. s.head.freeListNum = 0
    BY <1>1, <2>1 DEF NumsZero
  <2>3. /\ phase' = [k \in Logs |->
             IF k = l THEN "freed" ELSE IF phase[k] = "held" THEN "orphan" ELSE phase[k]]
        /\ addr' = [addr EXCEPT ![l] = Nowhere]
    BY <1>5 DEF KillInFree
  <2>4. \A k \in Logs : phase[k] # "writing"
    BY <1>1, <1>5, KillInFreeFacts DEF Owners
  <2>5. /\ phase' \in [Logs -> {"new", "writing", "held", "freed", "orphan"}]
        /\ addr' \in [Logs -> Pages \cup {Nowhere}]
        /\ \A k \in Logs : /\ phase'[k] \notin {"writing", "held"}
                           /\ phase'[k] \in {"new", "freed"} => addr'[k] = Nowhere
    BY <1>1, <1>3, <2>3, <2>4 DEF Owners
  <2>. QED
    BY <1>2, <2>1, <2>2, <2>5
<1>. QED
  BY <1>4, <1>5

-----------------------------------------------------------------------------
(* The lists, step by step.                                                *)

LEMMA LiveFacts ==
  ASSUME Basics, Ring
  PROVE  /\ Pages = 0..N /\ N \in Nat /\ Logs \subseteq Nat /\ Nowhere \notin Pages
         /\ \A l \in Logs : addr[l] # Nowhere => addr[l] \in Pages \ {0}
         /\ \A l \in Live : /\ l \in Logs /\ l \in Placed /\ InUse(l)
                            /\ addr[l] \in Pages \ {0} /\ addr[l] \in Used
         /\ \A k, l \in Live : addr[k] = addr[l] => k = l
         /\ 0 \notin Used
         /\ Busy = {} => \A l \in Live : phase[l] = "held"
<1>1. Pages = 0..N /\ N \in Nat /\ Logs \subseteq Nat /\ Nowhere \notin Pages
  BY PageNumbers
<1>2. \A l \in Logs : addr[l] # Nowhere => addr[l] \in Pages \ {0}
  BY DEF Basics, TypeOK, Ring
<1>3. ASSUME NEW l \in Live
      PROVE  /\ l \in Logs /\ l \in Placed /\ InUse(l)
             /\ addr[l] \in Pages \ {0} /\ addr[l] \in Used
  BY <1>2 DEF Basics, Owners, Live, InUse, Placed, Used
<1>4. \A k, l \in Live : addr[k] = addr[l] => k = l
  BY <1>3 DEF Ring, NotShared, Placed
<1>5. 0 \notin Used
  BY <1>3 DEF Used
<1>6. Busy = {} => \A l \in Live : phase[l] = "held"
  BY DEF Basics, Owners, Live, InUse
<1>. QED
  BY <1>1, <1>2, <1>3, <1>4, <1>5, <1>6

(* A list stays sound when its pages lead to where they led, or nowhere.   *)
LEMMA ChainStays ==
  ASSUME NEW h, NEW f, NEW S, Chain(h, f, S), NEW k, NEW g,
         k.freeList = h.freeList, k.freeListEnd # 0, g.page[0].nxt = 0,
         \A p \in S : Goes(k, g, p) => Goes(h, f, p) /\ g.page[p].nxt = f.page[p].nxt
  PROVE  Chain(k, g, S)
BY DEF Chain

LEMMA ChainTaken ==
  ASSUME NEW h, NEW f, NEW S, Chain(h, f, S), NEW k, NEW g,
         Goes(h, f, h.freeList), k.freeList = f.page[h.freeList].nxt,
         k.freeListEnd = h.freeListEnd, g.page[0].nxt = 0,
         \A p \in S : g.page[p].nxt = f.page[p].nxt
  PROVE  Chain(k, g, S \ {h.freeList})
BY DEF Chain, Goes

(* The page a is appended, unless the last page is not on the list.        *)
LEMMA ChainGrown ==
  ASSUME NEW h, NEW f, NEW S, Chain(h, f, S), NEW a \in (1..N) \ S, NEW k, NEW g,
         k.freeList = h.freeList, k.freeListEnd = a, g.page[0].nxt = 0,
         \A p \in S \ {h.freeListEnd} :
           Goes(k, g, p) => Goes(h, f, p) /\ g.page[p].nxt = f.page[p].nxt,
         h.freeListEnd \in S /\ Goes(k, g, h.freeListEnd) => g.page[h.freeListEnd].nxt = a
  PROVE  Chain(k, g, S \cup {a})
<1>1. ~Goes(k, g, a)
  BY DEF Goes
<1>2. ASSUME NEW p \in S, Goes(k, g, p)
      PROVE  \/ p = h.freeListEnd /\ g.page[p].nxt = a
             \/ Goes(h, f, p) /\ g.page[p].nxt = f.page[p].nxt /\ f.page[p].nxt \in S \ {h.freeList}
  BY <1>2 DEF Chain
<1>3. a # 0 /\ h.freeList \in S /\ a # h.freeList
  BY DEF Chain
<1>4. ASSUME NEW p \in S \cup {a}, NEW q \in S \cup {a}, Goes(k, g, p), Goes(k, g, q),
             g.page[p].nxt = g.page[q].nxt
      PROVE  p = q
  BY <1>1, <1>2, <1>4 DEF Chain
<1>5. \A p \in S \cup {a} : Goes(k, g, p) => g.page[p].nxt \in (S \cup {a}) \ {k.freeList}
  BY <1>1, <1>2, <1>3
<1>. QED
  BY <1>3, <1>4, <1>5 DEF Chain

(* Neighbours, when a log is added above all and when one is removed.      *)
LEMMA BelowAdded ==
  ASSUME NEW L, L \subseteq Nat, NEW l \in Nat, \A k \in L : k < l, NEW at, NEW E, NEW at2, NEW E2,
         \A k \in L : at2[k] = at[k], NEW k \in L, NEW n, Below(L, at, E, k, n), n \in E => n \in E2
  PROVE  Below(L \cup {l}, at2, E2, k, n)
BY DEF Below, JustBelow, First

LEMMA AboveAdded ==
  ASSUME NEW L, L \subseteq Nat, NEW l \in Nat, \A k \in L : k < l, NEW at, NEW at2, NEW free,
         \A k \in L : at2[k] = at[k], at2[l] = free, NEW k \in L, NEW p, NEW free2,
         Above(L, at, free, k, p)
  PROVE  Above(L \cup {l}, at2, free2, k, p)
BY DEF Above, JustAbove, Last

LEMMA Opposite ==
  ASSUME NEW L, L \subseteq Nat, NEW k \in L, NEW l \in L
  PROVE  JustBelow(L, k, l) <=> JustAbove(L, l, k)
<1>1. \A i, j \in L : (i <= j <=> ~(j < i)) /\ (i < j => i # j)
  OBVIOUS
<1>. QED
  BY <1>1 DEF JustBelow, JustAbove

LEMMA BelowRemoved ==
  ASSUME NEW L, L \subseteq Nat, NEW l \in L, NEW k \in L \ {l}, NEW at, NEW at2, NEW E, NEW E2, NEW n,
         \A j \in L \ {l} : at2[j] = at[j], n \in E => n \in E2,
         \/ Below(L, at, E, k, n) /\ n # at[l]
         \/ Below(L, at, E, l, n) /\ JustBelow(L, l, k)
  PROVE  Below(L \ {l}, at2, E2, k, n)
<1>1. CASE Below(L, at, E, k, n) /\ n # at[l]
  BY <1>1 DEF Below, JustBelow, First
<1>2. CASE Below(L, at, E, l, n) /\ JustBelow(L, l, k)
  <2>1. \A j \in L \ {l} : j < k => j < l
    BY <1>2 DEF JustBelow
  <2>2. l < k
    BY <1>2 DEF JustBelow
  <2>. QED
    BY <1>2, <2>1, <2>2 DEF Below, JustBelow, First
<1>. QED
  BY <1>1, <1>2

LEMMA AboveRemoved ==
  ASSUME NEW L, L \subseteq Nat, NEW l \in L, NEW k \in L \ {l}, NEW at, NEW at2, NEW free, NEW p,
         \A j \in L \ {l} : at2[j] = at[j],
         \/ Above(L, at, free, k, p) /\ p # at[l]
         \/ Above(L, at, free, k, p) /\ Last(L, k)
         \/ Above(L, at, free, l, p) /\ JustAbove(L, l, k)
  PROVE  Above(L \ {l}, at2, free, k, p)
<1>1. CASE Above(L, at, free, k, p) /\ (p # at[l] \/ Last(L, k))
  BY <1>1 DEF Above, JustAbove, Last
<1>2. CASE Above(L, at, free, l, p) /\ JustAbove(L, l, k)
  <2>1. ASSUME NEW j \in L \ {l}, k < j PROVE l < j
    <3>1. l <= j /\ l # j /\ l \in Nat /\ j \in Nat
      BY <1>2, <2>1 DEF JustAbove
    <3>. QED
      BY <3>1
  <2>2. k < l
    BY <1>2 DEF JustAbove
  <2>. QED
    BY <1>2, <2>1, <2>2 DEF Above, JustAbove, Last
<1>. QED
  BY <1>1, <1>2

LEMMA InitApart == Init => Apart
<1>. SUFFICES ASSUME Init PROVE Ring /\ InMemory /\ OnFile /\ OnDisk
  BY DEF Apart
<1>1. Busy = {} /\ Live = {} /\ Used = {} /\ Placed = {} /\ Settled = {}
  BY DEF Init, Busy, Live, InUse, Used, Placed, Settled
<1>2. /\ head = FreshHead /\ file = FreshFile /\ flushed = FreshFile
      /\ \A l \in Logs : phase[l] = "new" /\ addr[l] = Nowhere
  BY DEF Init
<1>3. Ring
  BY <1>1, <1>2 DEF Ring, NotShared, TheWriter, Nowhere
<1>4. Chain(FreshHead, FreshFile, 1..N)
  <2>1. N \in Nat /\ N >= 1
    BY PageNumbers
  <2>2. \A p \in 1..N : Goes(FreshHead, FreshFile, p) => p \in 1..(N - 1) /\ FreshFile.page[p].nxt = p + 1
    BY <2>1, FreshFacts DEF Goes
  <2>. QED
    BY <2>1, <2>2, FreshFacts DEF Chain
<1>5. Fits(FreshHead, FreshFile, 1..N, {})
  BY <1>4, FreshFacts DEF Fits
<1>6. Links(1..N)
  BY <1>1, <1>2, FreshFacts, PageNumbers DEF Links, Top, Elsewhere
<1>7. 1..N \in SUBSET Pages /\ file.head = FreshHead /\ flushed.head = FreshHead
  BY <1>2, PageNumbers, FreshFacts
<1>8. InMemory
  BY <1>1, <1>2, <1>5, <1>6, <1>7 DEF InMemory
<1>9. OnFile
  BY <1>1, <1>2, <1>5, <1>7 DEF OnFile
<1>10. OnDisk
  BY <1>1, <1>2, <1>5, <1>7 DEF OnDisk
<1>. QED
  BY <1>3, <1>8, <1>9, <1>10

-----------------------------------------------------------------------------
(* GetFreebody_.                                                           *)

LEMMA Taking ==
  ASSUME Basics, Apart, NEW w \in Writers, NEW l \in Logs, GetFreebody(w, l), Orderly'
  PROVE  /\ Orderly /\ Ring /\ InMemory /\ OnFile /\ Busy = {} /\ kills' = kills
         /\ Goes(head, file, head.freeList)
         /\ head.freeList \in 1..N /\ \A k \in Placed : addr[k] # head.freeList
         /\ phase[l] = "new" /\ phase' = [phase EXCEPT ![l] = "writing"]
         /\ addr[l] = Nowhere /\ addr' = [addr EXCEPT ![l] = head.freeList]
         /\ Placed' = Placed \cup {l} /\ Settled' = Settled
         /\ Live' = Live \cup {l} /\ Used' = Used \cup {head.freeList}
         /\ \A k \in Live : k < l /\ addr'[k] = addr[k]
         /\ \A k \in Placed : k # l /\ addr'[k] = addr[k] /\ (InUse(k)' <=> InUse(k))
<1>1. TypeOK /\ Owners
  BY DEF Basics
<1>2. Orderly /\ Busy = {} /\ kills' = kills /\ Goes(head, file, head.freeList)
  <2>1. alone' => alone /\ Busy = {}
    BY <1>1, BusyFacts DEF GetFreebody, EntersMutex
  <2>2. ~spent' => ~spent /\ ~EndsFreeList(file.page[head.freeList])
    BY DEF GetFreebody
  <2>. QED
    BY <2>1, <2>2 DEF Orderly, EndsFreeList, Goes, GetFreebody
<1>3. Ring /\ InMemory /\ OnFile
  BY <1>2 DEF Apart
<1>4. head.freeList \in 1..N /\ \A k \in Placed : addr[k] # head.freeList
  BY <1>3 DEF InMemory, Fits, Chain
<1>5. /\ phase[l] = "new" /\ phase' = [phase EXCEPT ![l] = "writing"]
      /\ addr[l] = Nowhere /\ addr' = [addr EXCEPT ![l] = head.freeList]
      /\ \A k \in Logs : k < l => phase[k] # "new"
      /\ phase \in [Logs -> {"new", "writing", "held", "freed", "orphan"}]
      /\ addr \in [Logs -> Pages \cup {Nowhere}]
  BY <1>1 DEF GetFreebody, TypeOK, Owners
<1>6. head.freeList # Nowhere
  BY <1>4, PageNumbers
<1>7. Placed' = Placed \cup {l} /\ Settled' = Settled
  BY <1>5, <1>6 DEF Placed, Settled
<1>8. Live' = Live \cup {l} /\ l \notin Live
  BY <1>5 DEF Live, InUse
<1>9. \A k \in Live : k < l /\ addr'[k] = addr[k]
  <2>1. ASSUME NEW k \in Live PROVE k < l
    <3>1. k \in Logs /\ k # l /\ phase[k] # "new"
      BY <1>8 DEF Live, InUse
    <3>2. ~(l < k)
      BY <1>3, <1>5, <3>1 DEF Ring
    <3>. QED
      BY <3>1, <3>2, PageNumbers
  <2>. QED
    BY <1>5, <1>8, <2>1 DEF Live
<1>10. Used' = Used \cup {head.freeList}
  BY <1>5, <1>8, <1>9 DEF Used
<1>11. \A k \in Placed : k # l /\ addr'[k] = addr[k] /\ (InUse(k)' <=> InUse(k))
  BY <1>5 DEF Placed, InUse
<1>. QED
  BY <1>2, <1>3, <1>4, <1>5, <1>7, <1>8, <1>9, <1>10, <1>11

LEMMA TakeRing ==
  ASSUME Basics, Apart, NEW w \in Writers, NEW l \in Logs, GetFreebody(w, l), Orderly'
  PROVE  Ring'
<1>1. TypeOK /\ Owners
  BY DEF Basics
<1>2. /\ Ring /\ Busy = {}
      /\ head.freeList \in 1..N /\ \A k \in Placed : addr[k] # head.freeList
      /\ phase[l] = "new" /\ phase' = [phase EXCEPT ![l] = "writing"]
      /\ addr' = [addr EXCEPT ![l] = head.freeList]
  BY Taking
<1>3. /\ \A k \in Logs : k < l => phase[k] # "new"
      /\ phase \in [Logs -> {"new", "writing", "held", "freed", "orphan"}]
      /\ addr \in [Logs -> Pages \cup {Nowhere}]
  BY <1>1 DEF GetFreebody, TypeOK
<1>4. NotShared'
  BY <1>2, <1>3 DEF Ring, NotShared, Placed
<1>5. TheWriter'
  <2>1. Busy' = {w}
    BY <1>1, <1>2, TakeFacts
  <2>. QED
    BY <1>1, <2>1, TakeFacts DEF TheWriter
<1>6. /\ \A k \in Logs : addr'[k] # 0
      /\ \A j, k \in Logs : j < k /\ phase'[j] = "new" => phase'[k] = "new"
  BY <1>2, <1>3 DEF Ring
<1>. QED
  BY <1>4, <1>5, <1>6 DEF Ring

(* Both lists in the file begin with the page after the one taken.         *)
LEMMA TakeFits ==
  ASSUME Basics, Apart, NEW w \in Writers, NEW l \in Logs, GetFreebody(w, l), Orderly',
         NEW S \in SUBSET Pages, Fits(head, file, S, Placed), head.nxt = 0,
         NEW R, R = S \ {head.freeList}
  PROVE  Fits(head, file, R, Placed)'
<1> DEFINE a == head.freeList
<1>1. TypeOK
  BY DEF Basics
<1>2. /\ Goes(head, file, a) /\ Placed' = Placed \cup {l}
      /\ addr'[l] = a /\ \A k \in Placed : addr'[k] = addr[k]
  <2>1. addr \in [Logs -> Pages \cup {Nowhere}]
    BY <1>1 DEF TypeOK
  <2>. QED
    BY <2>1, Taking
<1>3. /\ Chain(head, file, S) /\ \A k \in Placed : addr[k] \notin S
      /\ 1 \in S /\ Goes(head, file, 1) => a = 1
  BY DEF Fits
<1>4. /\ head'.freeList = Nxt(a) /\ head'.freeListEnd = head.freeListEnd /\ head'.todoList = a
      /\ file'.page[0].nxt = 0
      /\ \A p \in Pages \ {0} : file'.page[p] = file.page[p]
  BY <1>1, TakeFacts
<1>5. \A p \in S : file'.page[p] = file.page[p]
  BY <1>3, <1>4 DEF Chain
<1>6. Chain(head', file', R)
  BY <1>2, <1>3, <1>4, <1>5, ChainTaken DEF Nxt
<1>7. ~(1 \in R /\ Goes(head', file', 1))
  BY <1>3, <1>4, <1>5 DEF Goes
<1>. QED
  BY <1>2, <1>3, <1>4, <1>6, <1>7 DEF Fits

LEMMA TakeLinks ==
  ASSUME Basics, Apart, NEW w \in Writers, NEW l \in Logs, GetFreebody(w, l), Orderly',
         NEW S \in SUBSET Pages, Fits(head, file, S, Placed), Links(S),
         NEW R, R = S \ {head.freeList}
  PROVE  Links(R)'
<1> DEFINE a == head.freeList
<1>1. TypeOK /\ Owners
  BY DEF Basics
<1>2. /\ Ring /\ Busy = {} /\ kills' = kills /\ Goes(head, file, a) /\ a \in 1..N
      /\ phase[l] = "new" /\ phase' = [phase EXCEPT ![l] = "writing"]
      /\ addr'[l] = a /\ Live' = Live \cup {l} /\ Used' = Used \cup {a}
      /\ \A k \in Live : k < l /\ addr'[k] = addr[k]
      /\ phase \in [Logs -> {"new", "writing", "held", "freed", "orphan"}]
  <2>1. /\ addr \in [Logs -> Pages \cup {Nowhere}]
        /\ phase \in [Logs -> {"new", "writing", "held", "freed", "orphan"}]
    BY <1>1 DEF TypeOK
  <2>. QED
    BY <2>1, Taking
<1>3. /\ head'.freeList = Nxt(a) /\ head'.freeListEnd = head.freeListEnd /\ head'.todoList = a
      /\ head'.pre = head.pre /\ head'.nxt = head.nxt
      /\ \A p \in Pages \ {0} : file'.page[p] = file.page[p]
      /\ Busy' = {w} /\ writing'[w].body.log = l /\ writing'[w].body.pre = Nxt(a)
      /\ writing'[w].body.nxt = head.todoList
  BY <1>1, <1>2, TakeFacts
<1>4. /\ Logs \subseteq Nat /\ a # 0 /\ a \in S
      /\ \A k \in Live : k \in Logs /\ k \in Placed /\ InUse(k) /\ addr[k] \in Pages \ {0}
      /\ \A k \in Live : k # l
  <2>1. Basics /\ Ring
    BY <1>2
  <2>2. a # 0 /\ a \in S
    BY <1>2 DEF Fits, Chain
  <2>3. Logs \subseteq Nat /\ \A k \in Live : k \in Logs /\ k \in Placed /\ InUse(k) /\ addr[k] \in Pages \ {0}
    BY <2>1, LiveFacts
  <2>. QED
    BY <1>2, <2>2, <2>3 DEF InUse
(* Page 1 is handed out first of all.                                      *)
<1>5. a = 1 => Live = {} /\ head.todoList = 0 /\ head.pre = 0
  BY <1>2, <1>4 DEF Fits, Links
<1>. DEFINE upto(k) == k <= l
<1>6. upto(l) /\ \A k \in Live : upto(k)
  <2>1. ASSUME NEW k \in Live \cup {l} PROVE upto(k)
    <3>1. k \in Nat /\ l \in Nat /\ (k < l \/ k = l)
      BY <1>2, <1>4
    <3>. QED
      BY <3>1
  <2>. QED
    BY <2>1
<1>7. /\ \A k \in Live : First(Live, k) => First(Live', k)
      /\ Last(Live', l) /\ l \in Live'
  BY <1>2, <1>6 DEF First, Last
<1>8. \A n \in Elsewhere(S) : n # a => n \in Elsewhere(R)'
  BY <1>2 DEF Elsewhere
<1>9. \A n \in Elsewhere(S) : n = a => Live = {} /\ n # head.todoList
  BY <1>4, <1>5 DEF Elsewhere
<1>10. Top(R)'
  BY <1>2, <1>3, <1>7 DEF Top
<1>11. /\ head'.nxt = 0 /\ head'.freeListEnd \notin Used'
       /\ \A k \in Live' : addr'[k] = 1 => First(Live', k)
  <2>1. head'.nxt = 0 /\ head'.freeListEnd \notin Used'
    BY <1>2, <1>3 DEF Links, Goes
  <2>2. a = 1 => First(Live', l)
    BY <1>2, <1>4, <1>5 DEF First
  <2>. QED
    BY <1>2, <1>7, <2>1, <2>2 DEF Links
<1>12. 1 \in Used' \/ (1 \in R /\ Goes(head', file', 1)) => head'.pre = 0
  <2>1. 1 \in Pages \ {0}
    BY PageNumbers
  <2>2. ~(1 \in R /\ Goes(head', file', 1))
    BY <1>3, <2>1 DEF Fits, Goes
  <2>. QED
    BY <1>2, <1>3, <1>5, <2>2 DEF Links
<1>13. ASSUME NEW k \in Live', phase'[k] = "held"
       PROVE  /\ Below(Live', addr', Elsewhere(R)', k, file'.page[addr'[k]].nxt)
              /\ \/ Overwritten(addr'[k], file')
                 \/ Above(Live', addr', head'.freeList, k, file'.page[addr'[k]].pre)
  <2>1. k # l /\ k \in Live
    BY <1>2, <1>4, <1>13
  <2>2. phase[k] = "held" /\ addr'[k] = addr[k] /\ file'.page[addr[k]] = file.page[addr[k]]
        /\ file'.page[1] = file.page[1]
    BY <1>2, <1>3, <1>4, <1>13, <2>1, PageNumbers
  <2>3. /\ Below(Live, addr, Elsewhere(S), k, file.page[addr[k]].nxt)
        /\ Overwritten(addr[k], file) \/ Above(Live, addr, a, k, file.page[addr[k]].pre)
    BY <2>1, <2>2 DEF Links
  <2>4. Below(Live', addr', Elsewhere(R)', k, file.page[addr[k]].nxt)
    BY <1>2, <1>4, <1>8, <1>9, <2>1, <2>3, BelowAdded
  <2>5. Above(Live, addr, a, k, file.page[addr[k]].pre)
        => Above(Live', addr', head'.freeList, k, file.page[addr[k]].pre)
    BY <1>2, <1>4, <2>1, AboveAdded
  <2>6. Overwritten(addr[k], file) => Overwritten(addr'[k], file')
    BY <2>2 DEF Overwritten
  <2>. QED
    BY <2>2, <2>3, <2>4, <2>5, <2>6
<1>14. Below(Live', addr', Elsewhere(R)', l, head.todoList)
  <2>1. CASE Live = {} /\ head.todoList \in Elsewhere(S)
    <3>1. First(Live', l) /\ head.todoList \in Elsewhere(R)'
      BY <1>2, <1>4, <1>8, <1>9, <2>1 DEF First
    <3>. QED
      BY <3>1 DEF Below
  <2>2. ASSUME NEW m \in Live, Last(Live, m), addr[m] = head.todoList
        PROVE  Below(Live', addr', Elsewhere(R)', l, head.todoList)
    <3>1. JustBelow(Live', m, l) /\ m \in Live' /\ addr'[m] = head.todoList
      BY <1>2, <1>4, <2>2 DEF JustBelow, Last
    <3>. QED
      BY <3>1 DEF Below
  <2>. QED
    BY <2>1, <2>2 DEF Links, Top
<1>15. \A v \in Busy' : LET m == writing'[v].body.log
                        IN  /\ Below(Live', addr', Elsewhere(R)', m, writing'[v].body.nxt)
                            /\ Last(Live', m) /\ writing'[v].body.pre = head'.freeList
  BY <1>3, <1>7, <1>14
<1>. HIDE DEF a
<1>. QED
  BY <1>10, <1>11, <1>12, <1>13, <1>15 DEF Links

LEMMA TakeApart ==
  ASSUME Basics, Apart, NEW w \in Writers, NEW l \in Logs, GetFreebody(w, l)
  PROVE  Apart'
<1>. SUFFICES ASSUME Orderly' PROVE Ring' /\ InMemory' /\ OnFile' /\ OnDisk'
  BY DEF Apart
<1>1. TypeOK
  BY DEF Basics
<1>2. InMemory /\ OnFile /\ Settled' = Settled /\ Placed' = Placed \cup {l}
      /\ \A k \in Placed : addr'[k] = addr[k] /\ (InUse(k)' <=> InUse(k))
  <2>1. InMemory /\ OnFile /\ Settled' = Settled /\ Placed' = Placed \cup {l}
    BY Taking
  <2>2. \A k \in Placed : addr'[k] = addr[k] /\ (InUse(k)' <=> InUse(k))
    BY Taking
  <2>. QED
    BY <2>1, <2>2
<1>3. PICK S \in SUBSET Pages : Fits(head, file, S, Placed) /\ Links(S)
  BY <1>2 DEF InMemory
<1>4. PICK T \in SUBSET Pages : Fits(file.head, file, T, Placed)
  BY <1>2 DEF OnFile
<1>5. PICK R \in SUBSET Pages : R = S \ {head.freeList}
  OBVIOUS
<1>6. Fits(head, file, R, Placed)'
  BY <1>3, <1>5, TakeFits DEF Links
<1>7. Links(R)'
  BY <1>3, <1>5, TakeLinks
<1>8. InMemory'
  BY <1>6, <1>7 DEF InMemory
<1>9. OnFile'
  <2>1. file'.head = head'
    BY <1>1, TakeFacts
  <2>. QED
    BY <1>6, <2>1 DEF OnFile
(* What the restart would find without the last page is the file before.   *)
<1>10. OnDisk'
  <2>1. flushed' = file
    BY <1>1, TakeFacts
  <2>2. Settled \subseteq Placed
    BY DEF Settled
  <2>3. Fits(flushed.head, flushed, T, Settled)'
    BY <1>2, <1>4, <2>1, <2>2 DEF Fits
  <2>. QED
    BY <2>3 DEF OnDisk
<1>. QED
  BY <1>8, <1>9, <1>10, TakeRing

-----------------------------------------------------------------------------
(* A worker's seek and write.                                              *)

LEMMA SeekApart ==
  ASSUME Basics, Apart, NEW w \in Writers, SeekBody(w)
  PROVE  Apart'
<1>. SUFFICES ASSUME Orderly' PROVE Ring' /\ InMemory' /\ OnFile' /\ OnDisk'
  BY DEF Apart
<1>1. TypeOK /\ UNCHANGED <<file, head, phase, addr, kills, alone, spent>>
  BY DEF Basics, SeekBody
<1>2. Ring /\ InMemory /\ OnFile
  BY <1>1 DEF Apart, Orderly
<1>3. /\ Busy' = Busy /\ flushed' = file /\ pos' = writing[w].addr /\ w \in Busy
      /\ \A v \in Busy : writing'[v].body = writing[v].body /\ writing'[v].addr = writing[v].addr
  BY <1>1, SeekFacts DEF Busy
<1>4. Live' = Live /\ Used' = Used /\ Placed' = Placed /\ Settled' = Settled
  BY <1>1 DEF Live, InUse, Used, Placed, Settled
<1>5. Ring'
  <2>1. Busy = {w}
    BY <1>2, <1>3 DEF Ring, TheWriter
  <2>2. TheWriter'
    BY <1>1, <1>2, <1>3, <2>1 DEF Ring, TheWriter
  <2>. QED
    BY <1>1, <1>2, <2>2 DEF Ring, NotShared
<1>6. ASSUME NEW S PROVE /\ Fits(head, file, S, Placed) => Fits(head, file, S, Placed)'
                         /\ Fits(file.head, file, S, Placed) => Fits(file.head, file, S, Placed)'
                         /\ Links(S) => Links(S)'
  <2>1. /\ Fits(head, file, S, Placed) => Fits(head, file, S, Placed)'
        /\ Fits(file.head, file, S, Placed) => Fits(file.head, file, S, Placed)'
    BY <1>1, <1>4 DEF Fits, InUse
  <2>2. Elsewhere(S)' = Elsewhere(S)
    BY <1>1, <1>4 DEF Elsewhere
  <2>3. Links(S) => Links(S)'
    BY <1>1, <1>3, <1>4, <2>2 DEF Links, Top
  <2>. QED
    BY <2>1, <2>3
<1>7. InMemory' /\ OnFile'
  BY <1>1, <1>2, <1>6 DEF InMemory, OnFile
<1>8. OnDisk'
  <2>1. PICK S \in SUBSET Pages : Fits(file.head, file, S, Placed)
    BY <1>2 DEF OnFile
  <2>2. Fits(flushed.head, flushed, S, Settled)'
    <3>1. Settled \subseteq Placed
      BY DEF Settled
    <3>. QED
      BY <1>1, <1>3, <1>4, <2>1, <3>1 DEF Fits, InUse
  <2>. QED
    BY <2>2 DEF OnDisk
<1>. QED
  BY <1>5, <1>7, <1>8

LEMMA WriteApart ==
  ASSUME Basics, Apart, NEW w \in Writers, WriteBody(w)
  PROVE  Apart'
<1>. SUFFICES ASSUME Orderly' PROVE Ring' /\ InMemory' /\ OnFile' /\ OnDisk'
  BY DEF Apart
<1>1. TypeOK /\ Owners /\ UNCHANGED <<flushed, head, addr, kills, alone, spent>>
  BY WriteFacts DEF Basics
<1>2. Ring /\ InMemory /\ OnFile
  BY <1>1 DEF Apart, Orderly
<1> DEFINE l == writing[w].body.log
           a == writing[w].addr
<1>3. /\ w \in Busy /\ Busy = {w} /\ Busy' = {} /\ a = pos /\ flushed = file
      /\ l \in Logs /\ phase[l] = "writing" /\ addr[l] = a /\ a \in Pages \ {0}
  <2>1. w \in Busy /\ w \in Writers /\ Busy' = Busy \ {w} /\ writing[w].seeked
    BY <1>1, WriteFacts
  <2>2. Busy = {w} /\ a = pos /\ flushed = file
    BY <1>2, <2>1 DEF Ring, TheWriter
  <2>3. phase[l] = "writing" /\ addr[l] = a
    BY <1>1, <2>1 DEF Owners
  <2>4. l \in Logs /\ a \in Pages
    BY <1>1, <2>1, BusyFacts
  <2>. QED
    BY <1>2, <2>1, <2>2, <2>3, <2>4 DEF Ring
<1>4. /\ file'.head = file.head
      /\ \A p \in Pages : file'.page[p] = IF p = a THEN writing[w].body ELSE file.page[p]
      /\ phase' = [phase EXCEPT ![l] = "held"]
      /\ phase \in [Logs -> {"new", "writing", "held", "freed", "orphan"}]
  BY <1>1, <1>3, WriteFacts DEF TypeOK
<1>5. PICK S \in SUBSET Pages : Fits(head, file, S, Placed) /\ Links(S)
  BY <1>2 DEF InMemory
<1>6. PICK T \in SUBSET Pages :
        /\ Fits(file.head, file, T, Placed)
        /\ head.freeListEnd = file.head.freeListEnd \/ head.freeListEnd \notin T
  BY <1>2 DEF OnFile
<1>7. l \in Live /\ a \in Used /\ l \in Placed
  <2>1. l \in Live /\ Basics /\ Ring
    BY <1>2, <1>3 DEF Live, InUse
  <2>. QED
    BY <1>3, <2>1, LiveFacts
<1>8. Below(Live, addr, Elsewhere(S), l, writing[w].body.nxt) /\ Last(Live, l)
      /\ writing[w].body.pre = head.freeList
  BY <1>3, <1>5 DEF Links
<1>. HIDE DEF l, a
<1>9. /\ Live' = Live /\ Used' = Used /\ Placed' = Placed
      /\ \A k \in Placed : InUse(k)' <=> InUse(k)
  BY <1>1, <1>3, <1>4 DEF Live, InUse, Used, Placed
<1>10. Ring'
  <2>1. \A k \in Logs : phase'[k] = "new" <=> phase[k] = "new"
    BY <1>3, <1>4
  <2>. QED
    BY <1>1, <1>2, <1>3, <2>1 DEF Ring, NotShared, TheWriter
<1>11. ASSUME NEW U \in SUBSET Pages, NEW h, Fits(h, file, U, Placed)
       PROVE  Chain(h, file', U) /\ (1 \in U => (Goes(h, file', 1) <=> Goes(h, file, 1)))
              /\ file'.page[0].pre = file.page[0].pre
  <2>1. a \notin U
    BY <1>3, <1>7, <1>11 DEF Fits
  <2>2. file'.page[0] = file.page[0] /\ \A p \in U : file'.page[p] = file.page[p]
    BY <1>3, <1>4, <2>1, PageNumbers
  <2>3. Chain(h, file', U)
    BY <1>11, <2>2 DEF Fits, Chain, Goes
  <2>. QED
    BY <2>2, <2>3 DEF Goes
<1>12. Fits(head, file, S, Placed)' /\ Fits(file.head, file, T, Placed)'
  <2>1. Fits(head, file, S, Placed)'
    BY <1>1, <1>5, <1>9, <1>11 DEF Fits
  <2>2. Fits(file.head, file, T, Placed)'
    BY <1>1, <1>4, <1>6, <1>9, <1>11 DEF Fits
  <2>. QED
    BY <2>1, <2>2
<1>13. Links(S)'
  <2>1. Elsewhere(S)' = Elsewhere(S)
    BY <1>1, <1>9 DEF Elsewhere
  <2>2. 1 \in S => (Goes(head, file, 1)' <=> Goes(head, file, 1))
    BY <1>1, <1>5, <1>11 DEF Goes
  <2>3. ASSUME NEW k \in Live, phase'[k] = "held"
        PROVE  /\ Below(Live, addr, Elsewhere(S), k, file'.page[addr[k]].nxt)
               /\ \/ Overwritten(addr[k], file')
                  \/ Above(Live, addr, head.freeList, k, file'.page[addr[k]].pre)
    <3>1. CASE k = l
      <4>1. file'.page[addr[k]] = writing[w].body
        BY <1>3, <1>4, <3>1
      <4>2. Above(Live, addr, head.freeList, k, writing[w].body.pre)
        BY <1>8, <3>1 DEF Above
      <4>. QED
        BY <1>8, <3>1, <4>1, <4>2
    <3>2. CASE k # l
      <4>1. phase[k] = "held" /\ addr[k] # a /\ addr[k] \in Pages
        <5>1. Basics /\ Ring
          BY <1>2
        <5>2. k \in Logs /\ addr[k] \in Pages /\ (addr[k] = addr[l] => k = l)
          BY <1>7, <5>1, LiveFacts
        <5>. QED
          BY <1>3, <1>4, <2>3, <3>2, <5>2
      <4>2. file'.page[addr[k]] = file.page[addr[k]]
        BY <1>4, <4>1
      <4>3. Overwritten(addr[k], file) => Overwritten(addr[k], file')
        BY <4>2 DEF Overwritten
      <4>. QED
        BY <1>5, <4>1, <4>2, <4>3 DEF Links
    <3>. QED
      BY <3>1, <3>2
  <2>. QED
    BY <1>1, <1>3, <1>5, <1>9, <2>1, <2>2, <2>3 DEF Links, Top
<1>14. InMemory' /\ OnFile'
  BY <1>1, <1>4, <1>6, <1>12, <1>13 DEF InMemory, OnFile
<1>15. OnDisk'
  <2>1. Settled' \subseteq Placed
    BY <1>9 DEF Settled
  <2>2. Fits(flushed.head, flushed, T, Settled)'
    BY <1>1, <1>3, <1>6, <1>9, <2>1 DEF Fits
  <2>. QED
    BY <2>2 DEF OnDisk
<1>. QED
  BY <1>10, <1>14, <1>15

-----------------------------------------------------------------------------
(* FreeLog.  What it writes outside the list of entries in use is the end  *)
(* of the free list, and page 1.                                           *)

LEMMA PreInUse ==
  ASSUME Basics, Ring, Busy = {}, NEW S, Links(S), NEW l \in Live, head.todoList # addr[l]
  PROVE  \/ Pre(addr[l]) \in Used \ {addr[l]}
         \/ addr[l] = 1 /\ Pre(addr[l]) = 0 /\ Nxt(addr[l]) = 0
<1> DEFINE a == addr[l]
<1>1. /\ \A k \in Live : k \in Nat /\ addr[k] \in Used /\ (addr[k] = a => k = l)
      /\ phase[l] = "held"
  BY LiveFacts
<1>2. ~Last(Live, l)
  <2>. SUFFICES ASSUME Last(Live, l) PROVE FALSE
    OBVIOUS
  <2>1. PICK m \in Live : Last(Live, m) /\ addr[m] = head.todoList
    BY DEF Links, Top
  <2>2. l <= m /\ m <= l /\ m \in Nat /\ l \in Nat
    BY <1>1, <2>1 DEF Last
  <2>. QED
    BY <2>1, <2>2
<1>3. Overwritten(a, file) \/ Above(Live, addr, head.freeList, l, Pre(a))
  BY <1>1 DEF Links, Pre
<1>4. CASE Overwritten(a, file)
  BY <1>4 DEF Overwritten, Pre, Nxt
<1>5. CASE Above(Live, addr, head.freeList, l, Pre(a))
  <2>1. PICK m \in Live : l < m /\ Pre(a) = addr[m]
    BY <1>2, <1>5 DEF Above, JustAbove
  <2>2. m # l
    <3>1. l \in Nat /\ m \in Nat
      BY <1>1
    <3>. QED
      BY <2>1, <3>1
  <2>. QED
    BY <1>1, <2>1, <2>2
<1>. QED
  BY <1>3, <1>4, <1>5

(* None of its writes disturbs a free list that the header in the file     *)
(* starts.                                                                 *)
LEMMA WritesFit ==
  ASSUME Basics, Ring, Busy = {}, NEW S, Fits(head, file, S, Placed), Links(S), NEW l \in Live,
         NEW T, Fits(file.head, file, T, Placed),
         head.freeListEnd = file.head.freeListEnd \/ head.freeListEnd \notin T,
         NEW s \in Writes(addr[l])
  PROVE  Chain(file.head, s, T) /\ (1 \in T => ~Goes(file.head, s, 1))
<1> DEFINE a == addr[l]
<1>1. TypeOK /\ NumsZero /\ a \in Pages \ {0} /\ l \in Placed /\ InUse(l) /\ Pages = 0..N
      /\ N \in Nat
  BY LiveFacts DEF Basics
<1>2. /\ Chain(file.head, file, T) /\ a \notin T /\ T \subseteq 1..N /\ T \cap Used = {}
      /\ 1 \in T => ~Goes(file.head, file, 1)
  <2>1. /\ Chain(file.head, file, T) /\ \A k \in Placed : addr[k] \notin T
        /\ 1 \in T => ~Goes(file.head, file, 1)
    BY <1>1 DEF Fits
  <2>2. Live \subseteq Placed
    BY LiveFacts
  <2>. QED
    BY <1>1, <2>1, <2>2 DEF Chain, Used
<1>3. head.freeListEnd # 0 /\ head.nxt = 0 /\ file.head.freeListEnd # 0
  BY <1>2 DEF Fits, Chain, Links
<1>4. /\ head.todoList # a =>
           \/ Pre(a) \in Used \ {a}
           \/ a = 1 /\ Pre(a) = 0 /\ Nxt(a) = 0
      /\ 0 \notin Used
  BY PreInUse, LiveFacts
<1>5. \A p \in Pages \ {a} :
        \/ s.page[p].nxt = Nxt(p)
        \/ p = head.freeListEnd
        \/ head.todoList # a /\ p = Pre(a) /\ s.page[p].nxt = Nxt(a)
        \/ p = 1 /\ s.page[p].nxt = head.nxt
  BY <1>1, WritesLeave
<1>. HIDE DEF a
<1>6. s.page[0].nxt = 0
  <2>1. 0 \in Pages \ {a} /\ Nxt(0) = 0
    BY <1>1, <1>2 DEF Chain, Nxt
  <2>2. 0 # head.freeListEnd /\ (head.todoList # a /\ 0 = Pre(a) => Nxt(a) = 0)
    BY <1>3, <1>4
  <2>. QED
    BY <1>5, <2>1, <2>2
<1>7. ASSUME NEW p \in T, Goes(file.head, s, p)
      PROVE  Goes(file.head, file, p) /\ s.page[p].nxt = file.page[p].nxt
  <2>1. p \in Pages \ {a} /\ p # 0 /\ p \notin Used
    BY <1>1, <1>2
  <2>2. p # head.freeListEnd
    BY <1>7 DEF Goes
  <2>3. ~(p = 1 /\ s.page[p].nxt = head.nxt)
    BY <1>3, <1>7 DEF Goes
  <2>4. ~(head.todoList # a /\ p = Pre(a))
    BY <1>4, <2>1
  <2>5. s.page[p].nxt = Nxt(p)
    BY <1>5, <2>1, <2>2, <2>3, <2>4
  <2>. QED
    BY <1>7, <2>5 DEF Goes, Nxt
<1>8. Chain(file.head, s, T)
  BY <1>2, <1>3, <1>6, <1>7, ChainStays
<1>. QED
  BY <1>2, <1>7, <1>8

LEMMA Freeing ==
  ASSUME Basics, Apart, NEW w \in Writers, NEW l \in Logs, FreeLog(w, l), Orderly'
  PROVE  /\ Orderly /\ Ring /\ InMemory /\ OnFile /\ Busy = {} /\ Busy' = {} /\ kills' = kills
         /\ l \in Live /\ addr[l] \in Pages \ {0} /\ addr'[l] = Nowhere
         /\ phase' = [phase EXCEPT ![l] = "freed"] /\ addr' = [addr EXCEPT ![l] = Nowhere]
         /\ Placed' = Placed \ {l} /\ Settled' = Settled \ {l}
         /\ Live' = Live \ {l} /\ Used' = Used \ {addr[l]}
         /\ \A k \in Placed \ {l} : addr'[k] = addr[k] /\ (InUse(k)' <=> InUse(k))
         /\ \A k \in Live \ {l} : addr'[k] = addr[k] /\ phase'[k] = phase[k]
         /\ \A k \in Placed \ {l} : addr[k] # addr[l]
<1>1. TypeOK /\ Owners
  BY DEF Basics
<1>2. Orderly /\ Busy = {} /\ Busy' = {} /\ kills' = kills
  <2>1. (alone' => alone /\ Busy = {})
    BY <1>1, BusyFacts DEF FreeLog, EntersMutex
  <2>2. writing' = writing /\ kills' = kills /\ spent' = spent
    BY FreeFacts
  <2>. QED
    BY <2>1, <2>2 DEF Orderly, Busy
<1>3. Ring /\ InMemory /\ OnFile
  BY <1>2 DEF Apart
<1>4. /\ phase[l] = "held" /\ phase' = [phase EXCEPT ![l] = "freed"]
      /\ addr' = [addr EXCEPT ![l] = Nowhere]
      /\ phase \in [Logs -> {"new", "writing", "held", "freed", "orphan"}]
      /\ addr \in [Logs -> Pages \cup {Nowhere}]
  BY <1>1, FreeFacts DEF TypeOK
<1>5. l \in Live
  BY <1>4 DEF Live, InUse
<1>6. addr[l] \in Pages \ {0} /\ l \in Placed
  BY <1>3, <1>5, LiveFacts
<1>7. Placed' = Placed \ {l} /\ Settled' = Settled \ {l} /\ Live' = Live \ {l} /\ Live \subseteq Logs
  BY <1>4 DEF Placed, Settled, Live, InUse
<1>8. /\ \A k \in Placed \ {l} : addr'[k] = addr[k] /\ (InUse(k)' <=> InUse(k))
      /\ \A k \in Live \ {l} : addr'[k] = addr[k] /\ phase'[k] = phase[k]
  BY <1>4, <1>7 DEF InUse, Placed
<1>9. \A k \in Placed \ {l} : addr[k] # addr[l]
  BY <1>3 DEF Ring, NotShared, Placed
<1>10. Used' = Used \ {addr[l]}
  <2>1. \A k \in Live : k \in Placed
    BY <1>3, LiveFacts
  <2>. QED
    BY <1>7, <1>8, <1>9, <2>1 DEF Used
<1>11. addr'[l] = Nowhere
  BY <1>4
<1>. QED
  BY <1>2, <1>3, <1>4, <1>5, <1>6, <1>7, <1>8, <1>9, <1>10, <1>11

(* The entry freed is appended to the free list of the memory.             *)
LEMMA FreeFits ==
  ASSUME Basics, Apart, NEW w \in Writers, NEW l \in Logs, FreeLog(w, l), Orderly',
         NEW S \in SUBSET Pages, Fits(head, file, S, Placed), Links(S),
         NEW R, R = S \cup {addr[l]}
  PROVE  Fits(head, file, R, Placed)'
<1> DEFINE a == addr[l]
           s == file'
<1>1. TypeOK /\ NumsZero /\ Ring /\ Busy = {} /\ l \in Live /\ a \in Pages \ {0} /\ l \in Placed
      /\ Placed' = Placed \ {l} /\ \A k \in Placed \ {l} : addr'[k] = addr[k] /\ addr[k] # a
  BY Freeing, LiveFacts DEF Basics
<1>2. /\ Chain(head, file, S) /\ a \notin S /\ S \subseteq 1..N /\ S \cap Used = {} /\ a \in Used
      /\ N \in Nat /\ Pages = 0..N /\ 0 \notin Used
  <2>1. Chain(head, file, S) /\ \A k \in Placed : addr[k] \notin S
    BY DEF Fits
  <2>2. Live \subseteq Placed /\ N \in Nat /\ Pages = 0..N /\ 0 \notin Used /\ a \in Used
    BY <1>1, LiveFacts
  <2>. QED
    BY <1>1, <2>1, <2>2 DEF Chain, Used
<1>3. /\ s = Freed(a) /\ s \in Writes(a) /\ head'.freeList = head.freeList /\ head'.freeListEnd = a
      /\ head'.todoList = IF head.todoList = a THEN Nxt(a) ELSE head.todoList
  <2>1. s = Freed(a)
    BY FreeFacts
  <2>. QED
    BY <2>1, FreeFacts DEF Writes
<1>4. head.freeListEnd # 0 /\ head.nxt = 0
  BY <1>2 DEF Chain, Links
<1>5. /\ head.todoList # a =>
           \/ Pre(a) \in Used \ {a}
           \/ a = 1 /\ Pre(a) = 0 /\ Nxt(a) = 0
  BY <1>1, PreInUse
<1>6. \A p \in Pages \ {a} :
        \/ s.page[p].nxt = Nxt(p)
        \/ p = head.freeListEnd
        \/ head.todoList # a /\ p = Pre(a) /\ s.page[p].nxt = Nxt(a)
        \/ p = 1 /\ s.page[p].nxt = head.nxt
  BY <1>1, <1>3, WritesLeave
<1>7. 1 \in Pages /\ s.page[1].nxt = 0
  BY <1>1, <1>3, <1>4, PageNumbers, FreedPages
<1>8. head.freeListEnd \in S /\ Goes(head', s, head.freeListEnd) => s.page[head.freeListEnd].nxt = a
  <2>. SUFFICES ASSUME head.freeListEnd \in S, Goes(head', s, head.freeListEnd)
                PROVE  s.page[head.freeListEnd].nxt = a
    OBVIOUS
  <2>1. head.freeListEnd \in Pages \ {a, 1}
    BY <1>2, <1>7 DEF Goes
  <2>. QED
    BY <1>1, <1>3, <2>1, FreedLinks
<1>. HIDE DEF a, s
<1>9. s.page[0].nxt = 0
  <2>1. 0 \in Pages \ {a} /\ Nxt(0) = 0
    BY <1>1, <1>2 DEF Chain, Nxt
  <2>2. 0 # head.freeListEnd /\ (head.todoList # a /\ 0 = Pre(a) => Nxt(a) = 0)
    BY <1>2, <1>4, <1>5
  <2>. QED
    BY <1>4, <1>6, <2>1, <2>2
<1>10. ASSUME NEW p \in S \ {head.freeListEnd}, Goes(head', s, p)
       PROVE  Goes(head, file, p) /\ s.page[p].nxt = file.page[p].nxt
  <2>1. p \in Pages \ {a} /\ p # 0 /\ p \notin Used
    BY <1>2
  <2>2. ~(p = 1 /\ s.page[p].nxt = head.nxt)
    BY <1>4, <1>10 DEF Goes
  <2>3. ~(head.todoList # a /\ p = Pre(a))
    BY <1>5, <2>1
  <2>4. s.page[p].nxt = Nxt(p)
    BY <1>6, <2>1, <2>2, <2>3
  <2>. QED
    BY <1>10, <2>4 DEF Goes, Nxt
<1>11. Chain(head', s, R)
  <2>1. R = S \cup {a}
    BY DEF a
  <2>2. a \in (1..N) \ S
    BY <1>1, <1>2
  <2>3. Chain(head, file, S) /\ head'.freeList = head.freeList /\ head'.freeListEnd = a
    BY <1>2, <1>3
  <2>4. Chain(head', s, S \cup {a})
    BY ONLY <1>8, <1>9, <1>10, <2>2, <2>3, ChainGrown
  <2>. QED
    BY <2>1, <2>4
<1>12. head'.todoList \notin R \/ head'.todoList = 1
  <2>1. CASE head.todoList = a
    <3>1. Below(Live, addr, Elsewhere(S), l, Nxt(a))
      <4>1. phase[l] = "held"
        BY <1>1, LiveFacts
      <4>. QED
        BY <1>1, <4>1 DEF Links, Nxt, a
    <3>2. CASE Nxt(a) \in Elsewhere(S)
      BY <1>2, <1>3, <2>1, <3>2 DEF Elsewhere, a
    <3>3. ASSUME NEW m \in Live, JustBelow(Live, m, l), Nxt(a) = addr[m] PROVE Nxt(a) \notin R
      <4>1. m # l /\ m \in Placed /\ addr[m] \in Used
        <5>1. m \in Nat /\ l \in Nat /\ m < l /\ m \in Placed /\ addr[m] \in Used
          BY <1>1, <3>3, LiveFacts DEF JustBelow
        <5>. QED
          BY <5>1
      <4>. QED
        BY <1>1, <1>2, <3>3, <4>1 DEF a
    <3>. QED
      BY <1>3, <2>1, <3>1, <3>2, <3>3 DEF Below
  <2>2. CASE head.todoList # a
    <3>1. PICK m \in Live : addr[m] = head.todoList
      BY <1>1 DEF Links, Top
    <3>2. addr[m] \in Used
      BY <1>1, LiveFacts
    <3>. QED
      BY <1>2, <1>3, <2>2, <3>1, <3>2 DEF a
  <2>. QED
    BY <2>1, <2>2
<1>13. \A k \in Placed' : addr'[k] \notin R
  BY <1>1 DEF Fits, a
<1>14. ~Goes(head', s, 1)
  BY <1>7 DEF Goes
<1>. QED
  BY <1>11, <1>12, <1>13, <1>14 DEF Fits, s

LEMMA FreeLinks ==
  ASSUME Basics, Apart, NEW w \in Writers, NEW l \in Logs, FreeLog(w, l), Orderly',
         NEW S \in SUBSET Pages, Fits(head, file, S, Placed), Links(S),
         NEW R, R = S \cup {addr[l]}
  PROVE  Links(R)'
<1> DEFINE a == addr[l]
           t == head.todoList
           free == head.freeList
           E == Elsewhere(S)
           F == Elsewhere(R)'
<1>1. TypeOK /\ NumsZero /\ Ring /\ Busy = {} /\ Busy' = {} /\ kills' = kills
      /\ l \in Live /\ Live' = Live \ {l} /\ Used' = Used \ {a} /\ a \in Pages \ {0}
      /\ \A k \in Live \ {l} : addr'[k] = addr[k] /\ phase'[k] = phase[k]
  BY Freeing DEF Basics
<1>2. /\ Live \subseteq Nat /\ a \in Used /\ 0 \notin Used
      /\ \A k \in Live : addr[k] \in Pages \ {0} /\ addr[k] \in Used /\ phase[k] = "held"
      /\ \A j, k \in Live : addr[j] = addr[k] => j = k
  BY <1>1, LiveFacts
<1>3. /\ file' = Freed(a) /\ head'.freeList = free /\ head'.freeListEnd = a
      /\ head'.todoList = (IF t = a THEN Nxt(a) ELSE t)
      /\ head'.pre = head.pre /\ head'.nxt = head.nxt
  BY FreeFacts
<1>4. head.nxt = 0 /\ head.freeListEnd \notin Used /\ (1 \in Used => head.pre = 0)
      /\ \A k \in Live : addr[k] = 1 => First(Live, k)
  BY DEF Links
<1>5. 1 \in Pages /\ file'.page[1].nxt = 0 /\ file'.page[1].pre = head.pre
  BY <1>1, <1>3, <1>4, PageNumbers, FreedPages
<1>6. \A k \in Live : /\ Below(Live, addr, E, k, Nxt(addr[k]))
                      /\ Overwritten(addr[k], file) \/ Above(Live, addr, free, k, Pre(addr[k]))
  BY <1>2 DEF Links, Nxt, Pre
<1>7. /\ \A n \in E : n \in F /\ n \notin Used
      /\ 0 \in F /\ (1 \notin Used' => 1 \in F)
  BY <1>1, <1>2, <1>5, PageNumbers DEF Elsewhere
<1>. HIDE DEF E, F, a, free, t
<1>8. l \in Nat /\ ~JustBelow(Live, l, l) /\ ~JustAbove(Live, l, l)
      /\ (t = a => Last(Live, l))
  <2>1. l \in Nat /\ ~(l < l)
    BY <1>1, <1>2
  <2>2. t = a => Last(Live, l)
    BY <1>1, <1>2 DEF Links, Top, t, a
  <2>. QED
    BY <2>1, <2>2 DEF JustBelow, JustAbove
<1>9. \A k \in Live \ {l} : First(Live, k) => First(Live', k)
  BY <1>1 DEF First
<1>10. Top(R)'
  <2>1. CASE t = a
    <3>1. ASSUME NEW m \in Live, JustBelow(Live, m, l), Nxt(a) = addr[m] PROVE Top(R)'
      <4>1. m # l /\ \A k \in Live \ {l} : k < l
        <5>1. m # l
          BY <1>8, <3>1
        <5>2. ASSUME NEW k \in Live \ {l} PROVE k < l
          <6>1. k <= l /\ k # l /\ k \in Nat
            BY <1>2, <1>8, <2>1 DEF Last
          <6>. QED
            BY <1>8, <6>1
        <5>. QED
          BY <5>1, <5>2
      <4>2. Last(Live', m) /\ m \in Live' /\ addr'[m] = head'.todoList
        BY <1>1, <1>3, <2>1, <3>1, <4>1 DEF Last, JustBelow
      <4>. QED
        BY <4>2 DEF Top
    <3>2. CASE First(Live, l) /\ Nxt(a) \in E
      <4>1. Live' = {}
        <5>1. ASSUME NEW k \in Live PROVE k = l
          <6>1. k <= l /\ l <= k /\ k \in Nat
            BY <1>2, <1>8, <2>1, <3>2 DEF First, Last
          <6>. QED
            BY <1>8, <6>1
        <5>. QED
          BY <1>1, <5>1
      <4>. QED
        BY <1>3, <1>7, <2>1, <3>2, <4>1 DEF Top, F
    <3>3. Below(Live, addr, E, l, Nxt(a))
      BY <1>1, <1>6 DEF a
    <3>. QED
      BY <3>1, <3>2, <3>3 DEF Below
  <2>2. CASE t # a
    <3>1. PICK m \in Live : Last(Live, m) /\ addr[m] = t
      BY <1>1 DEF Links, Top, t
    <3>2. m # l
      BY <2>2, <3>1 DEF a
    <3>3. m \in Live' /\ Last(Live', m) /\ addr'[m] = head'.todoList
      BY <1>1, <1>3, <2>2, <3>1, <3>2 DEF Last
    <3>. QED
      BY <3>3 DEF Top
  <2>. QED
    BY <2>1, <2>2
<1>11. /\ head'.nxt = 0 /\ head'.freeListEnd \notin Used'
       /\ 1 \in Used' \/ (1 \in R /\ Goes(head', file', 1)) => head'.pre = 0
       /\ \A k \in Live' : addr'[k] = 1 => First(Live', k)
  <2>1. ~Goes(head', file', 1)
    BY <1>5 DEF Goes
  <2>. QED
    BY <1>1, <1>3, <1>4, <1>9, <2>1
<1>12. ASSUME NEW k \in Live'
       PROVE  /\ Below(Live', addr', F, k, file'.page[addr'[k]].nxt)
              /\ \/ Overwritten(addr'[k], file')
                 \/ Above(Live', addr', free, k, file'.page[addr'[k]].pre)
  <2> DEFINE b == addr[k]
  <2>1. k \in Live /\ k # l /\ addr'[k] = b /\ b \in Pages \ {0} /\ b \in Used /\ b # a
    BY <1>1, <1>2, <1>12 DEF a
  <2>2. CASE b = 1
    <3>1. First(Live', k) /\ Overwritten(1, file')
      BY <1>4, <1>5, <1>9, <2>1, <2>2 DEF Overwritten
    <3>. QED
      BY <1>5, <1>7, <2>1, <2>2, <3>1 DEF Below
  <2>3. CASE b # 1
    <3> DEFINE n == file'.page[b].nxt
               p == file'.page[b].pre
    <3>1. /\ n = IF t # a /\ b = Pre(a) THEN Nxt(a) ELSE Nxt(b)
          /\ p = IF b = Nxt(a) THEN Pre(a) ELSE Pre(b)
      <4>1. b \in Pages \ {a, 1} /\ b # head.freeListEnd
        BY <1>4, <2>1, <2>3
      <4>. QED
        BY <1>1, <1>3, <4>1, FreedLinks DEF t
    <3>2. /\ Below(Live, addr, E, k, Nxt(b)) /\ Above(Live, addr, free, k, Pre(b))
          /\ Below(Live, addr, E, l, Nxt(a))
          /\ Overwritten(a, file) \/ Above(Live, addr, free, l, Pre(a))
      BY <1>1, <1>6, <2>1, <2>3 DEF Overwritten, a
    <3>. HIDE DEF b, n, p
    (* If b names a, or a names b, the two are neighbours.                 *)
    <3>3. Nxt(b) = a => JustBelow(Live, l, k)
      BY <1>1, <1>2, <1>7, <3>2 DEF Below, a
    <3>4. Pre(b) = a => Last(Live, k) \/ JustAbove(Live, l, k)
      BY <1>1, <1>2, <3>2 DEF Above, a
    <3>5. Nxt(a) = b => JustBelow(Live, k, l)
      BY <1>2, <1>7, <2>1, <3>2 DEF Below, b
    <3>6. Pre(a) = b /\ t # a => JustAbove(Live, k, l)
      <4>. SUFFICES ASSUME Pre(a) = b, t # a PROVE JustAbove(Live, k, l)
        OBVIOUS
      <4>1. ~Overwritten(a, file)
        BY <2>1 DEF Overwritten, Pre
      <4>2. ~Last(Live, l)
        <5>. SUFFICES ASSUME Last(Live, l) PROVE FALSE
          OBVIOUS
        <5>1. PICK m \in Live : Last(Live, m) /\ addr[m] = t
          BY <1>1 DEF Links, Top, t
        <5>2. l <= m /\ m <= l /\ m \in Nat
          BY <1>1, <1>2, <5>1 DEF Last
        <5>. QED
          BY <1>8, <5>1, <5>2 DEF a
      <4>. QED
        BY <1>2, <2>1, <3>2, <4>1, <4>2 DEF Above, b
    <3>7. Below(Live', addr', F, k, n)
      <4>1. CASE t # a /\ b = Pre(a)
        <5>1. JustBelow(Live, l, k)
          BY <1>1, <1>2, <2>1, <3>6, <4>1, Opposite
        <5>2. n = Nxt(a) /\ (Nxt(a) \in E => Nxt(a) \in F)
          BY <1>7, <3>1, <4>1
        <5>. QED
          BY <1>1, <1>2, <2>1, <3>2, <5>1, <5>2, BelowRemoved
      <4>2. CASE ~(t # a /\ b = Pre(a))
        <5>1. n = Nxt(b) /\ (Nxt(b) \in E => Nxt(b) \in F)
          BY <1>7, <3>1, <4>2
        <5>2. CASE Nxt(b) # a
          BY <1>1, <1>2, <2>1, <3>2, <5>1, <5>2, BelowRemoved DEF a
        <5>3. CASE Nxt(b) = a
          <6>1. JustBelow(Live, l, k) /\ JustAbove(Live, k, l)
            BY <1>1, <1>2, <2>1, <3>3, <5>3, Opposite
          <6>2. ~Last(Live, l)
            <7>1. l < k /\ l \in Nat /\ k \in Nat
              BY <1>2, <1>8, <2>1, <6>1 DEF JustBelow
            <7>2. ~(k <= l)
              BY <7>1
            <7>. QED
              BY <2>1, <7>2 DEF Last
          <6>3. ASSUME NEW m \in Live, JustAbove(Live, m, l) PROVE m = k
            <7>1. m <= k /\ k <= m /\ m \in Nat /\ k \in Nat
              BY <1>2, <2>1, <6>1, <6>3 DEF JustAbove
            <7>. QED
              BY <7>1
          <6>4. t # a
            BY <1>8, <6>2
          <6>5. Overwritten(a, file)
            BY <3>2, <4>2, <6>2, <6>3, <6>4 DEF Above, b
          <6>6. a = 1 /\ First(Live, l)
            BY <1>1, <1>4, <6>5 DEF Overwritten, a
          <6>7. First(Live', k)
            <7>1. ASSUME NEW j \in Live' PROVE k <= j
              <8>1. l <= j /\ l # j /\ j \in Nat /\ j \in Live
                BY <1>1, <1>2, <6>6, <7>1 DEF First
              <8>2. l < j
                BY <1>8, <8>1
              <8>. QED
                BY <6>1, <8>1, <8>2 DEF JustAbove
            <7>. QED
              BY <7>1 DEF First
          <6>8. 1 \in F
            BY <1>1, <1>7, <6>6
          <6>. QED
            BY <5>1, <5>3, <6>6, <6>7, <6>8 DEF Below
        <5>. QED
          BY <5>2, <5>3
      <4>. QED
        BY <4>1, <4>2
    <3>8. Above(Live', addr', free, k, p)
      <4>1. CASE b = Nxt(a)
        <5>1. JustAbove(Live, l, k) /\ p = Pre(a)
          BY <1>1, <1>2, <2>1, <3>1, <3>5, <4>1, Opposite
        <5>2. ~Overwritten(a, file)
          BY <2>1, <4>1 DEF Overwritten, Nxt
        <5>3. Above(Live, addr, free, l, Pre(a))
          BY <3>2, <5>2
        <5>. QED
          BY <1>1, <1>2, <2>1, <5>1, <5>3, AboveRemoved
      <4>2. CASE b # Nxt(a)
        <5>1. p = Pre(b)
          BY <3>1, <4>2
        <5>2. Pre(b) = a => Last(Live, k)
          <6>. SUFFICES ASSUME JustAbove(Live, l, k) PROVE FALSE
            BY <3>4
          <6>1. JustBelow(Live, k, l) /\ k < l
            BY <1>1, <1>2, <2>1, Opposite DEF JustAbove
          <6>2. ~First(Live, l)
            <7>1. ~(l <= k)
              BY <1>2, <1>8, <2>1, <6>1
            <7>. QED
              BY <2>1, <7>1 DEF First
          <6>3. PICK m \in Live : JustBelow(Live, m, l) /\ Nxt(a) = addr[m]
            BY <3>2, <6>2 DEF Below
          <6>4. m <= k /\ k <= m /\ m \in Nat /\ k \in Nat
            BY <1>2, <2>1, <6>1, <6>3 DEF JustBelow
          <6>5. m = k
            BY <6>4
          <6>. QED
            BY <4>2, <6>3, <6>5 DEF b
        <5>. QED
          BY <1>1, <1>2, <2>1, <3>2, <5>1, <5>2, AboveRemoved DEF a
      <4>. QED
        BY <4>1, <4>2
    <3>9. file'.page[addr'[k]].nxt = n /\ file'.page[addr'[k]].pre = p
      BY <2>1 DEF n, p
    <3>. QED
      BY <3>7, <3>8, <3>9
  <2>. QED
    BY <2>2, <2>3
<1>. QED
  BY <1>1, <1>3, <1>10, <1>11, <1>12 DEF Links, F

LEMMA FreeApart ==
  ASSUME Basics, Apart, NEW w \in Writers, NEW l \in Logs, FreeLog(w, l)
  PROVE  Apart'
<1>. SUFFICES ASSUME Orderly' PROVE Ring' /\ InMemory' /\ OnFile' /\ OnDisk'
  BY DEF Apart
<1> DEFINE a == addr[l]
<1>1. /\ TypeOK /\ NumsZero /\ Ring /\ InMemory /\ OnFile /\ Busy = {} /\ Busy' = {}
      /\ l \in Live /\ a \in Pages \ {0} /\ Placed' = Placed \ {l} /\ Settled' = Settled \ {l}
      /\ phase' = [phase EXCEPT ![l] = "freed"] /\ addr' = [addr EXCEPT ![l] = Nowhere]
      /\ \A k \in Placed \ {l} : addr'[k] = addr[k] /\ addr[k] # a
  BY Freeing DEF Basics
<1>2. /\ file' = Freed(a) /\ flushed' = Blanked(a) /\ file'.head = file.head
      /\ flushed'.head = file.head /\ head'.freeListEnd = a
  BY FreeFacts
<1>3. PICK S \in SUBSET Pages : Fits(head, file, S, Placed) /\ Links(S)
  BY <1>1 DEF InMemory
<1>4. PICK T \in SUBSET Pages :
        /\ Fits(file.head, file, T, Placed)
        /\ head.freeListEnd = file.head.freeListEnd \/ head.freeListEnd \notin T
  BY <1>1 DEF OnFile
<1>5. PICK R \in SUBSET Pages : R = S \cup {a}
  BY <1>1
<1>6. Ring'
  <2>1. /\ phase \in [Logs -> {"new", "writing", "held", "freed", "orphan"}]
        /\ addr \in [Logs -> Pages \cup {Nowhere}]
    BY <1>1 DEF TypeOK
  <2>2. phase[l] # "new"
    BY <1>1, LiveFacts DEF InUse
  <2>3. /\ \A k \in Logs : addr'[k] # 0 /\ (phase'[k] = "new" <=> phase[k] = "new")
    BY <1>1, <2>1, <2>2 DEF Ring, Nowhere
  <2>4. NotShared'
    BY <1>1, <2>1 DEF Ring, NotShared
  <2>. QED
    BY <1>1, <2>3, <2>4 DEF Ring, TheWriter
<1>7. InMemory'
  <2>1. Fits(head, file, R, Placed)' /\ Links(R)'
    BY <1>3, <1>5, FreeFits, FreeLinks
  <2>. QED
    BY <2>1 DEF InMemory
<1>8. ASSUME NEW s \in {Freed(a), Blanked(a)}
      PROVE  Chain(file.head, s, T) /\ (1 \in T => ~Goes(file.head, s, 1))
  <2>1. s \in Writes(a)
    BY DEF Writes
  <2>. QED
    BY <1>1, <1>3, <1>4, <2>1, WritesFit
<1>9. l \in Placed /\ Settled' \subseteq Placed'
  BY <1>1, LiveFacts DEF Settled
<1>10. a \notin T /\ \A k \in Placed' : addr'[k] \notin T
  BY <1>1, <1>4, <1>9 DEF Fits
<1>. HIDE DEF a
<1>11. OnFile'
  <2>1. Fits(file.head, file, T, Placed)'
    BY <1>2, <1>4, <1>8, <1>10 DEF Fits
  <2>. QED
    BY <1>2, <1>10, <2>1 DEF OnFile
<1>12. OnDisk'
  <2>1. Fits(flushed.head, flushed, T, Settled)'
    BY <1>2, <1>4, <1>8, <1>9, <1>10 DEF Fits
  <2>. QED
    BY <2>1 DEF OnDisk
<1>. QED
  BY <1>6, <1>7, <1>11, <1>12

-----------------------------------------------------------------------------
(* A restart from a file whose free list is sound.                         *)

LEMMA RestartFromApart ==
  ASSUME Ring, NEW f \in LogFile, RestartFrom(f), f.head.todoListNum = 0,
         kills \in Nat, NEW T \in SUBSET Pages, Chain(f.head, f, T),
         f.head.todoList \notin T \/ f.head.todoList = 1,
         1 \in T /\ Goes(f.head, f, 1) =>
           f.head.freeList = 1 /\ f.head.todoList = 0 /\ f.page[0].pre = 0,
         \A k \in Logs :
           /\ phase'[k] \notin {"writing", "held"}
           /\ phase'[k] = "new" <=> phase[k] = "new"
           /\ addr'[k] # Nowhere => addr'[k] = addr[k] /\ addr[k] \notin T
  PROVE  Ring' /\ InMemory' /\ OnFile' /\ OnDisk'
<1>1. /\ file' = f /\ flushed' = f /\ head' = GetHead(f) /\ Busy' = {} /\ kills' = kills + 1
  BY RestartFacts
<1>2. /\ head'.freeList = f.head.freeList /\ head'.freeListEnd = f.head.freeListEnd
      /\ head'.todoList = f.head.todoList
      /\ head'.pre = f.page[0].pre /\ head'.nxt = f.page[0].nxt
      /\ f.head \in Header
  BY <1>1, FileParts
<1>3. Live' = {} /\ Used' = {} /\ Settled' \subseteq Placed' /\ Placed' \subseteq Logs
      /\ \A k \in Placed' : addr'[k] \notin T /\ ~InUse(k)'
  BY DEF Live, InUse, Used, Placed, Settled
<1>4. Ring'
  <2>1. \A k \in Logs : addr'[k] # 0
    BY DEF Ring, Nowhere
  <2>2. NotShared'
    BY DEF Ring, NotShared
  <2>. QED
    BY <1>1, <2>1, <2>2 DEF Ring, TheWriter
<1>5. /\ Fits(head, file, T, Placed)' /\ Fits(file.head, file, T, Placed)'
      /\ Fits(flushed.head, flushed, T, Settled)'
  <2>1. Chain(head', file', T) /\ (Goes(head', file', 1) <=> Goes(f.head, f, 1))
    BY <1>1, <1>2 DEF Chain, Goes
  <2>2. Fits(head, file, T, Placed)'
    BY <1>1, <1>2, <1>3, <2>1 DEF Fits
  <2>3. Fits(file.head, file, T, Placed)'
    BY <1>1, <1>3 DEF Fits
  <2>4. Fits(flushed.head, flushed, T, Settled)'
    BY <1>1, <1>3 DEF Fits
  <2>. QED
    BY <2>2, <2>3, <2>4
<1>6. Links(T)'
  <2>1. f.head.todoList \in Pages /\ kills + 1 > 0
    BY <1>2 DEF Header
  <2>2. Top(T)'
    BY <1>1, <1>2, <1>3, <2>1 DEF Top, Elsewhere
  <2>3. head'.nxt = 0 /\ (1 \in T /\ Goes(head', file', 1) => head'.pre = 0)
    BY <1>1, <1>2 DEF Chain, Goes
  <2>. QED
    BY <1>1, <1>3, <2>2, <2>3 DEF Links
<1>. QED
  BY <1>1, <1>2, <1>4, <1>5, <1>6 DEF InMemory, OnFile, OnDisk

LEMMA RestartApart ==
  ASSUME Basics, Apart, Kill \/ \E l \in Logs : KillInFree(l)
  PROVE  Apart'
<1>. SUFFICES ASSUME Orderly' PROVE Ring' /\ InMemory' /\ OnFile' /\ OnDisk'
  BY DEF Apart
<1>1. TypeOK /\ NumsZero /\ Owners /\ kills \in Nat
  BY RingAssumption DEF Basics, TypeOK
<1>2. Orderly
  <2>1. \E f : RestartFrom(f)
    BY DEF Kill, KillInFree
  <2>. QED
    BY <2>1 DEF RestartFrom, Orderly
<1>3. Ring /\ InMemory /\ OnFile /\ OnDisk
  BY <1>2 DEF Apart
<1>4. /\ phase \in [Logs -> {"new", "writing", "held", "freed", "orphan"}]
      /\ addr \in [Logs -> Pages \cup {Nowhere}]
  BY <1>1 DEF TypeOK
<1>5. PICK T \in SUBSET Pages :
        /\ Fits(file.head, file, T, Placed)
        /\ head.freeListEnd = file.head.freeListEnd \/ head.freeListEnd \notin T
  BY <1>3 DEF OnFile
<1>6. CASE Kill
  <2>1. PICK f \in {file, flushed} : RestartFrom(f) /\ f \in LogFile /\ f.head.todoListNum = 0
    BY <1>6, KillFacts
  <2>2. PICK U \in SUBSET Pages : Fits(f.head, f, U, Settled)
    <3>1. CASE f = file
      <4>1. Settled \subseteq Placed
        BY DEF Settled
      <4>. QED
        BY <1>5, <3>1, <4>1 DEF Fits
    <3>2. CASE f = flushed
      BY <1>3, <3>2 DEF OnDisk
    <3>. QED
      BY <2>1, <3>1, <3>2
  <2>3. /\ phase' = [k \in Logs |-> IF phase[k] \in {"writing", "held"} THEN "orphan" ELSE phase[k]]
        /\ addr' = [k \in Logs |-> IF phase[k] = "writing" THEN Nowhere ELSE addr[k]]
    BY <1>6 DEF Kill
  <2>4. \A k \in Logs :
          /\ phase'[k] \notin {"writing", "held"}
          /\ phase'[k] = "new" <=> phase[k] = "new"
          /\ addr'[k] # Nowhere => addr'[k] = addr[k] /\ addr[k] \notin U
    BY <1>4, <2>2, <2>3 DEF Fits, Settled, Placed
  <2>5. /\ Chain(f.head, f, U)
        /\ f.head.todoList \notin U \/ f.head.todoList = 1
        /\ 1 \in U /\ Goes(f.head, f, 1) =>
             f.head.freeList = 1 /\ f.head.todoList = 0 /\ f.page[0].pre = 0
    BY <2>2 DEF Fits
  <2>. QED
    BY <1>1, <1>3, <2>1, <2>4, <2>5, RestartFromApart
<1>7. ASSUME NEW l \in Logs, KillInFree(l) PROVE Ring' /\ InMemory' /\ OnFile' /\ OnDisk'
  <2>1. /\ phase[l] = "held" /\ Busy = {} /\ l \in Live
        /\ \E s \in Writes(addr[l]) :
             RestartFrom(s) /\ s \in LogFile /\ s.head = file.head /\ s.head.todoListNum = 0
    BY <1>7, KillInFreeFacts DEF Live, InUse
  <2>2. PICK s \in Writes(addr[l]) :
          RestartFrom(s) /\ s \in LogFile /\ s.head = file.head /\ s.head.todoListNum = 0
    BY <2>1
  <2>3. PICK S \in SUBSET Pages : Fits(head, file, S, Placed) /\ Links(S)
    BY <1>3 DEF InMemory
  <2>4. Chain(s.head, s, T) /\ (1 \in T => ~Goes(s.head, s, 1))
    BY <1>3, <1>5, <2>1, <2>2, <2>3, WritesFit
  <2>5. s.head.todoList \notin T \/ s.head.todoList = 1
    BY <1>5, <2>2 DEF Fits
  <2>6. /\ phase' = [k \in Logs |->
             IF k = l THEN "freed" ELSE IF phase[k] = "held" THEN "orphan" ELSE phase[k]]
        /\ addr' = [addr EXCEPT ![l] = Nowhere]
    BY <1>7 DEF KillInFree
  <2>7. \A k \in Logs : phase[k] # "writing"
    BY <1>1, <2>1 DEF Owners
  <2>8. \A k \in Logs :
          /\ phase'[k] \notin {"writing", "held"}
          /\ phase'[k] = "new" <=> phase[k] = "new"
          /\ addr'[k] # Nowhere => addr'[k] = addr[k] /\ addr[k] \notin T
    BY <1>4, <1>5, <2>1, <2>6, <2>7 DEF Fits, Placed
  <2>. QED
    BY <1>1, <1>3, <2>2, <2>4, <2>5, <2>8, RestartFromApart
<1>. QED
  BY <1>6, <1>7

-----------------------------------------------------------------------------
(* What was recorded, step by step.                                        *)

LEMMA UnreadableFinite ==
  ASSUME NEW f
  PROVE  IsFiniteSet(UnreadableIn(f)) /\ Cardinality(UnreadableIn(f)) \in Nat
<1>1. IsFiniteSet(Logs) /\ UnreadableIn(f) \subseteq Logs
  BY FS_Interval, PageNumbers DEF UnreadableIn
<1>. QED
  BY <1>1, FS_Subset, FS_CardinalityType

LEMMA FewerUnreadable ==
  ASSUME NEW S \in SUBSET UnreadableIn(file), RecordsKept, Orderly, kills \in Nat
  PROVE  Cardinality(S) <= kills
<1>1. Cardinality(UnreadableIn(file)) <= kills
  BY DEF RecordsKept, Orderly, Unreadable, UnreadableIn
<1>2. Cardinality(S) \in Nat /\ Cardinality(S) <= Cardinality(UnreadableIn(file))
  <2>1. IsFiniteSet(S)
    BY UnreadableFinite, FS_Subset
  <2>. QED
    BY <2>1, UnreadableFinite, FS_Subset, FS_CardinalityType
<1>. QED
  BY <1>1, <1>2, UnreadableFinite

LEMMA InitRecords == Init => Records
<1>. SUFFICES ASSUME Init PROVE Records
  OBVIOUS
<1>1. \A f : UnreadableIn(f) = {}
  BY DEF Init, UnreadableIn
<1>2. Unreadable = {} /\ kills = 0
  BY DEF Init, Unreadable
<1>3. RecordsKept
  BY <1>2, FS_EmptySet DEF RecordsKept
<1>. QED
  BY <1>1, <1>3 DEF Records, LastWritten

(* A step after which no more is unreadable in the file, and one log more  *)
(* at most in the file without the last page.                              *)
LEMMA NoMoreUnreadable ==
  ASSUME Basics, Records, Orderly' => Orderly, kills' = kills, NEW x \in Logs \cup {Blank},
         Orderly' => /\ UnreadableIn(file)' \subseteq UnreadableIn(file)
                     /\ UnreadableIn(flushed)' \subseteq UnreadableIn(file)' \cup {x}
  PROVE  Records'
<1>. SUFFICES ASSUME Orderly' PROVE RecordsKept' /\ LastWritten'
  BY DEF Records, RecordsKept, Orderly
<1>1. Cardinality(UnreadableIn(file)') <= kills'
  <2>1. kills \in Nat
    BY RingAssumption DEF Basics, TypeOK
  <2>. QED
    BY <2>1, FewerUnreadable DEF Records
<1>2. UnreadableIn(file)' = Unreadable'
  BY DEF UnreadableIn, Unreadable
<1>. QED
  BY <1>1, <1>2 DEF RecordsKept, LastWritten

LEMMA TakeRecords ==
  ASSUME Basics, Apart, Records, NEW w \in Writers, NEW l \in Logs, GetFreebody(w, l)
  PROVE  Records'
<1>1. TypeOK
  BY DEF Basics
<1>2. (Orderly' => Orderly /\ Ring) /\ kills' = kills
  BY Taking DEF GetFreebody
<1>3. ASSUME Orderly'
      PROVE  UnreadableIn(file)' = UnreadableIn(file) /\ UnreadableIn(flushed)' = UnreadableIn(file)
  <2>1. \A k \in Logs : addr[k] # 0
    BY <1>2, <1>3 DEF Ring
  <2>2. /\ phase[l] = "new" /\ phase' = [phase EXCEPT ![l] = "writing"]
        /\ addr' = [addr EXCEPT ![l] = head.freeList]
        /\ phase \in [Logs -> {"new", "writing", "held", "freed", "orphan"}]
        /\ addr \in [Logs -> Pages \cup {Nowhere}]
    BY <1>1 DEF GetFreebody, TypeOK
  <2>3. flushed' = file /\ \A p \in Pages \ {0} : file'.page[p] = file.page[p]
    BY <1>1, TakeFacts
  <2>4. \A k \in Logs : addr[k] # Nowhere => addr[k] \in Pages \ {0}
    BY <2>1, <2>2
  <2>. QED
    BY <2>2, <2>3, <2>4 DEF UnreadableIn
<1>. QED
  BY <1>2, <1>3, NoMoreUnreadable

LEMMA SeekRecords ==
  ASSUME Basics, Records, NEW w \in Writers, SeekBody(w)
  PROVE  Records'
<1>1. flushed' = file /\ UNCHANGED <<file, phase, addr, kills, alone, spent>>
  BY SeekFacts DEF SeekBody, Basics
<1>2. UnreadableIn(file)' = UnreadableIn(file) /\ UnreadableIn(flushed)' = UnreadableIn(file)
  BY <1>1 DEF UnreadableIn
<1>. QED
  BY <1>1, <1>2, NoMoreUnreadable DEF Orderly

LEMMA WriteRecords ==
  ASSUME Basics, Apart, Records, NEW w \in Writers, WriteBody(w)
  PROVE  Records'
<1>1. TypeOK /\ Owners /\ UNCHANGED <<flushed, addr, kills, alone, spent>>
  BY WriteFacts DEF Basics
<1> DEFINE l == writing[w].body.log
           a == writing[w].addr
<1>2. w \in Busy /\ w \in Writers /\ writing[w].seeked
  BY <1>1, WriteFacts
<1>3. l \in Logs /\ a \in Pages /\ phase[l] = "writing" /\ addr[l] = a
  BY <1>1, <1>2, BusyFacts DEF Owners
<1>4. ASSUME Orderly'
      PROVE  /\ UnreadableIn(file)' \subseteq UnreadableIn(file)
             /\ UnreadableIn(flushed)' \subseteq UnreadableIn(file)' \cup {l}
  <2>1. NotShared /\ TheWriter
    BY <1>1, <1>4 DEF Apart, Orderly, Ring
  <2>2. a = pos /\ flushed = file
    BY <1>2, <2>1 DEF TheWriter
  <2>3. /\ \A p \in Pages : file'.page[p] = IF p = a THEN writing[w].body ELSE file.page[p]
        /\ phase' = [phase EXCEPT ![l] = "held"]
        /\ phase \in [Logs -> {"new", "writing", "held", "freed", "orphan"}]
        /\ addr \in [Logs -> Pages \cup {Nowhere}]
    BY <1>1, <1>3, <2>2, WriteFacts DEF TypeOK
  <2>4. file'.page[addr[l]].log = l
    BY <1>3, <2>3
  <2>5. \A k \in Logs \ {l} : addr[k] # Nowhere => addr[k] # a /\ file'.page[addr[k]] = file.page[addr[k]]
    BY <1>3, <2>1, <2>3 DEF NotShared
  <2>. HIDE DEF l, a
  <2>. QED
    BY <1>1, <2>2, <2>3, <2>4, <2>5 DEF UnreadableIn
<1>. QED
  BY <1>1, <1>3, <1>4, NoMoreUnreadable DEF Orderly

LEMMA FreeRecords ==
  ASSUME Basics, Apart, Records, NEW w \in Writers, NEW l \in Logs, FreeLog(w, l)
  PROVE  Records'
<1>1. TypeOK /\ NumsZero
  BY DEF Basics
<1>2. (Orderly' => Orderly) /\ kills' = kills
  BY DEF FreeLog, EntersMutex, Orderly
<1>3. ASSUME Orderly'
      PROVE  /\ UnreadableIn(file)' \subseteq UnreadableIn(file)
             /\ UnreadableIn(flushed)' \subseteq UnreadableIn(file)'
  <2>1. NotShared
    BY <1>2, <1>3 DEF Apart, Ring
  <2>2. /\ addr[l] \in Pages /\ addr[l] # Nowhere
        /\ file' = Freed(addr[l]) /\ flushed' = Blanked(addr[l])
        /\ phase' = [phase EXCEPT ![l] = "freed"] /\ addr' = [addr EXCEPT ![l] = Nowhere]
        /\ phase \in [Logs -> {"new", "writing", "held", "freed", "orphan"}]
        /\ addr \in [Logs -> Pages \cup {Nowhere}]
    BY <1>1, FreeFacts, PageNumbers DEF TypeOK
  <2>3. ASSUME NEW p \in Pages \ {addr[l], 1}
        PROVE  file'.page[p].log = file.page[p].log /\ flushed'.page[p].log = file.page[p].log
    BY <1>1, <2>2, WritesLeave DEF Writes
  <2>4. ASSUME NEW k \in Logs, k # l, addr[k] \notin {1, Nowhere} PROVE addr[k] \in Pages \ {addr[l], 1}
    BY <2>1, <2>2, <2>4 DEF NotShared
  <2>. QED
    BY <2>2, <2>3, <2>4 DEF UnreadableIn
<1>4. Blank \in Logs \cup {Blank}
  OBVIOUS
<1>. QED
  BY <1>2, <1>3, <1>4, NoMoreUnreadable

(* What a restart reads is the file, or all of it but the page written     *)
(* last: one record at most cannot be read any more.                       *)
LEMMA RestartRecords ==
  ASSUME Basics, Apart, Records, Kill \/ \E l \in Logs : KillInFree(l)
  PROVE  Records'
<1>. SUFFICES ASSUME Orderly' PROVE RecordsKept' /\ LastWritten'
  BY DEF Records, RecordsKept, Orderly
<1>1. TypeOK /\ NumsZero /\ Owners
  BY DEF Basics
<1>2. Orderly /\ kills' = kills + 1 /\ kills \in Nat
  <2>1. kills \in Nat
    BY <1>1, RingAssumption DEF TypeOK
  <2>2. \E f : RestartFrom(f)
    BY DEF Kill, KillInFree
  <2>. QED
    BY <2>1, <2>2 DEF RestartFrom, Orderly
<1>3. NotShared /\ RecordsKept /\ LastWritten
  BY <1>2 DEF Apart, Ring, Records
<1>4. PICK x \in Logs \cup {Blank} : UnreadableIn(flushed) \subseteq UnreadableIn(file) \cup {x}
  BY <1>3 DEF LastWritten
<1>5. /\ phase \in [Logs -> {"new", "writing", "held", "freed", "orphan"}]
      /\ addr \in [Logs -> Pages \cup {Nowhere}]
  BY <1>1 DEF TypeOK
<1>6. file' = flushed' /\ UnreadableIn(file)' \subseteq UnreadableIn(file) \cup {x}
  <2>1. CASE Kill
    <3>1. PICK f \in {file, flushed} : RestartFrom(f) /\ f \in LogFile /\ f.head.todoListNum = 0
      BY <1>1, <2>1, KillFacts
    <3>2. file' = f /\ flushed' = f
      BY <3>1, RestartFacts
    <3>3. /\ phase' = [k \in Logs |-> IF phase[k] \in {"writing", "held"} THEN "orphan" ELSE phase[k]]
          /\ addr' = [k \in Logs |-> IF phase[k] = "writing" THEN Nowhere ELSE addr[k]]
      BY <2>1 DEF Kill
    <3>4. UnreadableIn(file)' \subseteq UnreadableIn(f)
      BY <1>5, <3>2, <3>3 DEF UnreadableIn
    <3>. QED
      BY <1>4, <3>1, <3>2, <3>4
  <2>2. ASSUME NEW l \in Logs, KillInFree(l)
        PROVE  file' = flushed' /\ UnreadableIn(file)' \subseteq UnreadableIn(file)
    <3>1. /\ addr[l] \in Pages /\ addr[l] # Nowhere /\ phase[l] = "held" /\ Busy = {}
          /\ \E s \in Writes(addr[l]) : RestartFrom(s) /\ s \in LogFile /\ s.head.todoListNum = 0
      BY <2>2, KillInFreeFacts, PageNumbers
    <3>2. PICK s \in Writes(addr[l]) : RestartFrom(s) /\ s \in LogFile /\ s.head.todoListNum = 0
      BY <3>1
    <3>3. file' = s /\ flushed' = s
      BY <3>2, RestartFacts
    <3>4. /\ phase' = [k \in Logs |->
               IF k = l THEN "freed" ELSE IF phase[k] = "held" THEN "orphan" ELSE phase[k]]
          /\ addr' = [addr EXCEPT ![l] = Nowhere]
      BY <2>2 DEF KillInFree
    <3>5. ASSUME NEW p \in Pages \ {addr[l], 1} PROVE s.page[p].log = file.page[p].log
      BY <1>1, <3>1, <3>2, WritesLeave
    <3>6. ASSUME NEW k \in Logs, k # l, addr[k] \notin {1, Nowhere} PROVE addr[k] \in Pages \ {addr[l], 1}
      BY <1>2, <1>3, <1>5, <3>1, <3>6 DEF NotShared
    <3>. QED
      BY <1>5, <3>3, <3>4, <3>5, <3>6 DEF UnreadableIn
  <2>. QED
    BY <2>1, <2>2
<1>7. Cardinality(UnreadableIn(file)') <= kills + 1
  <2> DEFINE S == UnreadableIn(file)'
  <2>1. IsFiniteSet(UnreadableIn(file)) /\ Cardinality(UnreadableIn(file)) \in Nat
        /\ Cardinality(UnreadableIn(file)) <= kills
    BY <1>2, <1>3, UnreadableFinite DEF RecordsKept, Orderly, Unreadable, UnreadableIn
  <2>2. /\ IsFiniteSet(UnreadableIn(file) \cup {x})
        /\ Cardinality(UnreadableIn(file) \cup {x}) \in Nat
        /\ Cardinality(UnreadableIn(file) \cup {x}) <= kills + 1
    <3> DEFINE U == UnreadableIn(file)
    <3>. HIDE DEF S
    <3>1. IsFiniteSet(U) /\ Cardinality(U) \in Nat /\ Cardinality(U) <= kills
      BY <2>1
    <3>. HIDE DEF U
    <3>2. /\ IsFiniteSet(U \cup {x})
          /\ Cardinality(U \cup {x}) = Cardinality(U) \/ Cardinality(U \cup {x}) = Cardinality(U) + 1
      BY <3>1, FS_AddElement
    <3>3. Cardinality(U \cup {x}) \in Nat /\ Cardinality(U \cup {x}) <= kills + 1
      BY <1>2, <3>1, <3>2
    <3>. QED
      BY <3>2, <3>3 DEF U
  <2>. HIDE DEF S
  <2>3. S \subseteq UnreadableIn(file) \cup {x}
    BY <1>6 DEF S
  <2>4. Cardinality(S) \in Nat /\ Cardinality(S) <= Cardinality(UnreadableIn(file) \cup {x})
    BY <2>2, <2>3, FS_Subset, FS_CardinalityType
  <2>5. Cardinality(S) <= kills + 1
    BY <1>2, <2>2, <2>4
  <2>. QED
    BY <2>5 DEF S
<1>8. RecordsKept'
  <2>1. UnreadableIn(file)' = Unreadable'
    BY DEF UnreadableIn, Unreadable
  <2>. QED
    BY <1>2, <1>7, <2>1 DEF RecordsKept
<1>9. LastWritten'
  <2>1. UnreadableIn(flushed)' = UnreadableIn(file)'
    BY <1>6 DEF UnreadableIn
  <2>. QED
    BY <2>1 DEF LastWritten
<1>. QED
  BY <1>8, <1>9

-----------------------------------------------------------------------------
-----------------------------------------------------------------------------
(* Together: the invariant, and what it says of the log.                   *)

LEMMA InvStutters ==
  ASSUME IInv, UNCHANGED vars
  PROVE  IInv'
<1>1. /\ Basics /\ Apart /\ Records
      /\ UNCHANGED <<file, flushed, head, pos, writing, phase, addr, kills, alone, spent>>
  BY DEF IInv, vars
<1>2. Basics'
  BY <1>1 DEF Basics, TypeOK, NumsZero, Owners, Busy
<1>3. Records'
  BY <1>1 DEF Records, RecordsKept, Orderly, Unreadable, LastWritten, UnreadableIn
<1>4. /\ Busy' = Busy /\ Live' = Live /\ Used' = Used /\ Placed' = Placed /\ Settled' = Settled
      /\ \A l \in Logs : InUse(l)' <=> InUse(l)
  BY <1>1 DEF Busy, Live, InUse, Used, Placed, Settled
<1>5. Ring => Ring'
  BY <1>1, <1>4 DEF Ring, NotShared, TheWriter
<1>6. ASSUME NEW S
      PROVE  /\ Fits(head, file, S, Placed) => Fits(head, file, S, Placed)'
             /\ Fits(file.head, file, S, Placed) => Fits(file.head, file, S, Placed)'
             /\ Fits(flushed.head, flushed, S, Settled) => Fits(flushed.head, flushed, S, Settled)'
             /\ Links(S) => Links(S)'
  <2>1. Elsewhere(S)' = Elsewhere(S)
    BY <1>1, <1>4 DEF Elsewhere
  <2>2. Links(S) => Links(S)'
    BY <1>1, <1>4, <2>1 DEF Links, Top
  <2>3. Placed \subseteq Logs /\ Settled \subseteq Logs
    BY DEF Placed, Settled
  <2>4. /\ Fits(head, file, S, Placed) => Fits(head, file, S, Placed)'
        /\ Fits(file.head, file, S, Placed) => Fits(file.head, file, S, Placed)'
    BY <1>1, <1>4, <2>3 DEF Fits
  <2>5. Fits(flushed.head, flushed, S, Settled) => Fits(flushed.head, flushed, S, Settled)'
    BY <1>1, <1>4, <2>3 DEF Fits
  <2>. QED
    BY <2>2, <2>4, <2>5
<1>7. Apart'
  BY <1>1, <1>5, <1>6 DEF Apart, Orderly, InMemory, OnFile, OnDisk
<1>. QED
  BY <1>2, <1>3, <1>7 DEF IInv

LEMMA InvInductive ==
  /\ Init => IInv
  /\ IInv /\ [Next]_vars => IInv'
<1>1. Init => IInv
  BY InitBasics, InitApart, InitRecords DEF IInv
<1>2. ASSUME IInv, Next PROVE IInv'
  <2>1. Basics /\ Apart /\ Records
    BY <1>2 DEF IInv
  <2>2. ASSUME NEW w \in Writers, NEW l \in Logs, GetFreebody(w, l) PROVE IInv'
    BY <2>1, <2>2, TakeBasics, TakeApart, TakeRecords DEF IInv
  <2>3. ASSUME NEW w \in Writers, NEW l \in Logs, FreeLog(w, l) PROVE IInv'
    BY <2>1, <2>3, FreeBasics, FreeApart, FreeRecords DEF IInv
  <2>4. ASSUME NEW w \in Writers, SeekBody(w) PROVE IInv'
    BY <2>1, <2>4, SeekBasics, SeekApart, SeekRecords DEF IInv
  <2>5. ASSUME NEW w \in Writers, WriteBody(w) PROVE IInv'
    BY <2>1, <2>5, WriteBasics, WriteApart, WriteRecords DEF IInv
  <2>6. ASSUME Kill \/ \E l \in Logs : KillInFree(l) PROVE IInv'
    BY <2>1, <2>6, RestartBasics, RestartApart, RestartRecords DEF IInv
  <2>. QED
    BY <1>2, <2>2, <2>3, <2>4, <2>5, <2>6 DEF Next, Steps
<1>. QED
  BY <1>1, <1>2, InvStutters

LEMMA LeastNumber ==
  ASSUME NEW S, S \subseteq Nat, S # {}
  PROVE  \E h \in S : \A k \in S : h <= k
<1> DEFINE before == {p \in Nat \X Nat : p[1] < p[2]}
<1>1. IsWellFoundedOn(before, Nat)
  BY NatLessThanWellFounded DEF OpToRel
<1>2. PICK h \in S : \A k \in S : <<k, h>> \notin before
  <2>. HIDE DEF before
  <2>. QED
    BY <1>1, WFMin
<1>3. ASSUME NEW k \in S PROVE h <= k
  <2>1. k \in Nat /\ h \in Nat /\ ~(k < h)
    BY <1>2
  <2>. QED
    BY <2>1
<1>. QED
  BY <1>3

(* Every set of pages closed under the links that holds the first entry    *)
(* holds every entry in use: among the later logs whose entries are in it  *)
(* there is a first one, and its link leads to an entry between the two.   *)
LEMMA ListsReachAll ==
  ASSUME Basics, Ring, Busy = {}, NEW R, Links(R),
         NEW S \in Followed(head.todoList), NEW l \in Live
  PROVE  addr[l] \in S
<1>. SUFFICES ASSUME addr[l] \notin S PROVE FALSE
  OBVIOUS
<1> DEFINE T == {k \in Live : addr[k] \in S /\ l < k}
<1>1. \A k \in Live : k \in Nat /\ phase[k] = "held"
  BY LiveFacts
<1>2. head.todoList \in S /\ \A p \in S : Nxt(p) \in S
  BY DEF Followed, Nxt
<1>3. T # {}
  <2>1. PICK t \in Live : Last(Live, t) /\ addr[t] = head.todoList
    BY DEF Links, Top
  <2>2. l <= t /\ l # t /\ l \in Nat /\ t \in Nat
    BY <1>1, <1>2, <2>1 DEF Last
  <2>. QED
    BY <1>2, <2>1, <2>2
<1>4. PICK k \in T : \A j \in T : k <= j
  <2>1. T \subseteq Nat
    BY <1>1
  <2>. QED
    BY <1>3, <2>1, LeastNumber
<1>5. Below(Live, addr, Elsewhere(R), k, Nxt(addr[k])) /\ Nxt(addr[k]) \in S
  BY <1>1, <1>2, <1>4 DEF Links, Nxt
<1>6. ~First(Live, k)
  <2>1. k \in Nat /\ l \in Nat /\ l < k
    BY <1>1, <1>4
  <2>. QED
    BY <2>1 DEF First
<1>7. PICK m \in Live : JustBelow(Live, m, k) /\ addr[m] \in S
  BY <1>5, <1>6 DEF Below, JustBelow
<1>8. m < k /\ l <= m /\ l # m
  BY <1>4, <1>7 DEF JustBelow
<1>9. k \in Nat /\ l \in Nat /\ m \in Nat
  BY <1>1, <1>4, <1>7
<1>10. m \in T
  BY <1>7, <1>8, <1>9
<1>. QED
  BY <1>4, <1>8, <1>9, <1>10

LEMMA InvListsSound == IInv => ListsSound
<1>. SUFFICES ASSUME IInv PROVE TodoListComplete /\ DoublyLinked
  BY DEF IInv, Basics, ListsSound
<1>1. Basics /\ TypeOK /\ Owners
  BY DEF IInv, Basics
<1>2. Orderly => Ring /\ \E S : Links(S)
  BY DEF IInv, Apart, InMemory
<1>3. TodoListComplete
  <2>. SUFFICES ASSUME Orderly, NobodyWrites, NEW l \in Logs, phase[l] = "held"
                PROVE  addr[l] \in Listed(head.todoList)
    BY DEF TodoListComplete, Orderly
  <2>1. Busy = {} /\ l \in Live
    BY <1>1, BusyFacts DEF Live, InUse
  <2>2. addr[l] \in Pages \ {0}
    BY <1>1, <1>2, <2>1, LiveFacts
  <2>3. \A S \in Followed(head.todoList) : addr[l] \in S
    BY <1>1, <1>2, <2>1, ListsReachAll
  <2>. QED
    BY <2>2, <2>3 DEF Listed
<1>4. DoublyLinked
  <2>. SUFFICES ASSUME Orderly, kills = 0, NEW l \in Logs, phase[l] = "held",
                       Nxt(addr[l]) \notin {0, 1}
                PROVE  Pre(Nxt(addr[l])) = addr[l]
    BY DEF DoublyLinked, Orderly, Nxt, Pre
  <2>1. PICK S : Links(S)
    BY <1>2
  <2>2. l \in Live /\ Live \subseteq Nat
    BY <1>1, <1>2, LiveFacts DEF Live, InUse
  <2>3. Below(Live, addr, Elsewhere(S), l, Nxt(addr[l]))
    BY <2>1, <2>2 DEF Links, Nxt
  <2>4. Nxt(addr[l]) \notin Elsewhere(S)
    BY DEF Elsewhere
  <2>5. PICK m \in Live : JustBelow(Live, m, l) /\ Nxt(addr[l]) = addr[m]
    BY <2>3, <2>4 DEF Below, JustBelow
  <2>6. ~Last(Live, m)
    <3>1. m < l /\ m \in Nat /\ l \in Nat
      BY <2>2, <2>5 DEF JustBelow
    <3>. QED
      BY <2>2, <3>1 DEF Last
  <2>7. phase[m] = "held"
    <3>. SUFFICES ASSUME phase[m] = "writing" PROVE FALSE
      BY DEF Live, InUse
    <3>1. PICK w \in Busy : writing[w].body.log = m
      BY <1>1 DEF Owners, Live
    <3>. QED
      BY <2>1, <2>6, <3>1 DEF Links
  <2>8. Above(Live, addr, head.freeList, m, Pre(addr[m]))
    BY <2>1, <2>5, <2>7 DEF Links, Overwritten, Pre
  <2>9. PICK k \in Live : JustAbove(Live, k, m) /\ Pre(addr[m]) = addr[k]
    BY <2>6, <2>8 DEF Above, JustAbove
  <2>10. JustAbove(Live, l, m)
    BY <2>2, <2>5, Opposite
  <2>11. k <= l /\ l <= k /\ k \in Nat /\ l \in Nat
    BY <2>2, <2>9, <2>10 DEF JustAbove
  <2>12. k = l
    BY <2>11
  <2>. QED
    BY <2>5, <2>9, <2>12
<1>. QED
  BY <1>3, <1>4

-----------------------------------------------------------------------------
LEMMA RingInvariant == Spec => []IInv
<1>1. (Init => IInv) /\ (IInv /\ [Next]_vars => IInv')
  BY InvInductive
<1>. QED
  BY <1>1, PTL DEF Spec

(* GetFreebody_ never hands out an entry in which another log lives, as    *)
(* often as entries are freed and handed out again, until the free list    *)
(* runs out or two workers are in the log at once.                         *)
THEOREM PagesAreNotShared == Spec => []PagesNotShared
<1>1. IInv => PagesNotShared
  BY DEF IInv, Apart, Orderly, Ring, NotShared, PagesNotShared
<1>. QED
  BY <1>1, RingInvariant, PTL

(* Whatever is written, freed and written again and in which order, every  *)
(* entry in use is found from todoList, and until the first kill they are  *)
(* a doubly linked list.                                                   *)
THEOREM ListsAreSound == Spec => []ListsSound
<1>1. IInv => ListsSound
  BY InvListsSound
<1>. QED
  BY <1>1, RingInvariant, PTL

(* FreeLog leaves what the other entries recorded, and every kill, at any  *)
(* moment, costs at most one record.                                       *)
THEOREM RecordsAreKept == Spec => []RecordsKept
<1>1. IInv => RecordsKept
  BY DEF IInv, Records
<1>. QED
  BY <1>1, RingInvariant, PTL
=============================================================================
