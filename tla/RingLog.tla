------------------------------ MODULE RingLog ------------------------------
(***************************************************************************)
(* The storage node's ring log, storage/src/consistlog/ringlog.  The file  *)
(* is an array of 64-byte pages: page 0 is the header, pages 1..N are log  *)
(* entries threaded on two lists, the entries in use (head_.todoList) and  *)
(* the free ones (head_.freeList .. head_.freeListEnd).  Addresses are     *)
(* page numbers here and byte offsets (64 times as much) in the code.      *)
(*                                                                         *)
(* A page holds eight words.  The last two are the links pre and nxt of an *)
(* entry and unused fill of the header; the header is written over a page  *)
(* as it is, whatever the page was used for.                               *)
(*                                                                         *)
(* The fstream keeps one page of output in its buffer until the next seek: *)
(* file is what reads return, flushed what a killed process leaves behind. *)
(***************************************************************************)
EXTENDS Integers, FiniteSets, Sequences

CONSTANTS
  N,            \* pages 1..N hold entries
  MaxLogs,      \* bound: entries written in a behaviour
  MaxKills,     \* bound: restarts in a behaviour
  Writers       \* worker threads

ASSUME RingAssumption ==
  /\ N \in Nat \ {0} /\ MaxLogs \in Nat /\ MaxKills \in Nat
  /\ IsFiniteSet(Writers)

Pages == 0..N
Logs == 1..MaxLogs
Blank == 0              \* the entry of a page that holds none
Nowhere == -1

VARIABLES
  file,         \* the log file: the header's words and every page
  flushed,      \* the file without the last page written
  head,         \* RingLog::head_
  pos,          \* the stream's position, in pages
  writing,      \* per worker, the entry it is about to write, outside mtx_
  phase,        \* per log: new, writing, held, freed, orphan
  addr,         \* per log: the address its writer was given
  kills,        \* restarts so far
  alone,        \* so far nobody used the log while another worker wrote
  spent         \* the free list has run out

vars == <<file, flushed, head, pos, writing, phase, addr, kills, alone, spent>>

Body == [log : Logs \cup {Blank}, pre : Pages, nxt : Pages]

Header == [todoList : Pages, freeList : Pages, freeListEnd : Pages,
           todoListNum : Nat, freeListNum : Nat, pre : Pages, nxt : Pages]

LogFile == [head : Header, page : [Pages -> Body]]

NotWriting == [addr |-> Nowhere, seeked |-> FALSE]
Entries == [addr : Pages, seeked : BOOLEAN, body : [log : Logs, pre : Pages, nxt : Pages]]

-----------------------------------------------------------------------------
(* Page access.                                                            *)

PutBody(f, a, body) == [f EXCEPT !.page[a] = body]

PutHead(f, a, h) ==
  LET overlaid == [log |-> Blank, pre |-> h.pre, nxt |-> h.nxt]
  IN  IF a = 0 THEN [f EXCEPT !.head = h, !.page[0] = overlaid]
      ELSE [f EXCEPT !.page[a] = overlaid]

(* Reading page 0 into head_: its fill words are whatever a body write     *)
(* left there.                                                             *)
GetHead(f) == [f.head EXCEPT !.pre = f.page[0].pre, !.nxt = f.page[0].nxt]

-----------------------------------------------------------------------------
(* InitLogFile_: an empty header and the free list 1, 2, ..., N.           *)

FreshHead ==
  [todoList |-> 0, freeList |-> 1, freeListEnd |-> N,
   todoListNum |-> 0, freeListNum |-> 0, pre |-> 0, nxt |-> 0]

FreshFile ==
  [head |-> FreshHead,
   page |-> [p \in Pages |->
     [log |-> Blank,
      pre |-> IF p = 0 THEN 0 ELSE p - 1,
      nxt |-> IF p \in {0, N} THEN 0 ELSE p + 1]]]

Init ==
  /\ file = FreshFile /\ flushed = FreshFile
  /\ head = FreshHead
  /\ pos = 1
  /\ writing = [w \in Writers |-> NotWriting]
  /\ phase = [l \in Logs |-> "new"]
  /\ addr = [l \in Logs |-> Nowhere]
  /\ kills = 0 /\ alone = TRUE /\ spent = FALSE

-----------------------------------------------------------------------------
(* WriteRollbackLog and WriteSynLog: GetFreebody_ under mtx_, then a seek  *)
(* and a write that take no lock.                                          *)

HeadAfterTakingForgetful(next) == [head EXCEPT !.todoList = head.freeList]

HeadAfterTaking(next) ==
  [head EXCEPT !.freeList = next, !.todoList = head.freeList]

(* The entry taken next will be the predecessor of this one.               *)
LinksOfNew(free) == [pre |-> free.nxt, nxt |-> head.todoList]

HeaderSaved(h) == PutHead(file, 0, h)

(* The entry to be taken is the last: freeListEnd, or without a successor.  *)
EndsFreeList(free) == head.freeList = head.freeListEnd \/ free.nxt = 0

NobodyWrites == \A w \in Writers : writing[w] = NotWriting

EntersMutex == alone' = (alone /\ NobodyWrites)

GetFreebody(w, l) ==
  LET free == file.page[head.freeList]
      links == LinksOfNew(free)
  IN  /\ phase[l] = "new" /\ \A k \in Logs : k < l => phase[k] # "new"
      /\ writing[w] = NotWriting
      /\ head' = HeadAfterTaking(free.nxt)
      /\ file' = HeaderSaved(head')
      /\ flushed' = file
      /\ pos' = 1
      /\ writing' = [writing EXCEPT ![w] =
           [addr |-> head.freeList, seeked |-> FALSE,
            body |-> [log |-> l, pre |-> links.pre, nxt |-> links.nxt]]]
      /\ phase' = [phase EXCEPT ![l] = "writing"]
      /\ addr' = [addr EXCEPT ![l] = head.freeList]
      /\ spent' = (spent \/ EndsFreeList(free))
      /\ EntersMutex
      /\ UNCHANGED kills

SeekBody(w) ==
  /\ writing[w].addr # Nowhere /\ ~writing[w].seeked
  /\ pos' = writing[w].addr
  /\ flushed' = file
  /\ writing' = [writing EXCEPT ![w].seeked = TRUE]
  /\ UNCHANGED <<file, head, phase, addr, kills, alone, spent>>

(* The page goes where the stream is now; past the end it only makes the   *)
(* file longer.                                                            *)
WriteBody(w) ==
  /\ writing[w].seeked
  /\ file' = IF pos \in Pages THEN PutBody(file, pos, writing[w].body) ELSE file
  /\ pos' = pos + 1
  /\ phase' = [phase EXCEPT ![writing[w].body.log] = "held"]
  /\ writing' = [writing EXCEPT ![w] = NotWriting]
  /\ UNCHANGED <<flushed, head, addr, kills, alone, spent>>

-----------------------------------------------------------------------------
(* FreeLog, under mtx_: the successive contents of the file while the      *)
(* entry at a is unlinked, appended to the free list and the header        *)
(* written, to page 1 as the code has it.  freeListNum is decremented and  *)
(* incremented again.                                                      *)

SoleEntry(a) == head.todoList = a /\ head.freeListNum = 1

UnlinkedWithStaleBody(a, cur) ==
  LET next == [file.page[cur.nxt] EXCEPT !.pre = cur.pre]
      f1 == PutBody(file, cur.nxt, next)
      f2 == PutBody(f1, cur.pre, [next EXCEPT !.nxt = cur.nxt])
  IN  IF SoleEntry(a) THEN <<>>
      ELSE IF head.todoList = a THEN <<f1>> ELSE <<f1, f2>>

Unlinked(a, cur) ==
  LET f1 == PutBody(file, cur.nxt, [file.page[cur.nxt] EXCEPT !.pre = cur.pre])
      f2 == PutBody(f1, cur.pre, [f1.page[cur.pre] EXCEPT !.nxt = cur.nxt])
  IN  IF SoleEntry(a) THEN <<>>
      ELSE IF head.todoList = a THEN <<f1>> ELSE <<f1, f2>>

HeadAfterFreeEmptied(a, cur) ==
  [head EXCEPT !.todoList = IF @ = a THEN 0 ELSE @, !.freeListEnd = a]

HeadAfterFree(a, cur) ==
  [head EXCEPT
    !.todoList = IF SoleEntry(a) THEN 0 ELSE IF @ = a THEN cur.nxt ELSE @,
    !.freeListEnd = a]

FreeSteps(a) ==
  LET cur == file.page[a]
      unlinked == <<file>> \o Unlinked(a, cur)
      f == unlinked[Len(unlinked)]
      end == head.freeListEnd
      f3 == PutBody(f, end, [f.page[end] EXCEPT !.nxt = a])
      f4 == PutBody(f3, a, [log |-> Blank, pre |-> end, nxt |-> 0])
  IN  unlinked \o <<f3, f4, PutHead(f4, 1, HeadAfterFree(a, cur))>>

FreeLog(w, l) ==
  LET a == addr[l]
      steps == FreeSteps(a)
  IN  /\ phase[l] = "held" /\ writing[w] = NotWriting
      /\ head' = HeadAfterFree(a, file.page[a])
      /\ file' = steps[Len(steps)]
      /\ flushed' = steps[Len(steps) - 1]
      /\ pos' = 2
      /\ phase' = [phase EXCEPT ![l] = "freed"]
      /\ addr' = [addr EXCEPT ![l] = Nowhere]
      /\ EntersMutex
      /\ UNCHANGED <<writing, kills, spent>>

-----------------------------------------------------------------------------
(* The process is killed (stop.sh does it with -9) and started again: Init *)
(* reads the header and redoes todoListNum entries, of which it takes the  *)
(* first off the list each time.  Nothing ever raises todoListNum.         *)

RedoTask(f) ==
  LET h == GetHead(f)
      at[i \in 0..N] == IF i = 0 THEN h.todoList ELSE f.page[at[i - 1]].nxt
  IN  [h EXCEPT !.todoList = IF h.todoListNum = 0 THEN @ ELSE at[h.todoListNum],
                !.todoListNum = 0]

RestartFrom(f) ==
  /\ kills < MaxKills /\ kills' = kills + 1
  /\ file' = f /\ flushed' = f
  /\ head' = RedoTask(f) /\ pos' = 1
  /\ writing' = [w \in Writers |-> NotWriting]
  /\ UNCHANGED <<alone, spent>>

Kill ==
  /\ \E f \in {file, flushed} : RestartFrom(f)
  /\ phase' = [l \in Logs |->
       IF phase[l] \in {"writing", "held"} THEN "orphan" ELSE phase[l]]
  /\ addr' = [l \in Logs |-> IF phase[l] = "writing" THEN Nowhere ELSE addr[l]]

(* Killed in the middle of FreeLog: some of its writes are in the file.    *)
KillInFree(l) ==
  LET steps == FreeSteps(addr[l])
  IN  /\ phase[l] = "held" /\ NobodyWrites
      /\ \E i \in 2..(Len(steps) - 2) : RestartFrom(steps[i])
      /\ phase' = [k \in Logs |->
           IF k = l THEN "freed" ELSE IF phase[k] = "held" THEN "orphan" ELSE phase[k]]
      /\ addr' = [addr EXCEPT ![l] = Nowhere]

-----------------------------------------------------------------------------
(* From an empty list the code hands out page 0 for an entry that then     *)
(* goes over the header.  What follows is not modelled.                    *)
HeaderTaken == \E l \in Logs : addr[l] = 0

Steps ==
  \/ \E w \in Writers, l \in Logs : GetFreebody(w, l) \/ FreeLog(w, l)
  \/ \E w \in Writers : SeekBody(w) \/ WriteBody(w)
  \/ Kill
  \/ \E l \in Logs : KillInFree(l)

Next == ~HeaderTaken /\ Steps

Spec == Init /\ [][Next]_vars

-----------------------------------------------------------------------------
(* Everything the log holds is a page of the file.                         *)
TypeOK ==
  /\ file \in LogFile /\ flushed \in LogFile
  /\ head \in Header /\ pos \in Nat
  /\ writing \in [Writers -> {NotWriting} \cup Entries]
  /\ phase \in [Logs -> {"new", "writing", "held", "freed", "orphan"}]
  /\ addr \in [Logs -> Pages \cup {Nowhere}]
  /\ kills \in 0..MaxKills

(* An entry is never handed out while another log still lives in it, be it *)
(* that log's writer or a restart that has yet to redo it, however often   *)
(* entries are freed and handed out again and whatever a kill left of the  *)
(* free list, as long as entries are written one at a time and the list    *)
(* has not run out.                                                        *)
PagesNotShared ==
  alone /\ ~spent =>
    \A l, m \in Logs : addr[l] = addr[m] /\ addr[l] # Nowhere => l = m

(* The pages on a list: those one must pass when one starts at the first    *)
(* and goes on along the links.                                            *)
Followed(first) ==
  {S \in SUBSET Pages : first \in S /\ \A p \in S : file.page[p].nxt \in S}

Listed(first) == {p \in Pages \ {0} : \A S \in Followed(first) : p \in S}

(* While no entry is half-way in, every entry in use can be reached from   *)
(* todoList, so that a restart which walks the list finds it.              *)
TodoListComplete ==
  alone /\ ~spent /\ NobodyWrites
  => \A l \in Logs : phase[l] = "held" => addr[l] \in Listed(head.todoList)

(* The entries in use are doubly linked (README:53, a doubly linked list), *)
(* page 1 excepted, which FreeLog overwrites with the header.  Workers     *)
(* that write at once spoil it: bodies are written outside mtx_.           *)
DoublyLinked ==
  \A l \in Logs :
    LET next == file.page[addr[l]].nxt
    IN  /\ alone /\ ~spent /\ kills = 0 /\ phase[l] = "held" /\ next \notin {0, 1}
        => file.page[next].pre = addr[l]

(* The lists of the ring stay sound, with the counts of the header in      *)
(* range: what is in use can be found from todoList, and walked both ways. *)
ListsSound == TypeOK /\ TodoListComplete /\ DoublyLinked

(* The logs that were recorded, are not finished and cannot be read back   *)
(* from their entry (page 1 excepted, as above).                           *)
Unreadable ==
  {l \in Logs : /\ phase[l] \in {"held", "orphan"} /\ addr[l] \notin {1, Nowhere}
                /\ file.page[addr[l]].log # l}

(* Unlinking one entry leaves what the others recorded, and being killed   *)
(* at any moment costs at most the record written last.                    *)
RecordsKept == alone /\ ~spent => Cardinality(Unreadable) <= kills
=============================================================================
