---------------------------- MODULE ChannelProofs ----------------------------
(***************************************************************************)
(* The channel to a peer, whose buffer holds messages: ChannelSound and    *)
(* PipelineOnlyGrows of PeerSync, for any workers, operations and number   *)
(* of overlaps.                                                            *)
(***************************************************************************)
EXTENDS PeerSync, FiniteSetTheorems, SequenceTheorems, TLAPS

WorkerStates == {"idle", "taken", "popped", "write", "written", "ret0", "ret1", "ret2"}
Names == Operations \cup {"introduction"}
Pieces == Names \cup {CRLF}

(* While workers come one at a time, one at most is busy.                  *)
OneWorker == alone => \A v, w \in Workers : worker[v] # "idle" /\ worker[w] # "idle" => v = w

(* A task is filed once: it is in one place of the queue or in the hands   *)
(* of one worker, and for an operation that is new there is none.          *)
Filed == {taskQue[i].op : i \in 1..Len(taskQue)}
Held == {item[w].op : w \in {v \in Workers : worker[v] = "popped"}}

FiledOnce ==
  /\ \A i, j \in 1..Len(taskQue) : taskQue[i].op = taskQue[j].op => i = j
  /\ \A v, w \in Workers :
       worker[v] = "popped" /\ worker[w] = "popped" /\ item[v].op = item[w].op => v = w
  /\ Held \cap Filed = {}
  /\ \A o \in Operations : op[o] = "new" => o \notin Filed \cup Held

(* What the worker does fits the status, and the status the buffer.        *)
Phases ==
  alone =>
    /\ handled <= Len(sendBuff) /\ (status = "head" <=> handled < Len(sendBuff))
    /\ \A w \in Workers :
         /\ worker[w] \in {"taken", "popped", "ret0"} => status = "init"
         /\ worker[w] \in {"write", "written", "ret1"} => status = "head"
         /\ worker[w] = "written" => sentLen[w] = Len(sendBuff) - handled
         /\ worker[w] # "ret2"

(* There is a task, or the rest of one, for every job that is queued,      *)
(* served or to come: for a socket that is armed and for every operation   *)
(* whose task is queued and that has still to arm it.                      *)
Queued == {o \in Operations : op[o] = "queued"}
Armed == IF armed = "out" THEN 1 ELSE 0
Served ==
  IF \E w \in Workers : worker[w] \in {"taken", "write", "written", "ret1"} THEN 1 ELSE 0
Unfinished == IF status = "head" THEN 1 ELSE 0

Enough == alone => jobs + Armed + Served + Cardinality(Queued) <= Len(taskQue) + Unfinished

(* The peer connects back for messages it has read whole.                  *)
Heard == connects \in Seq(Names) /\ 2 * Len(connects) <= received

IInv ==
  /\ TypeOK /\ OneWorker /\ FiledOnce /\ Phases /\ Enough
  /\ NeverHangsUp /\ Heard /\ PeerHearsInOrder

-----------------------------------------------------------------------------
(* Tasks, messages and what arrives of them.                               *)

(* A task is about an operation, or introduces the node, and so is the     *)
(* message made of it.                                                     *)
LEMMA TaskFacts ==
  ASSUME NEW t \in Tasks
  PROVE  t.op \in Names /\ MessageOf(t) \in Messages /\ MessageOf(t).op = t.op
BY DEF Tasks, Messages, MessageOf, Names

(* No name is a line end.                                                  *)
LEMMA NamesFacts == CRLF \notin Names /\ "introduction" \notin Operations
BY PeerAssumption DEF Names, CRLF

(* The names of messages, one by one.                                      *)
LEMMA OpsOfFacts ==
  ASSUME NEW s, s \in Seq(Messages) \/ s \in Seq(Tasks)
  PROVE  /\ OpsOf(s) \in Seq(Names) /\ Len(OpsOf(s)) = Len(s)
         /\ \A i \in 1..Len(s) : OpsOf(s)[i] = s[i].op
<1>1. Len(s) \in Nat
  BY LenProperties
<1>2. ASSUME NEW i \in 1..Len(s) PROVE s[i].op \in Names
  <2>1. s[i] \in Messages \/ s[i] \in Tasks
    BY ElementOfSeq
  <2>. QED
    BY <2>1 DEF Messages, Tasks, Names
<1>3. OpsOf(s) \in Seq(Names)
  BY <1>1, <1>2, IsASeq DEF OpsOf
<1>. QED
  BY <1>1, <1>3, LenProperties DEF OpsOf

(* An odd piece is a text, an even one a line end.                         *)
LEMMA ArrivedFacts ==
  ASSUME sent \in Seq(Messages)
  PROVE  /\ Arrived \in Seq(Pieces) /\ Len(Arrived) = 2 * Len(sent) /\ Len(sent) \in Nat
         /\ \A i \in 1..2 * Len(sent) : Arrived[i] = Piece(i)
         /\ \A k \in Nat : k < Len(sent) =>
              /\ Arrived[2 * k + 1] = sent[k + 1].op /\ sent[k + 1].op \in Names
              /\ Arrived[2 * k + 2] = CRLF
<1>1. Len(sent) \in Nat /\ 2 * Len(sent) \in Nat
  BY LenProperties
<1>2. ASSUME NEW k \in 1..Len(sent) PROVE sent[k].op \in Names
  <2>1. sent[k] \in Messages
    BY ElementOfSeq
  <2>. QED
    BY <2>1 DEF Messages, Names
<1>3. ASSUME NEW i \in 1..2 * Len(sent) PROVE Piece(i) \in Pieces
  <2>1. i % 2 = 1 => (i + 1) \div 2 \in 1..Len(sent)
    BY <1>1
  <2>. QED
    BY <2>1, <1>2 DEF Piece, Pieces
<1>4. Arrived \in Seq(Pieces)
  BY <1>1, <1>3, IsASeq DEF Arrived
<1>5. Len(Arrived) = 2 * Len(sent)
  BY <1>1, <1>4, LenProperties DEF Arrived
<1>6. ASSUME NEW k \in Nat, k < Len(sent)
      PROVE  /\ Arrived[2 * k + 1] = sent[k + 1].op /\ sent[k + 1].op \in Names
             /\ Arrived[2 * k + 2] = CRLF
  <2>1. /\ 2 * k + 1 \in 1..2 * Len(sent) /\ 2 * k + 2 \in 1..2 * Len(sent)
        /\ k + 1 \in 1..Len(sent)
    BY <1>1, <1>6
  <2>2. (2 * k + 1) % 2 = 1 /\ (2 * k + 2) % 2 = 0 /\ ((2 * k + 1) + 1) \div 2 = k + 1
    OBVIOUS
  <2>3. Piece(2 * k + 1) = sent[k + 1].op /\ Piece(2 * k + 2) = CRLF
    BY <2>2 DEF Piece
  <2>. QED
    BY <2>1, <2>3, <1>2 DEF Arrived
<1>. QED
  BY <1>1, <1>4, <1>5, <1>6 DEF Arrived

(* A prefix, element by element.                                           *)
LEMMA PrefixFacts ==
  ASSUME NEW S, NEW s \in Seq(S), NEW t \in Seq(S)
  PROVE  IsPrefix(s, t) <=> Len(s) <= Len(t) /\ \A i \in 1..Len(s) : s[i] = t[i]
<1>1. Len(s) \in Nat /\ Len(t) \in Nat
  BY LenProperties
<1>2. SubSeq(s, 1, Len(s)) = s
  BY SubSeqFull
<1>3. ASSUME Len(s) <= Len(t)
      PROVE  /\ SubSeq(t, 1, Len(s)) \in Seq(S) /\ Len(SubSeq(t, 1, Len(s))) = Len(s)
             /\ \A i \in 1..Len(s) : SubSeq(t, 1, Len(s))[i] = t[i]
  <2>1. \A i \in 1..Len(s) : t[i] \in S
    BY <1>1, <1>3, ElementOfSeq
  <2>2. /\ SubSeq(t, 1, Len(s)) \in Seq(S)
        /\ Len(SubSeq(t, 1, Len(s))) = IF 1 <= Len(s) THEN Len(s) - 1 + 1 ELSE 0
        /\ \A i \in 1..(Len(s) - 1 + 1) : SubSeq(t, 1, Len(s))[i] = t[1 + i - 1]
    BY <1>1, <2>1, SubSeqProperties
  <2>. QED
    BY <1>1, <2>2
<1>4. ASSUME Len(s) <= Len(t), \A i \in 1..Len(s) : s[i] = t[i]
      PROVE  SubSeq(t, 1, Len(s)) = s
  BY <1>3, <1>4, SeqEqual
<1>. QED
  BY <1>2, <1>3, <1>4 DEF IsPrefix

(* The first names of messages.                                            *)
LEMMA NamesPrefix ==
  ASSUME NEW s \in Seq(Messages), NEW c \in Seq(Names)
  PROVE  IsPrefix(c, OpsOf(s)) <=> Len(c) <= Len(s) /\ \A i \in 1..Len(c) : c[i] = s[i].op
<1>1. /\ OpsOf(s) \in Seq(Names) /\ Len(OpsOf(s)) = Len(s)
      /\ \A i \in 1..Len(s) : OpsOf(s)[i] = s[i].op
  BY OpsOfFacts
<1>2. IsPrefix(c, OpsOf(s)) <=> Len(c) <= Len(OpsOf(s)) /\ \A i \in 1..Len(c) : c[i] = OpsOf(s)[i]
  BY <1>1, PrefixFacts
<1>3. Len(c) \in Nat /\ Len(s) \in Nat
  BY LenProperties
<1>. QED
  BY <1>1, <1>2, <1>3

(* The first line end, of a buffer that has none and of one that begins    *)
(* with a message.                                                         *)
LEMMA LineEndFacts ==
  ASSUME NEW buff \in Seq(Pieces)
  PROVE  /\ (\A i \in 1..Len(buff) : buff[i] # CRLF) => LineEnd(buff) = 0
         /\ Len(buff) >= 2 /\ buff[1] # CRLF /\ buff[2] = CRLF => LineEnd(buff) = 2
<1>. DEFINE I == {i \in 1..Len(buff) : buff[i] = CRLF}
<1>1. LineEnd(buff) = IF I # {} THEN CHOOSE x \in I : \A y \in I : x <= y ELSE 0
  BY DEF LineEnd, SelectInSeq, Min
<1>2. Len(buff) \in Nat
  BY LenProperties
<1>3. ASSUME Len(buff) >= 2, buff[1] # CRLF, buff[2] = CRLF PROVE LineEnd(buff) = 2
  <2>1. 2 \in I /\ \A y \in I : 2 <= y
    BY <1>2, <1>3
  <2>2. \A x \in I : (\A y \in I : x <= y) => x = 2
    BY <1>2, <2>1
  <2>. QED
    BY <1>1, <2>1, <2>2
<1>. QED
  BY <1>1, <1>3

-----------------------------------------------------------------------------
(* What most steps leave as it is.                                         *)

(* What the peer has heard depends on what was sent and on its own steps.  *)
LEMMA PeerKeeps ==
  ASSUME Heard, PeerHearsInOrder, UNCHANGED <<sent, peer>>
  PROVE  Heard' /\ PeerHearsInOrder'
<1>1. Arrived' = Arrived
  BY DEF Arrived, Piece
<1>. QED
  BY <1>1 DEF Heard, PeerHearsInOrder, OpsOf, peer

(* Tasks that stay where they are, or are put away, are filed once.        *)
LEMMA FiledKeeps ==
  ASSUME TypeOK, FiledOnce, UNCHANGED <<taskQue, item>>,
         \A w \in Workers : worker'[w] = "popped" => worker[w] = "popped",
         \A o \in Operations : op'[o] = "new" => op[o] = "new"
  PROVE  FiledOnce'
<1>1. Filed' = Filed
  BY DEF Filed
<1>2. Held' \subseteq Held
  BY DEF Held
<1>. QED
  BY <1>1, <1>2 DEF FiledOnce

(* A worker that is busy while workers come one at a time is the only one. *)
LEMMA OnlyWorker ==
  ASSUME TypeOK, OneWorker, NEW w \in Workers, NEW s,
         worker[w] # "idle" \/ \A v \in Workers : worker[v] = "idle",
         worker' = [worker EXCEPT ![w] = s], overlaps' = overlaps, alone
  PROVE  /\ \A v \in Workers : v # w => worker[v] = "idle" /\ worker'[v] = "idle"
         /\ worker'[w] = s
         /\ Served = (IF worker[w] \in {"taken", "write", "written", "ret1"} THEN 1 ELSE 0)
         /\ Served' = (IF s \in {"taken", "write", "written", "ret1"} THEN 1 ELSE 0)
<1>1. \A v \in Workers : v # w => worker[v] = "idle"
  BY DEF OneWorker
<1>2. worker'[w] = s /\ \A v \in Workers : v # w => worker'[v] = worker[v]
  BY DEF TypeOK
<1>. QED
  BY <1>1, <1>2 DEF Served

(* It stays the only one.                                                  *)
LEMMA OneWorkerKeeps ==
  ASSUME TypeOK, OneWorker, NEW w \in Workers, NEW s,
         worker[w] # "idle" \/ \A v \in Workers : worker[v] = "idle",
         worker' = [worker EXCEPT ![w] = s], overlaps' = overlaps
  PROVE  OneWorker'
<1>. SUFFICES ASSUME alone' PROVE \A v \in Workers : v # w => worker'[v] = "idle"
  BY DEF OneWorker
<1>1. alone
  BY DEF alone
<1>. QED
  BY <1>1, OnlyWorker

(* The numbers that are compared.                                          *)
LEMMA Numbers ==
  ASSUME TypeOK
  PROVE  /\ IsFiniteSet(Queued) /\ Cardinality(Queued) \in Nat /\ jobs \in Nat
         /\ Len(taskQue) \in Nat /\ Len(sendBuff) \in Nat /\ handled \in Nat
         /\ Armed \in 0..1 /\ Served \in 0..1 /\ Unfinished \in 0..1
<1>1. IsFiniteSet(Queued)
  BY PeerAssumption, FS_Subset DEF Queued
<1>2. Cardinality(Queued) \in Nat
  BY <1>1, FS_CardinalityType
<1>3. Len(taskQue) \in Nat /\ Len(sendBuff) \in Nat
  BY LenProperties DEF TypeOK
<1>. QED
  BY <1>1, <1>2, <1>3 DEF TypeOK, Armed, Served, Unfinished

-----------------------------------------------------------------------------
(* Operations and the event loop.                                          *)

LEMMA AddTaskIInv ==
  ASSUME IInv, NEW o \in Operations, AddTask(o)
  PROVE  IInv'
<1>. DEFINE t == SynTask(o)
<1>1. t \in Tasks /\ t.op = o
  BY DEF SynTask, Tasks
<1>2. taskQue \in Seq(Tasks)
  BY DEF IInv, TypeOK
<1>3. /\ taskQue' \in Seq(Tasks) /\ Len(taskQue) \in Nat /\ Len(taskQue') = Len(taskQue) + 1
      /\ \A i \in 1..Len(taskQue) : taskQue'[i] = taskQue[i]
      /\ taskQue'[Len(taskQue) + 1] = t
  <2>1. taskQue' = Append(taskQue, t)
    BY DEF AddTask, FilesTask
  <2>. HIDE DEF t
  <2>. QED
    BY <1>1, <1>2, <2>1, AppendProperties, LenProperties
<1>4. TypeOK'
  BY <1>3 DEF IInv, TypeOK, AddTask, FilesTask, peer, Arrived, Piece
<1>5. OneWorker' /\ NeverHangsUp'
  BY DEF IInv, OneWorker, NeverHangsUp, alone, AddTask
<1>6. FiledOnce'
  <2>1. o \notin Filed \cup Held
    BY DEF IInv, FiledOnce, AddTask
  <2>2. Held' = Held
    BY DEF Held, AddTask
  <2>3. Filed' = Filed \cup {o}
    BY <1>1, <1>3 DEF Filed
  <2>4. \A i \in 1..Len(taskQue) : taskQue[i].op # o
    BY <2>1 DEF Filed
  <2>5. \A i, j \in 1..Len(taskQue') : taskQue'[i].op = taskQue'[j].op => i = j
    BY <1>1, <1>3, <2>4 DEF IInv, FiledOnce
  <2>6. \A p \in Operations : op'[p] = "new" => op[p] = "new" /\ p # o
    BY DEF AddTask, IInv, TypeOK
  <2>. QED
    BY <2>1, <2>2, <2>3, <2>5, <2>6 DEF IInv, FiledOnce, AddTask
<1>7. Phases'
  BY DEF IInv, Phases, alone, AddTask
<1>8. Enough'
  <2>1. Queued' = Queued \cup {o} /\ o \notin Queued
    BY DEF Queued, AddTask, IInv, TypeOK
  <2>2. Cardinality(Queued') = Cardinality(Queued) + 1
    BY <2>1, Numbers, FS_AddElement DEF IInv
  <2>3. /\ Armed' = Armed /\ Served' = Served /\ Unfinished' = Unfinished
        /\ jobs' = jobs /\ overlaps' = overlaps
    BY DEF Armed, Served, Unfinished, AddTask, FilesTask
  <2>. QED
    BY <1>3, <2>2, <2>3, Numbers DEF IInv, Enough, alone
<1>9. Heard' /\ PeerHearsInOrder'
  BY PeerKeeps DEF IInv, AddTask
<1>. QED
  BY <1>4, <1>5, <1>6, <1>7, <1>8, <1>9 DEF IInv

LEMMA ModFdOutIInv ==
  ASSUME IInv, NEW o \in Operations, ModFdOut(o)
  PROVE  IInv'
<1>1. TypeOK'
  BY DEF IInv, TypeOK, ModFdOut, peer, Arrived, Piece
<1>2. OneWorker' /\ NeverHangsUp' /\ Phases'
  BY DEF IInv, OneWorker, NeverHangsUp, Phases, alone, ModFdOut
<1>3. \A p \in Operations : op'[p] = "new" => op[p] = "new"
  BY DEF ModFdOut, IInv, TypeOK
<1>4. FiledOnce'
  BY <1>3, FiledKeeps DEF IInv, ModFdOut
<1>5. Enough'
  <2>1. Queued' = Queued \ {o} /\ o \in Queued
    BY DEF Queued, ModFdOut, IInv, TypeOK
  <2>2. Cardinality(Queued') = Cardinality(Queued) - 1
    BY <2>1, Numbers, FS_RemoveElement DEF IInv
  <2>3. /\ Armed' = 1 /\ Served' = Served /\ Unfinished' = Unfinished
        /\ jobs' = jobs /\ overlaps' = overlaps /\ taskQue' = taskQue
    BY DEF Armed, Served, Unfinished, ModFdOut
  <2>. QED
    BY <2>2, <2>3, Numbers DEF IInv, Enough, alone
<1>6. Heard' /\ PeerHearsInOrder'
  BY PeerKeeps DEF IInv, ModFdOut
<1>. QED
  BY <1>1, <1>2, <1>4, <1>5, <1>6 DEF IInv

LEMMA DispatchIInv ==
  ASSUME IInv, Dispatch
  PROVE  IInv'
<1>1. TypeOK'
  BY DEF IInv, TypeOK, Dispatch, peer, Arrived, Piece
<1>2. OneWorker' /\ NeverHangsUp' /\ Phases'
  BY DEF IInv, OneWorker, NeverHangsUp, Phases, alone, Dispatch
<1>3. FiledOnce'
  BY FiledKeeps DEF IInv, Dispatch
<1>4. Enough'
  <2>1. Armed = 1 /\ Armed' = 0 /\ Served' = Served /\ Unfinished' = Unfinished
    BY DEF Armed, Served, Unfinished, Dispatch
  <2>2. Queued' = Queued /\ jobs' = jobs + 1 /\ overlaps' = overlaps /\ taskQue' = taskQue
    BY DEF Queued, Dispatch
  <2>. QED
    BY <2>1, <2>2, Numbers DEF IInv, Enough, alone
<1>5. Heard' /\ PeerHearsInOrder'
  BY PeerKeeps DEF IInv, Dispatch
<1>. QED
  BY <1>1, <1>2, <1>3, <1>4, <1>5 DEF IInv

-----------------------------------------------------------------------------
(* Workers.                                                                *)

LEMMA TakeIInv ==
  ASSUME IInv, NEW w \in Workers, Take(w)
  PROVE  IInv'
<1>. DEFINE s == IF status = "init" THEN "taken" ELSE "write"
<1>1. s \in {"taken", "write"} /\ worker' = [worker EXCEPT ![w] = s]
  BY DEF Take
<1>2. overlaps' \in 0..MaxOverlaps
      /\ (alone' => alone /\ overlaps' = overlaps /\ \A v \in Workers : worker[v] = "idle")
  BY PeerAssumption DEF Take, alone, IInv, TypeOK
<1>3. TypeOK'
  BY <1>1, <1>2 DEF IInv, TypeOK, Take, peer, Arrived, Piece
<1>4. ASSUME alone'
      PROVE  /\ \A v \in Workers : v # w => worker'[v] = "idle"
             /\ worker'[w] = s /\ Served = 0 /\ Served' = 1
  <2>. HIDE DEF s
  <2>1. worker[w] = "idle"
    BY <1>2, <1>4
  <2>. QED
    BY <1>1, <1>2, <1>4, <2>1, OnlyWorker DEF IInv
<1>5. OneWorker' /\ NeverHangsUp'
  BY <1>2, <1>4 DEF IInv, OneWorker, NeverHangsUp, Take
<1>6. FiledOnce'
  <2>1. \A v \in Workers : worker'[v] = "popped" => worker[v] = "popped"
    BY <1>1 DEF IInv, TypeOK
  <2>. QED
    BY <2>1, FiledKeeps DEF IInv, Take
<1>7. Phases'
  <2>. SUFFICES ASSUME alone' PROVE Phases'
    BY DEF Phases
  <2>1. status' = status /\ sendBuff' = sendBuff /\ handled' = handled
    BY DEF Take
  <2>2. status \in {"init", "head"}
    BY DEF IInv, TypeOK
  <2>. QED
    BY <1>2, <1>4, <2>1, <2>2 DEF IInv, Phases
<1>8. Enough'
  <2>. SUFFICES ASSUME alone' PROVE Enough'
    BY DEF Enough
  <2>1. Armed' = Armed /\ Unfinished' = Unfinished /\ Queued' = Queued
        /\ jobs' = jobs - 1 /\ taskQue' = taskQue
    BY DEF Armed, Unfinished, Queued, Take
  <2>. QED
    BY <1>2, <1>4, <2>1, Numbers DEF IInv, Enough
<1>9. Heard' /\ PeerHearsInOrder'
  BY PeerKeeps DEF IInv, Take
<1>. QED
  BY <1>3, <1>5, <1>6, <1>7, <1>8, <1>9 DEF IInv

LEMMA PopIInv ==
  ASSUME IInv, NEW w \in Workers, Pop(w)
  PROVE  IInv'
<1>1. worker[w] = "taken" /\ worker' = [worker EXCEPT ![w] = "popped"] /\ overlaps' = overlaps
  BY DEF Pop
<1>2. taskQue \in Seq(Tasks) /\ taskQue # <<>>
  BY DEF Pop, IInv, TypeOK
<1>3. /\ Len(taskQue) \in Nat \ {0} /\ Len(taskQue') = Len(taskQue) - 1
      /\ taskQue' \in Seq(Tasks) /\ taskQue[1] \in Tasks
      /\ \A i \in 1..Len(taskQue') : taskQue'[i] = taskQue[i + 1]
  BY <1>2, HeadTailProperties, EmptySeq, ElementOfSeq DEF Pop, QueuePopped
<1>4. item' = [item EXCEPT ![w] = taskQue[1]]
  BY <1>2 DEF Pop
<1>5. TypeOK'
  BY <1>1, <1>3, <1>4 DEF IInv, TypeOK, Pop, peer, Arrived, Piece
<1>6. OneWorker'
  BY <1>1, OneWorkerKeeps DEF IInv
<1>7. NeverHangsUp'
  BY DEF IInv, NeverHangsUp, alone, Pop
<1>8. FiledOnce'
  <2>1. /\ item'[w] = taskQue[1] /\ worker'[w] = "popped"
        /\ \A v \in Workers : v # w => item'[v] = item[v] /\ worker'[v] = worker[v]
    BY <1>1, <1>4 DEF IInv, TypeOK
  <2>2. Filed = Filed' \cup {taskQue[1].op}
    <3>1. \A x \in Filed' : x \in Filed
      BY <1>3 DEF Filed
    <3>2. taskQue[1].op \in Filed
      BY <1>3 DEF Filed
    <3>3. ASSUME NEW i \in 1..Len(taskQue), i # 1
          PROVE  taskQue[i].op \in Filed'
      <4>1. i - 1 \in 1..Len(taskQue') /\ (i - 1) + 1 = i
        BY <1>3, <3>3
      <4>. QED
        BY <1>3, <4>1 DEF Filed
    <3>. QED
      BY <3>1, <3>2, <3>3 DEF Filed
  <2>3. taskQue[1].op \notin Filed' /\ taskQue[1].op \notin Held
    <3>1. ASSUME NEW i \in 1..Len(taskQue') PROVE taskQue'[i].op # taskQue[1].op
      <4>1. i + 1 \in 1..Len(taskQue) /\ 1 \in 1..Len(taskQue) /\ i + 1 # 1
        BY <1>3
      <4>. QED
        BY <1>3, <4>1 DEF IInv, FiledOnce
    <3>. QED
      BY <2>2, <3>1 DEF Filed, IInv, FiledOnce
  <2>4. Held' = Held \cup {taskQue[1].op}
    BY <1>1, <2>1 DEF Held
  <2>5. \A i, j \in 1..Len(taskQue') : taskQue'[i].op = taskQue'[j].op => i = j
    <3>1. ASSUME NEW i \in 1..Len(taskQue'), NEW j \in 1..Len(taskQue'),
                 taskQue'[i].op = taskQue'[j].op
          PROVE  i = j
      <4>1. i + 1 \in 1..Len(taskQue) /\ j + 1 \in 1..Len(taskQue)
        BY <1>3
      <4>2. i + 1 = j + 1
        BY <1>3, <3>1, <4>1 DEF IInv, FiledOnce
      <4>. QED
        BY <4>2
    <3>. QED
      BY <3>1
  <2>6. \A v \in Workers : worker[v] = "popped" => item[v].op # taskQue[1].op
    BY <2>3 DEF Held
  <2>7. \A u, v \in Workers :
          worker'[u] = "popped" /\ worker'[v] = "popped" /\ item'[u].op = item'[v].op => u = v
    BY <2>1, <2>6 DEF IInv, FiledOnce
  <2>. QED
    BY <2>2, <2>3, <2>4, <2>5, <2>7 DEF IInv, FiledOnce, Pop
<1>9. ASSUME alone'
      PROVE  /\ alone /\ Served = 1 /\ Served' = 0 /\ worker'[w] = "popped"
             /\ \A v \in Workers : v # w => worker'[v] = "idle"
  BY <1>1, <1>9, OnlyWorker DEF IInv, alone
<1>10. Phases'
  <2>. SUFFICES ASSUME alone' PROVE Phases'
    BY DEF Phases
  <2>1. status' = status /\ sendBuff' = sendBuff /\ handled' = handled
    BY DEF Pop
  <2>. QED
    BY <1>1, <1>9, <2>1 DEF IInv, Phases
<1>11. Enough'
  <2>. SUFFICES ASSUME alone' PROVE Enough'
    BY DEF Enough
  <2>1. Armed' = Armed /\ Unfinished' = Unfinished /\ Queued' = Queued /\ jobs' = jobs
    BY DEF Armed, Unfinished, Queued, Pop
  <2>. QED
    BY <1>3, <1>9, <2>1, Numbers DEF IInv, Enough
<1>12. Heard' /\ PeerHearsInOrder'
  BY PeerKeeps DEF IInv, Pop
<1>. QED
  BY <1>5, <1>6, <1>7, <1>8, <1>10, <1>11, <1>12 DEF IInv

LEMMA ReadyIInv ==
  ASSUME IInv, NEW w \in Workers, Ready(w)
  PROVE  IInv'
<1>1. worker[w] = "popped" /\ worker' = [worker EXCEPT ![w] = "write"] /\ overlaps' = overlaps
  BY DEF Ready
<1>2. MessageOf(item[w]) \in Messages /\ sendBuff \in Seq(Messages)
  BY TaskFacts DEF IInv, TypeOK
<1>3. sendBuff' \in Seq(Messages) /\ Len(sendBuff) \in Nat /\ Len(sendBuff') = Len(sendBuff) + 1
  BY <1>2, AppendProperties, LenProperties DEF Ready
<1>4. TypeOK'
  BY <1>1, <1>3 DEF IInv, TypeOK, Ready, peer, Arrived, Piece
<1>5. OneWorker'
  BY <1>1, OneWorkerKeeps DEF IInv
<1>6. NeverHangsUp'
  BY DEF IInv, NeverHangsUp, alone, Ready
<1>7. FiledOnce'
  <2>1. \A v \in Workers : worker'[v] = "popped" => worker[v] = "popped"
    BY <1>1 DEF IInv, TypeOK
  <2>. QED
    BY <2>1, FiledKeeps DEF IInv, Ready
<1>8. ASSUME alone'
      PROVE  /\ alone /\ Served = 0 /\ Served' = 1 /\ worker'[w] = "write"
             /\ \A v \in Workers : v # w => worker'[v] = "idle"
  BY <1>1, <1>8, OnlyWorker DEF IInv, alone
<1>9. Phases'
  <2>. SUFFICES ASSUME alone' PROVE Phases'
    BY DEF Phases
  <2>1. status' = "head" /\ handled' = handled /\ handled <= Len(sendBuff) /\ handled \in Nat
    BY <1>8 DEF Ready, IInv, Phases, TypeOK
  <2>2. handled' < Len(sendBuff')
    BY <1>3, <2>1
  <2>. QED
    BY <1>3, <1>8, <2>1, <2>2 DEF Phases
<1>10. Enough'
  <2>. SUFFICES ASSUME alone' PROVE Enough'
    BY DEF Enough
  <2>1. status = "init" /\ status' = "head"
    BY <1>1, <1>8 DEF Ready, IInv, Phases
  <2>2. Armed' = Armed /\ Queued' = Queued /\ jobs' = jobs /\ taskQue' = taskQue
        /\ Unfinished = 0 /\ Unfinished' = 1
    BY <2>1 DEF Armed, Unfinished, Queued, Ready
  <2>. QED
    BY <1>8, <2>2, Numbers DEF IInv, Enough
<1>11. Heard' /\ PeerHearsInOrder'
  BY PeerKeeps DEF IInv, Ready
<1>. QED
  BY <1>4, <1>5, <1>6, <1>7, <1>9, <1>10, <1>11 DEF IInv

(* The messages not handled yet.                                           *)
LEMMA NotHandledFacts ==
  ASSUME sendBuff \in Seq(Messages), handled \in Nat
  PROVE  /\ NotHandled \in Seq(Messages)
         /\ handled <= Len(sendBuff) => Len(NotHandled) = Len(sendBuff) - handled
<1>1. Len(sendBuff) \in Nat
  BY LenProperties
<1>2. \A i \in (handled + 1)..Len(sendBuff) : sendBuff[i] \in Messages
  BY <1>1, ElementOfSeq
<1>3. /\ NotHandled \in Seq(Messages)
      /\ Len(NotHandled) = IF handled + 1 <= Len(sendBuff)
                          THEN Len(sendBuff) - (handled + 1) + 1 ELSE 0
  BY <1>1, <1>2, SubSeqProperties DEF NotHandled
<1>. QED
  BY <1>1, <1>3

(* What is sent more comes behind what was sent, and the peer has not read *)
(* it yet.                                                                 *)
LEMMA SentGrows ==
  ASSUME TypeOK, Heard, PeerHearsInOrder, NEW m \in Seq(Messages),
         sent' = sent \o m, UNCHANGED peer
  PROVE  /\ sent' \in Seq(Messages) /\ received' \in 0..Len(Arrived')
         /\ Heard' /\ PeerHearsInOrder'
<1>1. sent \in Seq(Messages) /\ received \in Nat /\ received <= Len(Arrived)
  BY LenProperties, ArrivedFacts DEF TypeOK
<1>2. /\ sent' \in Seq(Messages) /\ Len(sent') = Len(sent) + Len(m)
      /\ Len(m) \in Nat /\ Len(sent) \in Nat
      /\ \A i \in 1..Len(sent) : sent'[i] = sent[i]
  BY <1>1, ConcatProperties, LenProperties
<1>3. /\ Arrived \in Seq(Pieces) /\ Len(Arrived) = 2 * Len(sent)
      /\ \A i \in 1..2 * Len(sent) : Arrived[i] = Piece(i)
  BY <1>1, ArrivedFacts
<1>4. /\ Arrived' \in Seq(Pieces) /\ Len(Arrived') = 2 * Len(sent')
      /\ \A i \in 1..2 * Len(sent') : Arrived'[i] = Piece(i)'
  <2>1. Arrived' = [i \in 1..2 * Len(sent') |-> Piece(i)']
    BY DEF Arrived
  <2>2. \A i \in 1..2 * Len(sent') : Piece(i)' \in Pieces
    <3>1. ASSUME NEW k \in 1..Len(sent') PROVE sent'[k].op \in Names
      <4>1. sent'[k] \in Messages
        BY <1>2, ElementOfSeq
      <4>. QED
        BY <4>1 DEF Messages, Names
    <3>2. \A i \in 1..2 * Len(sent') : i % 2 = 1 => (i + 1) \div 2 \in 1..Len(sent')
      BY <1>2
    <3>. QED
      BY <3>1, <3>2 DEF Piece, Pieces
  <2>3. 2 * Len(sent') \in Nat
    BY <1>2
  <2>4. Arrived' \in Seq(Pieces)
    BY <2>1, <2>2, <2>3, IsASeq
  <2>. QED
    BY <2>1, <2>3, <2>4, LenProperties
<1>5. \A i \in 1..Len(Arrived) : Arrived'[i] = Arrived[i]
  <2>1. ASSUME NEW i \in 1..2 * Len(sent) PROVE Piece(i)' = Piece(i)
    <3>1. i % 2 = 1 => (i + 1) \div 2 \in 1..Len(sent)
      BY <1>2
    <3>. QED
      BY <1>2, <3>1 DEF Piece
  <2>2. \A i \in 1..2 * Len(sent) : i \in 1..2 * Len(sent')
    BY <1>2
  <2>. QED
    BY <1>3, <1>4, <2>1, <2>2
<1>6. connects \in Seq(Names) /\ Len(connects) \in Nat /\ 2 * Len(connects) <= received
  BY LenProperties DEF Heard
<1>7. connects' = connects /\ received' = received /\ recvBuff' = recvBuff /\ hears' = hears
  BY DEF peer
<1>8. Heard' /\ received' \in 0..Len(Arrived')
  BY <1>1, <1>2, <1>3, <1>4, <1>6, <1>7 DEF Heard
<1>9. IsPrefix(connects, OpsOf(sent'))
  <2>1. Len(connects) <= Len(sent) /\ \A i \in 1..Len(connects) : connects[i] = sent[i].op
    BY <1>1, <1>6, NamesPrefix DEF PeerHearsInOrder
  <2>2. Len(connects) <= Len(sent') /\ \A i \in 1..Len(connects) : connects[i] = sent'[i].op
    BY <1>2, <1>6, <2>1
  <2>. QED
    BY <1>2, <1>6, <2>2, NamesPrefix
<1>10. SubSeq(Arrived', 2 * Len(connects) + 1, received) = SubSeq(Arrived, 2 * Len(connects) + 1, received)
  <2>1. \A i \in (2 * Len(connects) + 1)..received : i \in 1..Len(Arrived) /\ i \in 1..Len(Arrived')
    BY <1>1, <1>2, <1>3, <1>4, <1>6
  <2>2. \A i \in (2 * Len(connects) + 1)..received :
          Arrived[i] \in Pieces /\ Arrived'[i] = Arrived[i]
    BY <1>3, <1>5, <2>1, ElementOfSeq
  <2>. DEFINE l == 2 * Len(connects) + 1
              a == Arrived
              b == Arrived'
  <2>3. l \in Int /\ received \in Int
    BY <1>1, <1>6
  <2>4. \A i \in l..received : a[i] \in Pieces /\ b[i] = a[i]
    BY <2>2
  <2>. HIDE DEF l, a, b
  <2>5. /\ SubSeq(a, l, received) \in Seq(Pieces)
        /\ Len(SubSeq(a, l, received)) = IF l <= received THEN received - l + 1 ELSE 0
        /\ \A i \in 1..(received - l + 1) : SubSeq(a, l, received)[i] = a[l + i - 1]
    BY <2>3, <2>4, SubSeqProperties
  <2>6. /\ SubSeq(b, l, received) \in Seq(Pieces)
        /\ Len(SubSeq(b, l, received)) = IF l <= received THEN received - l + 1 ELSE 0
        /\ \A i \in 1..(received - l + 1) : SubSeq(b, l, received)[i] = b[l + i - 1]
    BY <2>3, <2>4, SubSeqProperties
  <2>7. \A i \in 1..Len(SubSeq(a, l, received)) : SubSeq(b, l, received)[i] = SubSeq(a, l, received)[i]
    BY <2>3, <2>4, <2>5, <2>6
  <2>8. SubSeq(b, l, received) = SubSeq(a, l, received)
    BY <2>5, <2>6, <2>7, SeqEqual
  <2>. QED
    BY <2>8 DEF l, a, b
<1>. QED
  BY <1>2, <1>7, <1>8, <1>9, <1>10 DEF PeerHearsInOrder, OpsOf

LEMMA WriteIInv ==
  ASSUME IInv, NEW w \in Workers, Write(w)
  PROVE  IInv'
<1>1. /\ worker[w] = "write" /\ overlaps' = overlaps /\ alive' = alive /\ status' = status
      /\ sendBuff' = sendBuff /\ handled' = handled /\ item' = item /\ taskQue' = taskQue
      /\ op' = op /\ jobs' = jobs /\ armed' = armed /\ UNCHANGED peer
  BY DEF Write
<1>2. PICK s \in {"ret2", "written"} :
        /\ worker' = [worker EXCEPT ![w] = s]
        /\ s = "ret2" => handled >= Len(sendBuff)
        /\ s = "ret2" => sentLen' = sentLen /\ sent' = sent
        /\ s = "written" => /\ sentLen' = [sentLen EXCEPT ![w] = Len(NotHandled)]
                            /\ sent' = sent \o NotHandled /\ handled < Len(sendBuff)
  <2>1. CASE WriteNothing(w)
    BY <2>1 DEF WriteNothing
  <2>2. CASE WriteAll(w)
    BY <2>2 DEF WriteAll
  <2>. QED
    BY <2>1, <2>2 DEF Write
<1>3. /\ NotHandled \in Seq(Messages) /\ Len(NotHandled) \in Nat
      /\ handled <= Len(sendBuff) => Len(NotHandled) = Len(sendBuff) - handled
  BY NotHandledFacts, LenProperties DEF IInv, TypeOK
<1>4. /\ sent' \in Seq(Messages) /\ received' \in 0..Len(Arrived')
      /\ Heard' /\ PeerHearsInOrder'
  <2>1. CASE s = "written"
    BY <1>1, <1>2, <1>3, <2>1, SentGrows DEF IInv
  <2>2. CASE s # "written"
    <3>1. sent' = sent
      BY <1>2, <2>2
    <3>2. Arrived' = Arrived
      BY <3>1 DEF Arrived, Piece
    <3>. QED
      BY <1>1, <3>1, <3>2, PeerKeeps DEF IInv, TypeOK, peer
  <2>. QED
    BY <2>1, <2>2
<1>5. TypeOK'
  <2>1. sentLen' \in [Workers -> Nat]
    BY <1>2, <1>3 DEF IInv, TypeOK
  <2>. QED
    BY <1>1, <1>2, <1>4, <2>1 DEF IInv, TypeOK, peer
<1>6. OneWorker'
  BY <1>1, <1>2, OneWorkerKeeps DEF IInv
<1>7. NeverHangsUp'
  BY <1>1 DEF IInv, NeverHangsUp, alone
<1>8. FiledOnce'
  <2>1. \A v \in Workers : worker'[v] = "popped" => worker[v] = "popped"
    BY <1>2 DEF IInv, TypeOK
  <2>. QED
    BY <1>1, <2>1, FiledKeeps DEF IInv
<1>9. ASSUME alone'
      PROVE  /\ alone /\ status = "head" /\ handled < Len(sendBuff) /\ s # "ret2" /\ worker'[w] = s
             /\ Served = 1 /\ Served' = 1 /\ \A v \in Workers : v # w => worker'[v] = "idle"
  <2>1. alone
    BY <1>1, <1>9 DEF alone
  <2>2. status = "head" /\ handled < Len(sendBuff) /\ handled \in Nat /\ Len(sendBuff) \in Nat
    BY <1>1, <2>1, Numbers DEF IInv, Phases
  <2>3. s # "ret2"
    BY <1>2, <2>2
  <2>. QED
    BY <1>1, <1>2, <2>1, <2>2, <2>3, OnlyWorker DEF IInv
<1>10. Phases'
  <2>. SUFFICES ASSUME alone' PROVE Phases'
    BY DEF Phases
  <2>1. s = "written" => sentLen'[w] = Len(sendBuff) - handled
    BY <1>2, <1>3, <1>9 DEF IInv, TypeOK, Phases
  <2>. QED
    BY <1>1, <1>9, <2>1 DEF IInv, Phases
<1>11. Enough'
  <2>. SUFFICES ASSUME alone' PROVE Enough'
    BY DEF Enough
  <2>1. Armed' = Armed /\ Queued' = Queued /\ Unfinished' = Unfinished
    BY <1>1 DEF Armed, Unfinished, Queued
  <2>. QED
    BY <1>1, <1>9, <2>1, Numbers DEF IInv, Enough
<1>. QED
  BY <1>4, <1>5, <1>6, <1>7, <1>8, <1>10, <1>11 DEF IInv

LEMMA AccountIInv ==
  ASSUME IInv, NEW w \in Workers, Account(w)
  PROVE  IInv'
<1>1. /\ worker[w] = "written" /\ overlaps' = overlaps /\ alive' = alive
      /\ sendBuff' = sendBuff /\ item' = item /\ taskQue' = taskQue
      /\ op' = op /\ jobs' = jobs /\ armed' = armed /\ UNCHANGED <<sent, peer>>
      /\ handled' = handled + sentLen[w]
  BY DEF Account, HandledAfter
<1>2. PICK s \in {"ret0", "ret1"} :
        /\ worker' = [worker EXCEPT ![w] = s]
        /\ handled' = Len(sendBuff) => s = "ret0" /\ status' = "init"
        /\ status' \in {"init", "head"}
  <2>1. CASE handled' = Len(sendBuff)
    BY <2>1 DEF Account, StatusAfterSend
  <2>2. CASE handled' # Len(sendBuff)
    BY <2>2 DEF Account, IInv, TypeOK
  <2>. QED
    BY <2>1, <2>2
<1>3. handled \in Nat /\ sentLen[w] \in Nat /\ Len(sendBuff) \in Nat
  BY Numbers DEF IInv, TypeOK
<1>4. TypeOK'
  <2>1. handled' \in Nat
    BY <1>1, <1>3
  <2>. QED
    BY <1>2, <2>1 DEF IInv, TypeOK, Account, peer, Arrived, Piece
<1>5. OneWorker'
  BY <1>1, <1>2, OneWorkerKeeps DEF IInv
<1>6. NeverHangsUp'
  BY <1>1 DEF IInv, NeverHangsUp, alone
<1>7. FiledOnce'
  <2>1. \A v \in Workers : worker'[v] = "popped" => worker[v] = "popped"
    BY <1>2 DEF IInv, TypeOK
  <2>. QED
    BY <1>1, <2>1, FiledKeeps DEF IInv
<1>8. ASSUME alone'
      PROVE  /\ alone /\ status = "head" /\ status' = "init" /\ handled' = Len(sendBuff)
             /\ s = "ret0" /\ worker'[w] = s
             /\ Served = 1 /\ Served' = 0 /\ \A v \in Workers : v # w => worker'[v] = "idle"
  <2>1. alone
    BY <1>1, <1>8 DEF alone
  <2>2. status = "head" /\ sentLen[w] = Len(sendBuff) - handled
    BY <1>1, <2>1 DEF IInv, Phases
  <2>3. handled' = Len(sendBuff)
    BY <1>1, <1>3, <2>2
  <2>4. s = "ret0" /\ status' = "init"
    BY <1>2, <2>3
  <2>. QED
    BY <1>1, <1>2, <2>1, <2>2, <2>3, <2>4, OnlyWorker DEF IInv
<1>9. Phases'
  <2>. SUFFICES ASSUME alone' PROVE Phases'
    BY DEF Phases
  <2>. QED
    BY <1>1, <1>3, <1>8 DEF Phases
<1>10. Enough'
  <2>. SUFFICES ASSUME alone' PROVE Enough'
    BY DEF Enough
  <2>1. Armed' = Armed /\ Queued' = Queued /\ Unfinished = 1 /\ Unfinished' = 0
    BY <1>1, <1>8 DEF Armed, Unfinished, Queued
  <2>. QED
    BY <1>1, <1>8, <2>1, Numbers DEF IInv, Enough
<1>11. Heard' /\ PeerHearsInOrder'
  BY <1>1, PeerKeeps DEF IInv
<1>. QED
  BY <1>4, <1>5, <1>6, <1>7, <1>9, <1>10, <1>11 DEF IInv

LEMMA RearmIInv ==
  ASSUME IInv, NEW w \in Workers, Rearm(w)
  PROVE  IInv'
<1>1. /\ worker[w] \in {"ret0", "ret1"} /\ worker' = [worker EXCEPT ![w] = "idle"]
      /\ overlaps' = overlaps /\ armed' = (IF worker[w] = "ret0" THEN "in" ELSE "out")
  BY DEF Rearm, WaitsFor
<1>2. TypeOK'
  BY <1>1 DEF IInv, TypeOK, Rearm, peer, Arrived, Piece
<1>3. OneWorker'
  BY <1>1, OneWorkerKeeps DEF IInv
<1>4. NeverHangsUp'
  BY DEF IInv, NeverHangsUp, alone, Rearm
<1>5. FiledOnce'
  <2>1. \A v \in Workers : worker'[v] = "popped" => worker[v] = "popped"
    BY <1>1 DEF IInv, TypeOK
  <2>. QED
    BY <2>1, FiledKeeps DEF IInv, Rearm
<1>6. ASSUME alone'
      PROVE  /\ alone /\ \A v \in Workers : worker'[v] = "idle"
             /\ Served = (IF worker[w] = "ret1" THEN 1 ELSE 0) /\ Served' = 0
  BY <1>1, <1>6, OnlyWorker DEF IInv, alone
<1>7. Phases'
  <2>. SUFFICES ASSUME alone' PROVE Phases'
    BY DEF Phases
  <2>1. status' = status /\ sendBuff' = sendBuff /\ handled' = handled
    BY DEF Rearm
  <2>. QED
    BY <1>6, <2>1 DEF IInv, Phases
<1>8. Enough'
  <2>. SUFFICES ASSUME alone' PROVE Enough'
    BY DEF Enough
  <2>1. /\ Queued' = Queued /\ Unfinished' = Unfinished /\ jobs' = jobs /\ taskQue' = taskQue
        /\ Armed' + Served' <= Armed + Served
    BY <1>1, <1>6 DEF Armed, Unfinished, Queued, Rearm
  <2>2. Armed' \in 0..1 /\ Served' \in 0..1
    BY <1>6 DEF Armed
  <2>. QED
    BY <1>6, <2>1, <2>2, Numbers DEF IInv, Enough
<1>9. Heard' /\ PeerHearsInOrder'
  BY PeerKeeps DEF IInv, Rearm
<1>. QED
  BY <1>2, <1>3, <1>4, <1>5, <1>7, <1>8, <1>9 DEF IInv

(* A handler that closes found nothing to write: then workers have come    *)
(* when another was there.                                                 *)
LEMMA DealCloseIInv ==
  ASSUME IInv, NEW w \in Workers, DealClose(w)
  PROVE  IInv'
<1>1. /\ worker[w] = "ret2" /\ worker' = [worker EXCEPT ![w] = "idle"] /\ overlaps' = overlaps
      /\ ~alone
  BY DEF DealClose, IInv, Phases
<1>2. ~alone'
  BY <1>1 DEF alone
<1>3. TypeOK'
  BY <1>1 DEF IInv, TypeOK, DealClose, peer, Arrived, Piece
<1>4. FiledOnce'
  <2>1. \A v \in Workers : worker'[v] = "popped" => worker[v] = "popped"
    BY <1>1 DEF IInv, TypeOK
  <2>. QED
    BY <2>1, FiledKeeps DEF IInv, DealClose
<1>5. Heard' /\ PeerHearsInOrder'
  BY PeerKeeps DEF IInv, DealClose
<1>. QED
  BY <1>2, <1>3, <1>4, <1>5 DEF IInv, OneWorker, NeverHangsUp, Phases, Enough

-----------------------------------------------------------------------------
(* The peer.                                                               *)

(* Its steps are nothing to the node.                                      *)
LEMMA NodeKeeps ==
  ASSUME IInv, UNCHANGED <<op, taskQue, armed, jobs, worker, item, status, sendBuff, handled,
                           sentLen, sent, alive, overlaps>>
  PROVE  /\ OneWorker' /\ FiledOnce' /\ Phases' /\ Enough' /\ NeverHangsUp'
         /\ Arrived' = Arrived
<1>1. OneWorker' /\ Phases' /\ NeverHangsUp'
  BY DEF IInv, OneWorker, Phases, NeverHangsUp, alone
<1>2. FiledOnce'
  BY FiledKeeps DEF IInv
<1>3. Enough'
  BY DEF IInv, Enough, alone, Armed, Served, Queued, Unfinished
<1>. QED
  BY <1>1, <1>2, <1>3 DEF Arrived, Piece

(* The peer has in its buffer what came after the messages it took, so the *)
(* line it finds is the next message.                                      *)
LEMMA PeerReadsIInv ==
  ASSUME IInv, NEW n \in 1..Len(Arrived), PeerReads(n)
  PROVE  IInv'
<1>. DEFINE k == Len(connects)
            buff == recvBuff \o SubSeq(Arrived, received + 1, n)
<1>1. /\ hears /\ received < n /\ n <= Len(Arrived) /\ received' = n /\ hears' = hears
      /\ UNCHANGED <<op, taskQue, armed, jobs, worker, item, status, sendBuff, handled,
                     sentLen, sent, alive, overlaps>>
      /\ IF LineEnd(buff) = 0 THEN recvBuff' = buff /\ connects' = connects
         ELSE recvBuff' = AfterLine(buff) /\ connects' = Append(connects, Head(buff))
  BY DEF PeerReads, DealNEW
<1>2. sent \in Seq(Messages)
  BY DEF IInv, TypeOK
<1>3. /\ Arrived \in Seq(Pieces) /\ Len(Arrived) = 2 * Len(sent) /\ Len(sent) \in Nat
      /\ \A j \in Nat : j < Len(sent) =>
           /\ Arrived[2 * j + 1] = sent[j + 1].op /\ sent[j + 1].op \in Names
           /\ Arrived[2 * j + 2] = CRLF
  BY <1>2, ArrivedFacts
<1>4. /\ connects \in Seq(Names) /\ Len(connects) \in Nat /\ 2 * Len(connects) <= received
      /\ received \in Nat /\ recvBuff = SubSeq(Arrived, 2 * Len(connects) + 1, received)
  BY <1>1, <1>3, LenProperties DEF IInv, Heard, TypeOK, PeerHearsInOrder
<1>5. Arrived' = Arrived
  BY <1>1, NodeKeeps
<1>. HIDE DEF k
<1>6. k \in Nat /\ k < Len(sent) /\ 2 * k + 1 <= n /\ n \in Nat
  BY <1>1, <1>3, <1>4 DEF k
<1>7. buff = SubSeq(Arrived, 2 * k + 1, n)
  <2>1. /\ 2 * k + 1 \in 1..(Len(Arrived) + 1) /\ received \in (2 * k + 1) - 1..Len(Arrived)
        /\ n \in received..Len(Arrived)
    BY <1>1, <1>3, <1>4, <1>6 DEF k
  <2>2. recvBuff = SubSeq(Arrived, 2 * k + 1, received)
    BY <1>4 DEF k
  <2>. QED
    BY <1>3, <2>1, <2>2, ConcatAdjacentSubSeq
<1>8. /\ buff \in Seq(Pieces) /\ Len(buff) = n - 2 * k
      /\ \A i \in 1..(n - 2 * k) : buff[i] = Arrived[2 * k + i]
  <2>1. \A i \in (2 * k + 1)..n : Arrived[i] \in Pieces
    BY <1>1, <1>3, <1>6, ElementOfSeq
  <2>2. 2 * k + 1 \in Int /\ n \in Int
    BY <1>6
  <2>3. /\ SubSeq(Arrived, 2 * k + 1, n) \in Seq(Pieces)
        /\ Len(SubSeq(Arrived, 2 * k + 1, n)) = IF 2 * k + 1 <= n THEN n - (2 * k + 1) + 1 ELSE 0
        /\ \A i \in 1..(n - (2 * k + 1) + 1) :
             SubSeq(Arrived, 2 * k + 1, n)[i] = Arrived[(2 * k + 1) + i - 1]
    BY <2>1, <2>2, SubSeqProperties
  <2>4. n - (2 * k + 1) + 1 = n - 2 * k /\ 2 * k + 1 <= n
    BY <1>6
  <2>5. \A i \in 1..(n - 2 * k) : (2 * k + 1) + i - 1 = 2 * k + i
    BY <1>6
  <2>. HIDE DEF buff
  <2>6. buff \in Seq(Pieces) /\ Len(buff) = n - 2 * k
    BY <1>7, <2>3, <2>4
  <2>7. ASSUME NEW i \in 1..(n - 2 * k) PROVE buff[i] = Arrived[2 * k + i]
    BY <1>7, <2>3, <2>4, <2>5
  <2>. QED
    BY <2>6, <2>7
<1>. HIDE DEF buff
<1>9. buff[1] = sent[k + 1].op /\ buff[1] \in Names /\ buff[1] # CRLF
  <2>1. buff[1] = Arrived[2 * k + 1]
    BY <1>6, <1>8
  <2>. QED
    BY <1>3, <1>6, <2>1, NamesFacts
<1>10. Heard' /\ PeerHearsInOrder'
  <2>1. CASE n = 2 * k + 1
    <3>1. \A i \in 1..Len(buff) : buff[i] # CRLF
      BY <1>6, <1>8, <1>9, <2>1
    <3>2. LineEnd(buff) = 0
      BY <1>8, <3>1, LineEndFacts
    <3>3. recvBuff' = SubSeq(Arrived, 2 * k + 1, n) /\ connects' = connects
      BY <1>1, <1>7, <3>2
    <3>4. Heard'
      BY <1>1, <1>4, <1>6, <3>3 DEF Heard, k
    <3>5. OpsOf(sent)' = OpsOf(sent)
      BY <1>1 DEF OpsOf
    <3>. QED
      BY <1>1, <1>5, <3>3, <3>4, <3>5 DEF PeerHearsInOrder, IInv, k
  <2>2. CASE n # 2 * k + 1
    <3>1. n >= 2 * k + 2 /\ Len(buff) >= 2 /\ buff[2] = CRLF
      <4>1. n >= 2 * k + 2
        BY <1>6, <2>2
      <4>2. buff[2] = Arrived[2 * k + 2]
        BY <1>6, <1>8, <4>1
      <4>. QED
        BY <1>3, <1>6, <1>8, <4>1, <4>2
    <3>2. LineEnd(buff) = 2
      BY <1>8, <1>9, <3>1, LineEndFacts
    <3>3. recvBuff' = SubSeq(buff, 3, Len(buff)) /\ connects' = Append(connects, buff[1])
      <4>1. Head(buff) = buff[1]
        BY <1>6, <1>8
      <4>. QED
        BY <1>1, <3>2, <4>1 DEF AfterLine
    <3>4. /\ connects' \in Seq(Names) /\ Len(connects') = k + 1
          /\ \A i \in 1..k : connects'[i] = connects[i]
          /\ connects'[k + 1] = sent[k + 1].op
      BY <1>4, <1>9, <3>3, AppendProperties DEF k
    <3>5. Heard'
      BY <1>1, <1>6, <3>1, <3>4 DEF Heard
    <3>6. IsPrefix(connects', OpsOf(sent))
      <4>1. \A i \in 1..k : connects[i] = sent[i].op
        BY <1>2, <1>4, NamesPrefix DEF IInv, PeerHearsInOrder, k
      <4>2. k + 1 <= Len(sent) /\ \A i \in 1..(k + 1) : i \in 1..k \/ i = k + 1
        BY <1>3, <1>6
      <4>3. Len(connects') <= Len(sent) /\ \A i \in 1..Len(connects') : connects'[i] = sent[i].op
        BY <3>4, <4>1, <4>2
      <4>. QED
        BY <1>2, <3>4, <4>3, NamesPrefix
    <3>7. SubSeq(buff, 3, Len(buff)) = SubSeq(Arrived, 2 * (k + 1) + 1, n)
      <4>. DEFINE a == SubSeq(buff, 3, Len(buff))
                  l == 2 * (k + 1) + 1
                  b == SubSeq(Arrived, l, n)
      <4>1. /\ Len(buff) \in Int /\ 3 \in Int /\ l \in Int /\ n \in Int
            /\ \A i \in 3..Len(buff) : buff[i] \in Pieces
            /\ \A i \in l..n : Arrived[i] \in Pieces
        BY <1>1, <1>3, <1>6, <1>8, ElementOfSeq
      <4>2. /\ a \in Seq(Pieces) /\ Len(a) = IF 3 <= Len(buff) THEN Len(buff) - 3 + 1 ELSE 0
            /\ \A i \in 1..(Len(buff) - 3 + 1) : a[i] = buff[3 + i - 1]
        BY <4>1, SubSeqProperties
      <4>3. /\ b \in Seq(Pieces) /\ Len(b) = IF l <= n THEN n - l + 1 ELSE 0
            /\ \A i \in 1..(n - l + 1) : b[i] = Arrived[l + i - 1]
        <5>. HIDE DEF l
        <5>. QED
          BY <4>1, SubSeqProperties
      <4>. HIDE DEF a, b
      <4>4. Len(a) = n - 2 * k - 2 /\ Len(b) = n - 2 * k - 2
        BY <1>6, <1>8, <3>1, <4>2, <4>3
      <4>5. ASSUME NEW i \in 1..(n - 2 * k - 2) PROVE a[i] = b[i]
        <5>1. a[i] = buff[i + 2]
          BY <1>6, <1>8, <4>2
        <5>2. i + 2 \in 1..(n - 2 * k) /\ 2 * k + (i + 2) = l + i - 1 /\ i \in 1..(n - l + 1)
          BY <1>6
        <5>. QED
          BY <1>8, <4>3, <5>1, <5>2
      <4>6. a = b
        BY <4>2, <4>3, <4>4, <4>5, SeqEqual
      <4>. QED
        BY <4>6 DEF a, b, l
    <3>8. OpsOf(sent)' = OpsOf(sent)
      BY <1>1 DEF OpsOf
    <3>9. recvBuff' = SubSeq(Arrived', 2 * Len(connects') + 1, received')
      BY <1>1, <1>5, <3>3, <3>4, <3>7
    <3>. QED
      BY <3>5, <3>6, <3>8, <3>9, <1>1 DEF PeerHearsInOrder
  <2>. QED
    BY <2>1, <2>2
<1>11. TypeOK'
  BY <1>1, <1>3, <1>5, <1>6 DEF IInv, TypeOK
<1>. QED
  BY <1>1, <1>10, <1>11, NodeKeeps DEF IInv

LEMMA PeerClosesIInv ==
  ASSUME IInv, PeerCloses
  PROVE  IInv'
<1>1. /\ UNCHANGED <<op, taskQue, armed, jobs, worker, item, status, sendBuff, handled,
                     sentLen, sent, alive, overlaps, received, connects>>
      /\ hears' = FALSE
  BY DEF PeerCloses
<1>2. Arrived' = Arrived /\ OpsOf(sent)' = OpsOf(sent)
  BY <1>1, NodeKeeps DEF OpsOf
<1>3. TypeOK' /\ Heard' /\ PeerHearsInOrder'
  BY <1>1, <1>2 DEF IInv, TypeOK, Heard, PeerHearsInOrder
<1>. QED
  BY <1>1, <1>3, NodeKeeps DEF IInv

-----------------------------------------------------------------------------
(* The invariant.                                                          *)

LEMMA InitIInv == Init => IInv
<1>. SUFFICES ASSUME Init PROVE IInv
  OBVIOUS
<1>1. /\ sent = <<>> /\ sendBuff = <<>> /\ connects = <<>> /\ recvBuff = <<>>
      /\ received = 0 /\ handled = 0 /\ jobs = 0 /\ overlaps = 0
      /\ alive = TRUE /\ status = "init" /\ hears = TRUE
      /\ worker = [w \in Workers |-> "idle"] /\ item = [w \in Workers |-> Introduction]
      /\ op = [o \in Operations |-> "new"] /\ sentLen = [w \in Workers |-> 0]
  BY DEF Init
<1>2. Introduction \in Tasks /\ Introduction.op = "introduction"
  BY DEF Introduction, Tasks
<1>3. /\ taskQue \in Seq(Tasks) /\ Len(taskQue) \in 0..1
      /\ \A i \in 1..Len(taskQue) : i = 1 /\ taskQue[i].op = "introduction"
      /\ \/ taskQue = <<Introduction>> /\ armed = "out"
         \/ taskQue = <<>> /\ armed = "none"
  <2>0. /\ <<Introduction>> \in Seq(Tasks) /\ Len(<<Introduction>>) = 1
        /\ <<Introduction>>[1] = Introduction
    BY <1>2
  <2>1. CASE taskQue = <<Introduction>> /\ armed = "out"
    BY <1>2, <2>0, <2>1
  <2>2. CASE taskQue = <<>> /\ armed = "none"
    BY <2>2, EmptySeq
  <2>. QED
    BY <2>1, <2>2 DEF Init
<1>4. /\ sent \in Seq(Messages) /\ sendBuff \in Seq(Messages) /\ connects \in Seq(Names)
      /\ Len(sent) = 0 /\ Len(sendBuff) = 0 /\ Len(connects) = 0
  BY <1>1, EmptySeq
<1>5. Len(Arrived) = 0
  BY <1>4, ArrivedFacts
<1>6. TypeOK
  BY <1>1, <1>2, <1>3, <1>4, <1>5, PeerAssumption DEF TypeOK
<1>7. OneWorker /\ NeverHangsUp /\ Phases
  BY <1>1, <1>4 DEF OneWorker, NeverHangsUp, Phases
<1>8. FiledOnce
  <2>1. Held = {}
    BY <1>1 DEF Held
  <2>2. \A o \in Operations : o \notin Filed
    BY <1>3, NamesFacts DEF Filed
  <2>3. \A i, j \in 1..Len(taskQue) : i = j
    BY <1>3
  <2>4. \A v \in Workers : worker[v] # "popped"
    BY <1>1
  <2>. QED
    BY <2>1, <2>2, <2>3, <2>4 DEF FiledOnce
<1>9. Enough
  <2>1. Queued = {} /\ Cardinality({}) = 0
    BY <1>1, FS_EmptySet DEF Queued
  <2>2. Served = 0 /\ Unfinished = 0
    BY <1>1 DEF Served, Unfinished
  <2>3. Armed <= Len(taskQue)
    <3>1. CASE taskQue = <<Introduction>> /\ armed = "out"
      BY <3>1 DEF Armed
    <3>2. CASE taskQue = <<>> /\ armed = "none"
      BY <3>2 DEF Armed
    <3>. QED
      BY <1>3, <3>1, <3>2
  <2>. QED
    BY <1>1, <1>6, <2>1, <2>2, <2>3, Numbers DEF Enough
<1>10. Heard
  BY <1>1, <1>4 DEF Heard
<1>11. PeerHearsInOrder
  <2>1. SubSeq(Arrived, 2 * Len(connects) + 1, received) = <<>>
    <3>1. 2 * Len(connects) + 1 = 1 /\ received = 0
      BY <1>1, <1>4
    <3>2. SubSeq(Arrived, 1, 0) = <<>>
      BY SubSeqEmpty
    <3>. QED
      BY <3>1, <3>2
  <2>2. IsPrefix(connects, OpsOf(sent))
    <3>1. Len(connects) <= Len(sent) /\ \A i \in 1..Len(connects) : connects[i] = sent[i].op
      BY <1>4
    <3>. QED
      BY <1>4, <3>1, NamesPrefix
  <2>. QED
    BY <1>1, <2>1, <2>2 DEF PeerHearsInOrder
<1>. QED
  BY <1>6, <1>7, <1>8, <1>9, <1>10, <1>11 DEF IInv

LEMMA NextIInv == IInv /\ [Next]_vars => IInv'
<1>. SUFFICES ASSUME IInv, [Next]_vars PROVE IInv'
  OBVIOUS
<1>1. ASSUME NEW o \in Operations, AddTask(o) \/ ModFdOut(o) PROVE IInv'
  BY <1>1, AddTaskIInv, ModFdOutIInv
<1>2. ASSUME NEW w \in Workers, Serve(w) PROVE IInv'
  BY <1>2, TakeIInv, PopIInv, ReadyIInv, WriteIInv, AccountIInv, RearmIInv, DealCloseIInv DEF Serve
<1>3. ASSUME PeerReceives PROVE IInv'
  BY <1>3, PeerReadsIInv DEF PeerReceives
<1>4. CASE UNCHANGED vars
  <2>1. Heard' /\ PeerHearsInOrder' /\ Arrived' = Arrived
    BY <1>4, NodeKeeps, PeerKeeps DEF vars, IInv
  <2>. QED
    BY <1>4, <2>1, NodeKeeps DEF vars, peer, IInv, TypeOK
<1>. QED
  BY <1>1, <1>2, <1>3, <1>4, DispatchIInv, PeerClosesIInv DEF Next

LEMMA Invariance == Spec => []IInv
<1>. QED
  BY InitIInv, NextIInv, PTL DEF Spec

-----------------------------------------------------------------------------
(* What it says.                                                           *)

(* A worker on its way to the queue is served a job, and its status wants  *)
(* a task for it.                                                          *)
LEMMA TakenFindsTask == IInv => NeverPopsEmpty
<1>. SUFFICES ASSUME IInv, NEW w \in Workers, alone, worker[w] = "taken"
              PROVE  taskQue # <<>>
  BY DEF NeverPopsEmpty
<1>1. Served = 1 /\ Unfinished = 0
  BY DEF Served, Unfinished, IInv, Phases
<1>2. Len(taskQue) >= 1
  BY <1>1, Numbers DEF IInv, Enough
<1>. QED
  BY <1>2

(* A set without two elements has one at most.                             *)
LEMMA AtMostOne ==
  ASSUME NEW S, \A x, y \in S : x = y
  PROVE  Cardinality(S) <= 1
<1>1. CASE S = {}
  BY <1>1, FS_EmptySet
<1>2. CASE S # {}
  <2>1. PICK x \in S : S = {x}
    BY <1>2
  <2>. QED
    BY <2>1, FS_Singleton
<1>. QED
  BY <1>1, <1>2

(* What is filed once is in one place.                                     *)
LEMMA FiledInOnePlace == IInv => HandedOutOnce
<1>. SUFFICES ASSUME IInv, NEW o \in Operations PROVE Cardinality(Places(o)) <= 1
  BY DEF HandedOutOnce
<1>1. DOMAIN taskQue = 1..Len(taskQue)
  BY LenProperties DEF IInv, TypeOK
<1>2. ASSUME NEW x \in Places(o), NEW y \in Places(o) PROVE x = y
  <2>. DEFINE Q == {<<"queue", i>> : i \in {j \in DOMAIN taskQue : taskQue[j].op = o}}
              H == {<<"hands", w>> : w \in {v \in Workers : worker[v] = "popped" /\ item[v].op = o}}
  <2>1. x \in Q \cup H /\ y \in Q \cup H
    BY <1>2 DEF Places
  <2>2. CASE x \in Q /\ y \in Q
    BY <1>1, <2>2 DEF IInv, FiledOnce
  <2>3. CASE x \in H /\ y \in H
    BY <2>3 DEF IInv, FiledOnce
  <2>4. ~(Q # {} /\ H # {})
    <3>1. Q # {} => o \in Filed
      BY <1>1 DEF Filed
    <3>2. H # {} => o \in Held
      BY DEF Held
    <3>. QED
      BY <3>1, <3>2 DEF IInv, FiledOnce
  <2>. QED
    BY <2>1, <2>2, <2>3, <2>4
<1>. QED
  BY <1>2, AtMostOne

(* The channel is used soundly: a worker that goes to the queue finds a    *)
(* task, no task is handed out twice, the node does not hang up, and the   *)
(* peer takes the messages in order.                                       *)
THEOREM ChannelIsSound == Spec => []ChannelSound
<1>1. IInv => ChannelSound
  BY TakenFindsTask, FiledInOnePlace DEF IInv, ChannelSound
<1>. QED
  BY <1>1, Invariance, PTL

-----------------------------------------------------------------------------
(* The way of the messages.                                                *)

(* The names of two sequences of messages, one behind the other.           *)
LEMMA OpsOfConcat ==
  ASSUME NEW S \in {Messages, Tasks}, NEW s \in Seq(S), NEW t \in Seq(S)
  PROVE  OpsOf(s \o t) = OpsOf(s) \o OpsOf(t)
<1>. DEFINE a == OpsOf(s)
            b == OpsOf(t)
            c == OpsOf(s \o t)
<1>1. /\ s \o t \in Seq(S) /\ Len(s \o t) = Len(s) + Len(t)
      /\ \A i \in 1..Len(s) + Len(t) : (s \o t)[i] = IF i <= Len(s) THEN s[i] ELSE t[i - Len(s)]
      /\ Len(s) \in Nat /\ Len(t) \in Nat
  BY ConcatProperties, LenProperties
<1>2. a \in Seq(Names) /\ Len(a) = Len(s) /\ \A i \in 1..Len(s) : a[i] = s[i].op
  BY OpsOfFacts
<1>3. b \in Seq(Names) /\ Len(b) = Len(t) /\ \A i \in 1..Len(t) : b[i] = t[i].op
  BY OpsOfFacts
<1>4. /\ c \in Seq(Names) /\ Len(c) = Len(s) + Len(t)
      /\ \A i \in 1..Len(s) + Len(t) : c[i] = (s \o t)[i].op
  BY <1>1, OpsOfFacts
<1>. HIDE DEF a, b, c
<1>5. /\ a \o b \in Seq(Names) /\ Len(a \o b) = Len(s) + Len(t)
      /\ \A i \in 1..Len(s) + Len(t) : (a \o b)[i] = IF i <= Len(s) THEN a[i] ELSE b[i - Len(s)]
  <2>1. a \in Seq(Names) /\ b \in Seq(Names)
    BY <1>2, <1>3
  <2>2. /\ a \o b \in Seq(Names) /\ Len(a \o b) = Len(a) + Len(b)
        /\ \A i \in 1..Len(a) + Len(b) : (a \o b)[i] = IF i <= Len(a) THEN a[i] ELSE b[i - Len(a)]
    BY <2>1, ConcatProperties
  <2>3. Len(a) = Len(s) /\ Len(b) = Len(t)
    BY <1>2, <1>3
  <2>. QED
    BY <2>2, <2>3
<1>6. ASSUME NEW i \in 1..Len(s) + Len(t) PROVE c[i] = (a \o b)[i]
  <2>1. CASE i <= Len(s)
    <3>1. i \in 1..Len(s)
      BY <1>1, <2>1
    <3>. QED
      BY <1>1, <1>2, <1>4, <1>5, <2>1, <3>1
  <2>2. CASE ~(i <= Len(s))
    <3>1. i - Len(s) \in 1..Len(t)
      BY <1>1, <2>2
    <3>. QED
      BY <1>1, <1>3, <1>4, <1>5, <2>2, <3>1
  <2>. QED
    BY <2>1, <2>2
<1>7. c = a \o b
  BY <1>4, <1>5, <1>6, SeqEqual
<1>. QED
  BY <1>7 DEF a, b, c

(* What the only worker has in hand and leaves in the buffer.              *)
LEMMA HandFacts ==
  ASSUME NEW w \in Workers, \A v \in Workers : v # w => worker[v] = "idle"
  PROVE  /\ InHand = IF worker[w] = "popped" THEN <<item[w].op>> ELSE <<>>
         /\ InBuffer = IF worker[w] = "written" THEN <<>> ELSE NotHandled
<1>. DEFINE popped == {v \in Workers : worker[v] = "popped"}
<1>1. popped = IF worker[w] = "popped" THEN {w} ELSE {}
  OBVIOUS
<1>2. InHand = IF popped = {} THEN <<>> ELSE <<item[CHOOSE v \in popped : TRUE].op>>
  BY DEF InHand
<1>3. (CHOOSE v \in {w} : TRUE) = w
  OBVIOUS
<1>. QED
  BY <1>1, <1>2, <1>3 DEF InBuffer

LEMMA HandFactsNext ==
  ASSUME NEW w \in Workers, \A v \in Workers : v # w => worker'[v] = "idle"
  PROVE  /\ InHand' = IF worker'[w] = "popped" THEN <<item'[w].op>> ELSE <<>>
         /\ InBuffer' = IF worker'[w] = "written" THEN <<>> ELSE NotHandled'
<1>. DEFINE popped == {v \in Workers : worker'[v] = "popped"}
<1>1. popped = IF worker'[w] = "popped" THEN {w} ELSE {}
  OBVIOUS
<1>2. InHand' = IF popped = {} THEN <<>> ELSE <<item'[CHOOSE v \in popped : TRUE].op>>
  BY DEF InHand
<1>3. (CHOOSE v \in {w} : TRUE) = w
  OBVIOUS
<1>. QED
  BY <1>1, <1>2, <1>3 DEF InBuffer

(* The parts of the pipeline are names.                                    *)
LEMMA PartsTyped ==
  ASSUME TypeOK
  PROVE  /\ OpsOf(sent) \in Seq(Names) /\ OpsOf(NotHandled) \in Seq(Names)
         /\ OpsOf(taskQue) \in Seq(Names) /\ OpsOf(<<>>) = <<>> /\ <<>> \in Seq(Names)
         /\ \A w \in Workers : <<item[w].op>> \in Seq(Names)
<1>1. /\ sent \in Seq(Messages) /\ NotHandled \in Seq(Messages) /\ taskQue \in Seq(Tasks)
  BY NotHandledFacts DEF TypeOK
<1>2. <<>> \in Seq(Messages) /\ <<>> \in Seq(Names) /\ Len(<<>>) = 0
  BY EmptySeq
<1>3. OpsOf(<<>>) = <<>>
  <2>1. OpsOf(<<>>) \in Seq(Names) /\ Len(OpsOf(<<>>)) = 0
    BY <1>2, OpsOfFacts
  <2>. QED
    BY <2>1, EmptySeq
<1>4. ASSUME NEW w \in Workers PROVE <<item[w].op>> \in Seq(Names)
  <2>1. item[w].op \in Names
    BY TaskFacts DEF TypeOK
  <2>. QED
    BY <2>1
<1>. QED
  BY <1>1, <1>2, <1>3, <1>4, OpsOfFacts

(* So is the pipeline.                                                     *)
LEMMA PipelineTyped ==
  ASSUME TypeOK
  PROVE  OpsOf(sent) \o OpsOf(InBuffer) \o InHand \in Seq(Names) /\ Pipeline \in Seq(Names)
<1>1. InBuffer = <<>> \/ InBuffer = NotHandled
  BY DEF InBuffer
<1>2. OpsOf(InBuffer) \in Seq(Names)
  BY <1>1, PartsTyped
<1>3. InHand = <<>> \/ \E w \in Workers : InHand = <<item[w].op>>
  BY DEF InHand
<1>4. InHand \in Seq(Names)
  BY <1>3, PartsTyped
<1>5. OpsOf(sent) \o OpsOf(InBuffer) \in Seq(Names)
  BY <1>2, PartsTyped, ConcatProperties
<1>6. OpsOf(sent) \o OpsOf(InBuffer) \o InHand \in Seq(Names)
  BY <1>4, <1>5, ConcatProperties
<1>. QED
  BY <1>6, PartsTyped, ConcatProperties DEF Pipeline

(* The head of a queue and what follows it.                                *)
LEMMA HeadOntoTail ==
  ASSUME NEW S, NEW s \in Seq(S), s # <<>>, <<Head(s)>> \in Seq(S)
  PROVE  s = <<Head(s)>> \o Tail(s)
<1>1. /\ Tail(s) \in Seq(S) /\ Len(Tail(s)) = Len(s) - 1 /\ Len(s) \in Nat \ {0}
      /\ \A i \in 1..Len(Tail(s)) : Tail(s)[i] = s[i + 1]
  BY HeadTailProperties, EmptySeq
<1>2. Len(<<Head(s)>>) = 1 /\ <<Head(s)>>[1] = s[1]
  BY <1>1
<1>3. /\ <<Head(s)>> \o Tail(s) \in Seq(S) /\ Len(<<Head(s)>> \o Tail(s)) = Len(s)
      /\ \A i \in 1..Len(s) : (<<Head(s)>> \o Tail(s))[i] =
           IF i <= 1 THEN <<Head(s)>>[i] ELSE Tail(s)[i - 1]
  BY <1>1, <1>2, ConcatProperties
<1>4. ASSUME NEW i \in 1..Len(s) PROVE s[i] = (<<Head(s)>> \o Tail(s))[i]
  <2>1. CASE i = 1
    BY <1>1, <1>2, <1>3, <2>1
  <2>2. CASE i # 1
    <3>1. i - 1 \in 1..Len(Tail(s)) /\ (i - 1) + 1 = i /\ ~(i <= 1)
      BY <1>1, <2>2
    <3>. QED
      BY <1>1, <1>3, <3>1
  <2>. QED
    BY <2>1, <2>2
<1>. QED
  BY <1>3, <1>4, SeqEqual

(* A part of one element.                                                  *)
LEMMA OnePart ==
  ASSUME NEW S, NEW s \in Seq(S), NEW n \in Nat, n + 1 = Len(s)
  PROVE  SubSeq(s, n + 1, n + 1) = <<s[n + 1]>>
<1>1. \A i \in (n + 1)..(n + 1) : s[i] \in S
  BY ElementOfSeq
<1>2. /\ SubSeq(s, n + 1, n + 1) \in Seq(S)
      /\ Len(SubSeq(s, n + 1, n + 1)) = IF n + 1 <= n + 1 THEN (n + 1) - (n + 1) + 1 ELSE 0
      /\ \A i \in 1..((n + 1) - (n + 1) + 1) : SubSeq(s, n + 1, n + 1)[i] = s[(n + 1) + i - 1]
  <2>1. n + 1 \in Int
    OBVIOUS
  <2>. QED
    BY <1>1, <2>1, SubSeqProperties
<1>3. Len(SubSeq(s, n + 1, n + 1)) = 1 /\ SubSeq(s, n + 1, n + 1)[1] = s[n + 1]
  BY <1>2
<1>4. <<s[n + 1]>> \in Seq(S) /\ Len(<<s[n + 1]>>) = 1 /\ <<s[n + 1]>>[1] = s[n + 1]
  BY <1>1
<1>5. \A i \in 1..1 : SubSeq(s, n + 1, n + 1)[i] = <<s[n + 1]>>[i]
  BY <1>3, <1>4
<1>. DEFINE a == SubSeq(s, n + 1, n + 1)
            b == <<s[n + 1]>>
<1>6. a \in Seq(S) /\ b \in Seq(S) /\ Len(a) = 1 /\ Len(b) = 1 /\ \A i \in 1..1 : a[i] = b[i]
  BY <1>2, <1>3, <1>4, <1>5
<1>. HIDE DEF a, b
<1>7. a = b
  BY <1>6, SeqEqual
<1>. QED
  BY <1>7 DEF a, b

(* A message handed on is in the pipeline as before.                       *)
LEMMA HandedOn ==
  ASSUME NEW a \in Seq(Names), NEW b \in Seq(Names), NEW c \in Seq(Names)
  PROVE  /\ a \o <<>> \o (b \o c) = a \o b \o c
         /\ a \o <<>> \o b \o c = a \o b \o <<>> \o c
         /\ (a \o b) \o <<>> \o <<>> \o c = a \o b \o <<>> \o c
<1>1. a \o <<>> = a /\ a \o b \in Seq(Names) /\ (a \o b) \o <<>> = a \o b
  BY ConcatEmptySeq, ConcatProperties
<1>2. a \o (b \o c) = (a \o b) \o c
  BY ConcatAssociative
<1>. QED
  BY <1>1, <1>2

(* A step of a worker while workers come one at a time finds and leaves    *)
(* the others idle.                                                        *)
LEMMA OthersIdle ==
  ASSUME IInv, IInv', NEW w \in Workers, Serve(w), alone'
  PROVE  alone /\ \A v \in Workers : v # w => worker[v] = "idle" /\ worker'[v] = "idle"
<1>1. CASE Take(w)
  <2>1. alone /\ \A v \in Workers : worker[v] = "idle"
    BY <1>1, PeerAssumption DEF Take, alone, IInv, TypeOK
  <2>2. \A v \in Workers : v # w => worker'[v] = worker[v]
    BY <1>1 DEF Take, IInv, TypeOK
  <2>. QED
    BY <2>1, <2>2
<1>2. CASE ~Take(w)
  <2>1. PICK s : worker' = [worker EXCEPT ![w] = s] /\ overlaps' = overlaps /\ worker[w] # "idle"
    <3>1. CASE Pop(w)
      BY <3>1 DEF Pop
    <3>2. CASE Ready(w)
      BY <3>2 DEF Ready
    <3>3. CASE Write(w)
      BY <3>3 DEF Write, WriteNothing, WriteAll
    <3>4. CASE Account(w)
      BY <3>4 DEF Account
    <3>5. CASE Rearm(w)
      BY <3>5 DEF Rearm
    <3>6. CASE DealClose(w)
      BY <3>6 DEF DealClose
    <3>. QED
      BY <1>2, <3>1, <3>2, <3>3, <3>4, <3>5, <3>6 DEF Serve
  <2>2. alone
    BY <2>1 DEF alone
  <2>. QED
    BY <2>1, <2>2, OnlyWorker DEF IInv
<1>. QED
  BY <1>1, <1>2

(* What is queued comes last, and all else is handed on.                   *)
LEMMA PipelineStep ==
  ASSUME IInv, IInv', Next, alone'
  PROVE  Pipeline' = Pipeline \/ \E o \in Operations : Pipeline' = Pipeline \o <<o>>
<1>. DEFINE A == OpsOf(sent)
            U == OpsOf(NotHandled)
            D == OpsOf(taskQue)
<1>1. /\ A \in Seq(Names) /\ U \in Seq(Names) /\ D \in Seq(Names) /\ OpsOf(<<>>) = <<>>
      /\ <<>> \in Seq(Names) /\ \A w \in Workers : <<item[w].op>> \in Seq(Names)
  BY PartsTyped DEF IInv
<1>2. /\ sent \in Seq(Messages) /\ sendBuff \in Seq(Messages) /\ taskQue \in Seq(Tasks)
      /\ NotHandled \in Seq(Messages) /\ Len(sendBuff) \in Nat /\ handled \in Nat
  BY NotHandledFacts, LenProperties DEF IInv, TypeOK
<1>3. ASSUME NEW o \in Operations, AddTask(o) PROVE Pipeline' = Pipeline \o <<o>>
  <2>1. /\ A' = A /\ InBuffer' = InBuffer /\ InHand' = InHand
        /\ taskQue' = Append(taskQue, SynTask(o))
    BY <1>3 DEF AddTask, FilesTask, InBuffer, InHand, NotHandled, OpsOf
  <2>2. SynTask(o) \in Tasks /\ SynTask(o).op = o
    BY DEF SynTask, Tasks
  <2>3. D' = D \o <<o>>
    <3>1. <<SynTask(o)>> \in Seq(Tasks) /\ OpsOf(<<SynTask(o)>>) = <<o>>
      BY <2>2 DEF OpsOf
    <3>2. taskQue' = taskQue \o <<SynTask(o)>>
      BY <1>2, <2>1, <2>2, AppendIsConcat
    <3>3. OpsOf(taskQue') = D \o <<o>>
      BY <1>2, <3>1, <3>2, OpsOfConcat
    <3>. QED
      BY <3>3 DEF OpsOf
  <2>. DEFINE P == A \o OpsOf(InBuffer) \o InHand
  <2>4. P \in Seq(Names) /\ <<o>> \in Seq(Names)
    <3>1. o \in Names
      BY DEF Names
    <3>. QED
      BY <3>1, PipelineTyped DEF IInv
  <2>5. Pipeline = P \o D /\ Pipeline' = P \o (D \o <<o>>)
    BY <2>1, <2>3 DEF Pipeline, OpsOf
  <2>. HIDE DEF P, D
  <2>. QED
    BY <1>1, <2>4, <2>5, ConcatAssociative
<1>4. ASSUME NEW w \in Workers, Serve(w) PROVE Pipeline' = Pipeline
  <2>1. alone /\ \A v \in Workers : v # w => worker[v] = "idle" /\ worker'[v] = "idle"
    BY <1>4, OthersIdle
  <2>2. /\ InHand = IF worker[w] = "popped" THEN <<item[w].op>> ELSE <<>>
        /\ InBuffer = IF worker[w] = "written" THEN <<>> ELSE NotHandled
    BY <2>1, HandFacts
  <2>3. /\ InHand' = IF worker'[w] = "popped" THEN <<item'[w].op>> ELSE <<>>
        /\ InBuffer' = IF worker'[w] = "written" THEN <<>> ELSE NotHandled'
    BY <2>1, HandFactsNext
  <2>4. worker \in [Workers -> WorkerStates] /\ item \in [Workers -> Tasks]
    BY DEF IInv, TypeOK, WorkerStates
  <2>5. CASE Take(w) \/ Rearm(w) \/ DealClose(w)
    <3>1. /\ UNCHANGED <<item, sendBuff, handled, sent, taskQue>>
          /\ worker[w] \notin {"popped", "written"} /\ worker'[w] \notin {"popped", "written"}
      BY <2>4, <2>5 DEF Take, Rearm, DealClose
    <3>2. NotHandled' = NotHandled
      BY <3>1 DEF NotHandled
    <3>. QED
      BY <2>2, <2>3, <3>1, <3>2 DEF Pipeline, OpsOf
  <2>6. CASE Pop(w)
    <3>1. /\ worker[w] = "taken" /\ worker'[w] = "popped" /\ taskQue # <<>>
          /\ item'[w] = Head(taskQue) /\ taskQue' = Tail(taskQue)
          /\ UNCHANGED <<sendBuff, handled, sent>>
      BY <2>4, <2>6 DEF Pop, QueuePopped
    <3>2. NotHandled' = NotHandled
      BY <3>1 DEF NotHandled
    <3>3. InHand = <<>> /\ InBuffer = NotHandled /\ InHand' = <<Head(taskQue).op>> /\ InBuffer' = NotHandled
      BY <2>2, <2>3, <3>1, <3>2
    <3>4. Head(taskQue) \in Tasks /\ Tail(taskQue) \in Seq(Tasks)
      BY <1>2, <3>1, HeadTailProperties
    <3>5. D = <<Head(taskQue).op>> \o OpsOf(Tail(taskQue))
      <4>1. <<Head(taskQue)>> \in Seq(Tasks)
        BY <3>4
      <4>2. taskQue = <<Head(taskQue)>> \o Tail(taskQue)
        BY <1>2, <3>1, <3>4, <4>1, HeadOntoTail
      <4>3. OpsOf(<<Head(taskQue)>>) = <<Head(taskQue).op>>
        BY DEF OpsOf
      <4>. QED
        BY <3>4, <4>1, <4>2, <4>3, OpsOfConcat
    <3>6. <<Head(taskQue).op>> \in Seq(Names) /\ OpsOf(Tail(taskQue)) \in Seq(Names)
      <4>1. Head(taskQue).op \in Names
        BY <3>4, TaskFacts
      <4>2. OpsOf(Tail(taskQue)) \in Seq(Names)
        BY <3>4, OpsOfFacts
      <4>. QED
        BY <4>1, <4>2
    <3>. DEFINE h == <<Head(taskQue).op>>
                r == OpsOf(Tail(taskQue))
    <3>7. Pipeline = A \o U \o <<>> \o (h \o r)
      BY <3>3, <3>5 DEF Pipeline
    <3>8. Pipeline' = A \o U \o h \o r
      BY <3>1, <3>3 DEF Pipeline, OpsOf
    <3>9. A \o U \in Seq(Names)
      BY <1>1, ConcatProperties
    <3>. HIDE DEF A, U, D, h, r
    <3>10. h \in Seq(Names) /\ r \in Seq(Names)
      BY <3>6 DEF h, r
    <3>. QED
      BY <3>7, <3>8, <3>9, <3>10, HandedOn
  <2>7. CASE Ready(w)
    <3>. DEFINE m == MessageOf(item[w])
    <3>1. /\ worker[w] = "popped" /\ worker'[w] = "write" /\ sendBuff' = Append(sendBuff, m)
          /\ UNCHANGED <<handled, sent, taskQue, item>>
      BY <2>4, <2>7 DEF Ready
    <3>2. m \in Messages /\ m.op = item[w].op /\ item[w].op \in Names
      BY <2>4, TaskFacts
    <3>3. handled = Len(sendBuff)
      BY <1>2, <2>1, <3>1 DEF IInv, Phases
    <3>4. NotHandled = <<>>
      BY <1>2, <3>3, SubSeqEmpty DEF NotHandled
    <3>5. NotHandled' = <<m>>
      <4>. HIDE DEF m
      <4>1. /\ sendBuff' \in Seq(Messages) /\ Len(sendBuff') = Len(sendBuff) + 1
            /\ sendBuff'[Len(sendBuff) + 1] = m
        BY <1>2, <3>1, <3>2, AppendProperties
      <4>2. NotHandled' = SubSeq(sendBuff', Len(sendBuff) + 1, Len(sendBuff) + 1)
        BY <3>1, <3>3, <4>1 DEF NotHandled
      <4>. QED
        BY <1>2, <3>2, <4>1, <4>2, OnePart
    <3>6. OpsOf(NotHandled') = <<item[w].op>>
      BY <3>2, <3>5 DEF OpsOf
    <3>7. Pipeline = A \o <<>> \o <<item[w].op>> \o D
      BY <1>1, <2>2, <3>1, <3>4 DEF Pipeline
    <3>8. Pipeline' = A \o <<item[w].op>> \o <<>> \o D
      BY <2>3, <3>1, <3>6 DEF Pipeline, OpsOf
    <3>9. <<item[w].op>> \in Seq(Names)
      BY <1>1
    <3>. HIDE DEF A, D
    <3>. QED
      BY <1>1, <3>7, <3>8, <3>9, HandedOn
  <2>8. CASE Write(w)
    <3>1. /\ worker[w] = "write" /\ UNCHANGED <<item, sendBuff, handled, taskQue>>
          /\ \/ worker'[w] \in {"ret1", "ret2"} /\ sent' = sent
             \/ worker'[w] = "written" /\ sent' = sent \o NotHandled
      BY <2>4, <2>8 DEF Write, WriteNothing, WriteAll
    <3>2. NotHandled' = NotHandled
      BY <3>1 DEF NotHandled
    <3>3. Pipeline = A \o U \o <<>> \o D
      BY <2>2, <3>1 DEF Pipeline
    <3>4. CASE worker'[w] \in {"ret1", "ret2"} /\ sent' = sent
      BY <2>3, <3>1, <3>2, <3>3, <3>4 DEF Pipeline, OpsOf
    <3>5. CASE worker'[w] = "written" /\ sent' = sent \o NotHandled
      <4>1. OpsOf(sent') = A \o U
        BY <1>2, <3>5, OpsOfConcat
      <4>2. Pipeline' = (A \o U) \o <<>> \o <<>> \o D
        BY <1>1, <2>3, <3>1, <3>5, <4>1 DEF Pipeline, OpsOf
      <4>. HIDE DEF A, U, D
      <4>. QED
        BY <1>1, <3>3, <4>2, HandedOn
    <3>. QED
      BY <3>1, <3>4, <3>5
  <2>9. CASE Account(w)
    <3>1. /\ worker[w] = "written" /\ worker'[w] \in {"ret0", "ret1"}
          /\ UNCHANGED <<item, sendBuff, sent, taskQue>> /\ handled' = handled + sentLen[w]
      BY <2>4, <2>9 DEF Account, HandledAfter
    <3>2. sentLen[w] = Len(sendBuff) - handled
      BY <2>1, <3>1 DEF IInv, Phases
    <3>3. NotHandled' = <<>>
      <4>1. handled' = Len(sendBuff)
        BY <1>2, <3>1, <3>2
      <4>. QED
        BY <1>2, <3>1, <4>1, SubSeqEmpty DEF NotHandled
    <3>. QED
      BY <2>2, <2>3, <3>1, <3>3 DEF Pipeline, OpsOf
  <2>. QED
    BY <1>4, <2>5, <2>6, <2>7, <2>8, <2>9 DEF Serve
<1>5. ASSUME UNCHANGED <<taskQue, worker, item, sendBuff, handled, sent>> PROVE Pipeline' = Pipeline
  BY <1>5 DEF Pipeline, OpsOf, InHand, InBuffer, NotHandled
<1>6. (\E o \in Operations : ModFdOut(o)) \/ Dispatch \/ PeerReceives \/ PeerCloses
      => UNCHANGED <<taskQue, worker, item, sendBuff, handled, sent>>
  BY DEF ModFdOut, Dispatch, PeerReceives, PeerReads, PeerCloses
<1>. QED
  BY <1>3, <1>4, <1>5, <1>6 DEF Next

(* What was queued goes out once and in the order it was queued: along the *)
(* way from the queue to the peer, entries are only ever added at the end. *)
THEOREM PipelineGrows == Spec => PipelineOnlyGrows
<1>. DEFINE P == Pipeline
            Grows == alone' => Len(P') >= Len(P) /\ SubSeq(P', 1, Len(P)) = P
<1>1. ASSUME IInv, IInv', [Next]_vars PROVE Grows
  <2>. SUFFICES ASSUME alone' PROVE Len(P') >= Len(P) /\ SubSeq(P', 1, Len(P)) = P
    OBVIOUS
  <2>1. P \in Seq(Names)
    BY <1>1, PipelineTyped DEF IInv
  <2>2. P' = P \/ \E o \in Operations : P' = P \o <<o>>
    <3>1. CASE UNCHANGED vars
      BY <3>1 DEF vars, Pipeline, OpsOf, InHand, InBuffer, NotHandled
    <3>2. CASE Next
      BY <1>1, <3>2, PipelineStep
    <3>. QED
      BY <1>1, <3>1, <3>2
  <2>. HIDE DEF P
  <2>3. CASE P' = P
    BY <2>1, <2>3, SubSeqFull, LenProperties
  <2>4. ASSUME NEW o \in Operations, P' = P \o <<o>>
        PROVE  Len(P') >= Len(P) /\ SubSeq(P', 1, Len(P)) = P
    <3>1. <<o>> \in Seq(Names) /\ Len(<<o>>) = 1
      BY DEF Names
    <3>2. Len(P) \in Nat /\ Len(P \o <<o>>) = Len(P) + 1
      BY <2>1, <3>1, ConcatProperties, LenProperties
    <3>3. SubSeq(P \o <<o>>, 1, Len(P)) = P
      <4>1. CASE Len(P) = 0
        <5>1. P = <<>>
          BY <2>1, <4>1, EmptySeq
        <5>2. SubSeq(P \o <<o>>, 1, 0) = <<>>
          BY SubSeqEmpty
        <5>. QED
          BY <4>1, <5>1, <5>2
      <4>2. CASE Len(P) # 0
        <5>1. 1 \in 1..Len(P) /\ Len(P) \in 1..Len(P)
          BY <3>2, <4>2
        <5>2. SubSeq(P \o <<o>>, 1, Len(P)) = SubSeq(P, 1, Len(P))
          BY <2>1, <3>1, <5>1, SubSeqOfConcat1
        <5>. QED
          BY <2>1, <5>2, SubSeqFull
      <4>. QED
        BY <4>1, <4>2
    <3>. QED
      BY <2>4, <3>2, <3>3
  <2>. QED
    BY <2>2, <2>3, <2>4
<1>2. IInv /\ IInv' /\ [Next]_vars => [Grows]_vars
  BY <1>1
<1>. QED
  BY <1>2, Invariance, PTL DEF Spec, PipelineOnlyGrows
=============================================================================
