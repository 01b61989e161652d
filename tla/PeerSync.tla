------------------------------ MODULE PeerSync ------------------------------
(***************************************************************************)
(* The channel over which a storage node tells one peer of its group about *)
(* file operations: a StorageNode with its task queue (storage/src/message *)
(* /node/storagenode.cpp), filled by HttpConn::UpdateLog_ and drained by   *)
(* the workers that StorageServer::StartUp dispatches when epoll finds the *)
(* socket writable.  The registration is one-shot: an event disarms it,    *)
(* and whoever calls modFd arms it for what he asks, no matter what it was *)
(* armed for before.  Buffer's positions are atomics, so workers that write  *)
(* at once are modelled by the order of their system calls and updates; a  *)
(* reallocation of the buffer under a concurrent write is left out.        *)
(*                                                                         *)
(* At the other end a TaskNode (tasknode.cpp) reads what has arrived, cut  *)
(* anywhere, one message for each event, and connects back for a "NEW".    *)
(***************************************************************************)
EXTENDS Naturals, FiniteSets, Sequences, SequencesExt

CONSTANTS
  Workers,      \* workers of the pool that may serve the peer's events
  Operations,   \* uploads and deletes of clients, each handled by its thread
  MaxOverlaps   \* bound: workers that begin while another serves the peer

ASSUME PeerAssumption ==
  /\ IsFiniteSet(Workers) /\ IsFiniteSet(Operations)
  /\ {"introduction", "CRLF"} \cap Operations = {}
  /\ MaxOverlaps \in Nat

(* The first task of a channel this node opened (DealTranew_) introduces   *)
(* it to the peer; one that answers a peer's NEW (DealNEW_) has none.      *)
Introduction == [type |-> "NEW", op |-> "introduction"]

VARIABLES
  op,           \* per operation: new, queued (AddTask done), armed (modFd done)
  taskQue,      \* StorageNode::taskQue_
  armed,        \* what the registration waits for: none, in, out
  jobs,         \* OnWrite_ jobs in the pool's queue
  worker,       \* per worker: idle, taken, popped, write, or OnWrite_'s ret
  item,         \* per worker: the task it popped
  status,       \* BaseNode::status: init, head
  sendBuff,     \* messages appended to the buffer (up to RPos_)
  handled,      \* messages before LPos_
  sentLen,      \* per worker: what its write returned
  sent,         \* messages the peer received
  alive,        \* the node has not been deleted
  overlaps,     \* times a worker served the peer while another did
  received,     \* pieces of messages that the peer has read
  recvBuff,     \* those in its buffer
  connects,     \* the messages for which it connected back, or tried to
  hears         \* the peer's TaskNode has not been deleted

peer == <<received, recvBuff, connects, hears>>
vars == <<op, taskQue, armed, jobs, worker, item, status, sendBuff, handled,
          sentLen, sent, alive, overlaps, peer>>

Tasks == [type : {"NEW"}, op : Operations \cup {"introduction"}]
CRLF == "CRLF"
Messages == [verb : {"NEW", "UPL or DEL"}, op : Operations \cup {"introduction"}]

(* DealTranew_ connected, queued the introduction and armed the socket, or *)
(* DealNEW_ connected and did no more.                                     *)
Init ==
  /\ op = [o \in Operations |-> "new"]
  /\ \/ taskQue = <<Introduction>> /\ armed = "out"
     \/ taskQue = <<>> /\ armed = "none"
  /\ jobs = 0
  /\ worker = [w \in Workers |-> "idle"]
  /\ item = [w \in Workers |-> Introduction]
  /\ status = "init" /\ sendBuff = <<>> /\ handled = 0
  /\ sentLen = [w \in Workers |-> 0] /\ sent = <<>>
  /\ alive = TRUE /\ overlaps = 0
  /\ received = 0 /\ recvBuff = <<>> /\ connects = <<>>
  /\ hears = TRUE

-----------------------------------------------------------------------------
(* HttpConn::UpdateLog_: AddTask under the queue's mutex, then modFd.      *)

(* AddTask(const synPack &) files the task as NEW.                         *)
SynTask(o) == [type |-> "NEW", op |-> o]

ArmsTooEarly(o) == taskQue' = Append(taskQue, SynTask(o)) /\ armed' = "out"
FilesTask(o) == taskQue' = Append(taskQue, SynTask(o)) /\ UNCHANGED armed

AddTask(o) ==
  /\ alive /\ op[o] = "new"
  /\ op' = [op EXCEPT ![o] = "queued"]
  /\ FilesTask(o)
  /\ UNCHANGED <<jobs, worker, item, status, sendBuff, handled, sentLen, sent, alive, overlaps, peer>>

ModFdOut(o) ==
  /\ alive /\ op[o] = "queued"
  /\ op' = [op EXCEPT ![o] = "armed"]
  /\ armed' = "out"
  /\ UNCHANGED <<taskQue, jobs, worker, item, status, sendBuff, handled, sentLen, sent, alive, overlaps, peer>>

-----------------------------------------------------------------------------
(* StartUp: epoll reports the socket writable and OnWrite_ is queued.      *)
Dispatch ==
  /\ alive /\ armed = "out"
  /\ armed' = "none" /\ jobs' = jobs + 1
  /\ UNCHANGED <<op, taskQue, worker, item, status, sendBuff, handled, sentLen, sent, alive, overlaps, peer>>

Take(w) ==
  /\ alive /\ worker[w] = "idle" /\ jobs > 0
  /\ jobs' = jobs - 1
  /\ worker' = [worker EXCEPT ![w] = IF status = "init" THEN "taken" ELSE "write"]
  /\ IF \A v \in Workers : worker[v] = "idle" THEN UNCHANGED overlaps
     ELSE overlaps < MaxOverlaps /\ overlaps' = overlaps + 1
  /\ UNCHANGED <<op, taskQue, armed, item, status, sendBuff, handled, sentLen, sent, alive, peer>>

(* front and pop under the queue's mutex, without a test for emptiness.    *)
QueueNotPopped == taskQue
QueuePopped == Tail(taskQue)

Pop(w) ==
  /\ alive /\ worker[w] = "taken" /\ taskQue # <<>>
  /\ item' = [item EXCEPT ![w] = Head(taskQue)]
  /\ taskQue' = QueuePopped
  /\ worker' = [worker EXCEPT ![w] = "popped"]
  /\ UNCHANGED <<op, armed, jobs, status, sendBuff, handled, sentLen, sent, alive, overlaps, peer>>

(* ReadyNEW_: the only preparation a task of this queue ever gets.         *)
MessageOf(task) == [verb |-> task.type, op |-> task.op]

Ready(w) ==
  /\ alive /\ worker[w] = "popped"
  /\ sendBuff' = Append(sendBuff, MessageOf(item[w]))
  /\ status' = "head"
  /\ worker' = [worker EXCEPT ![w] = "write"]
  /\ UNCHANGED <<op, taskQue, armed, jobs, item, handled, sentLen, sent, alive, overlaps, peer>>

(* WriteFd: with nothing to write it returns 0, with a buffer whose left    *)
(* position overtook the right one (a huge size_t) write fails: 2 follows. *)
(* Sockets to peers are never made non-blocking, so that any other write   *)
(* waits for room and hands over everything.                               *)
NotHandled == SubSeq(sendBuff, handled + 1, Len(sendBuff))

WriteNothing(w) ==
  /\ handled >= Len(sendBuff)
  /\ worker' = [worker EXCEPT ![w] = "ret2"]
  /\ UNCHANGED <<sentLen, sent>>

WriteAll(w) ==
  /\ handled < Len(sendBuff)
  /\ sent' = sent \o NotHandled
  /\ sentLen' = [sentLen EXCEPT ![w] = Len(NotHandled)]
  /\ worker' = [worker EXCEPT ![w] = "written"]

Write(w) ==
  /\ alive /\ worker[w] = "write"
  /\ WriteNothing(w) \/ WriteAll(w)
  /\ UNCHANGED <<op, taskQue, armed, jobs, item, status, sendBuff, handled, alive, overlaps, peer>>

(* LPos_ moves on only after the system call, and WriteProcess looks at    *)
(* what is left: the task is complete and the node ready for the next one, *)
(* or more is to be written.                                               *)
StatusKept == status
StatusAfterSend == "init"

HandledAfter(w) == handled + sentLen[w]

Account(w) ==
  /\ alive /\ worker[w] = "written"
  /\ handled' = HandledAfter(w)
  /\ IF handled' = Len(sendBuff)
     THEN status' = StatusAfterSend /\ worker' = [worker EXCEPT ![w] = "ret0"]
     ELSE UNCHANGED status /\ worker' = [worker EXCEPT ![w] = "ret1"]
  /\ UNCHANGED <<op, taskQue, armed, jobs, item, sendBuff, sentLen, sent, alive, overlaps, peer>>

(* OnWrite_ acts on ret: wait for input, wait for room, or close.          *)
WaitsFor(ret) == IF ret = "ret0" THEN "in" ELSE "out"

Rearm(w) ==
  /\ alive /\ worker[w] \in {"ret0", "ret1"}
  /\ armed' = WaitsFor(worker[w])
  /\ worker' = [worker EXCEPT ![w] = "idle"]
  /\ UNCHANGED <<op, taskQue, jobs, item, status, sendBuff, handled, sentLen, sent, alive, overlaps, peer>>

DealClose(w) ==
  /\ alive /\ worker[w] = "ret2"
  /\ alive' = FALSE
  /\ worker' = [worker EXCEPT ![w] = "idle"]
  /\ UNCHANGED <<op, taskQue, armed, jobs, item, status, sendBuff, handled, sentLen, sent, overlaps, peer>>

-----------------------------------------------------------------------------
(* The peer's end.  A message is its text and the CRLF; TCP delivers them   *)
(* in pieces, and what a sender that has hung up sent is still read.       *)
Piece(i) == IF i % 2 = 1 THEN sent[(i + 1) \div 2].op ELSE CRLF
Arrived == [i \in 1..2 * Len(sent) |-> Piece(i)]

(* ParseHead_ takes the first line, DealNEW_ removes it from the buffer.   *)
LineEndInside(buff) ==
  IF buff = <<>> THEN 0 ELSE SelectInSeq(Front(buff), LAMBDA piece : piece = CRLF)
LineEnd(buff) == SelectInSeq(buff, LAMBDA piece : piece = CRLF)
UpToLineEnd(buff) == SubSeq(buff, LineEnd(buff), Len(buff))
AfterLine(buff) == SubSeq(buff, LineEnd(buff) + 1, Len(buff))

DealNEW(o) == connects' = Append(connects, o)

(* ReadProcess reads until a message is whole, handles it and returns, or  *)
(* until nothing is left.                                                  *)
PeerReads(n) ==
  LET buff == recvBuff \o SubSeq(Arrived, received + 1, n)
  IN  /\ hears /\ received < n /\ n <= Len(Arrived)
      /\ received' = n
      /\ IF LineEnd(buff) = 0
         THEN recvBuff' = buff /\ UNCHANGED connects
         ELSE recvBuff' = AfterLine(buff) /\ DealNEW(Head(buff))
      /\ UNCHANGED <<op, taskQue, armed, jobs, worker, item, status, sendBuff, handled, sentLen, sent, alive, overlaps, hears>>

PeerReceives == \E n \in 1..Len(Arrived) : PeerReads(n)

(* A read that returns 0 deletes the TaskNode with what its buffer holds.  *)
PeerCloses ==
  /\ hears /\ ~alive /\ received = Len(Arrived)
  /\ hears' = FALSE /\ recvBuff' = <<>>
  /\ UNCHANGED <<op, taskQue, armed, jobs, worker, item, status, sendBuff, handled, sentLen, sent, alive, overlaps, received, connects>>

-----------------------------------------------------------------------------
Serve(w) == Take(w) \/ Pop(w) \/ Ready(w) \/ Write(w) \/ Account(w)
            \/ Rearm(w) \/ DealClose(w)

Next ==
  \/ \E o \in Operations : AddTask(o) \/ ModFdOut(o)
  \/ Dispatch
  \/ \E w \in Workers : Serve(w)
  \/ PeerReceives \/ PeerCloses

Spec == Init /\ [][Next]_vars

(* The threads that handle operations, the event loop, the workers and the *)
(* peer all carry on; clients need not ask for anything.                   *)
FairSpec ==
  /\ Spec
  /\ \A o \in Operations : WF_vars(ModFdOut(o))
  /\ WF_vars(Dispatch)
  /\ \A w \in Workers : WF_vars(Serve(w))
  /\ WF_vars(PeerReceives)

-----------------------------------------------------------------------------
(* Types of the channel's fields.                                          *)
TypeOK ==
  /\ op \in [Operations -> {"new", "queued", "armed"}]
  /\ taskQue \in Seq(Tasks) /\ item \in [Workers -> Tasks]
  /\ armed \in {"none", "in", "out"} /\ jobs \in Nat
  /\ worker \in [Workers -> {"idle", "taken", "popped", "write", "written", "ret0", "ret1", "ret2"}]
  /\ status \in {"init", "head"} /\ alive \in BOOLEAN
  /\ overlaps \in 0..MaxOverlaps
  /\ handled \in Nat /\ sentLen \in [Workers -> Nat]
  /\ sendBuff \in Seq(Messages) /\ sent \in Seq(Messages)
  /\ received \in 0..Len(Arrived) /\ hears \in BOOLEAN

alone == overlaps = 0

(* A worker that goes to the queue finds a task there: front() and pop()   *)
(* are never applied to an empty queue, although nothing tests for it and  *)
(* an operation may arm the socket again while an earlier job is pending.  *)
(* This, like most of the channel, takes workers that serve the peer one   *)
(* at a time, which nothing enforces.                                      *)
NeverPopsEmpty ==
  \A w \in Workers : alone /\ alive /\ worker[w] = "taken" => taskQue # <<>>

(* The queue's mutex hands a task to one worker only: an operation is in   *)
(* the queue or in one worker's hands, never in two of these places.       *)
Places(o) ==
  {<<"queue", i>> : i \in {j \in DOMAIN taskQue : taskQue[j].op = o}}
  \cup {<<"hands", w>> : w \in {v \in Workers : worker[v] = "popped" /\ item[v].op = o}}

HandedOutOnce == \A o \in Operations : Cardinality(Places(o)) <= 1

(* The node does not hang up on its peer while it is served by one worker  *)
(* at a time: no job finds the send buffer empty, which OnWrite_ would     *)
(* take for a dead connection.                                             *)
NeverHangsUp == alone => alive

(* What was queued goes out once and in the order it was queued: along the *)
(* way from the queue through the worker's hands and the buffer to the     *)
(* peer, entries are only ever added at the end.                           *)
InHand ==
  LET popped == {w \in Workers : worker[w] = "popped"}
  IN  IF popped = {} THEN <<>> ELSE <<item[CHOOSE w \in popped : TRUE].op>>

OpsOf(messages) == [i \in 1..Len(messages) |-> messages[i].op]

InBuffer == IF \E w \in Workers : worker[w] = "written" THEN <<>> ELSE NotHandled

Pipeline == OpsOf(sent) \o OpsOf(InBuffer) \o InHand \o OpsOf(taskQue)

PipelineOnlyGrows ==
  [][alone' => /\ Len(Pipeline') >= Len(Pipeline)
               /\ SubSeq(Pipeline', 1, Len(Pipeline)) = Pipeline]_vars

(* However the stream is cut, the peer takes the messages for what they    *)
(* are, none skipped and none twice: it connects back for the first ones   *)
(* that were sent, and its buffer holds what it has read beyond them.      *)
PeerHearsInOrder ==
  /\ IsPrefix(connects, OpsOf(sent))
  /\ hears => recvBuff = SubSeq(Arrived, 2 * Len(connects) + 1, received)

(* The channel is used soundly, by any number of workers for what they     *)
(* take from the queue and for what the peer makes of it, and by workers   *)
(* that come one at a time for finding a task and something to write.      *)
ChannelSound ==
  TypeOK /\ NeverPopsEmpty /\ HandedOutOnce /\ NeverHangsUp /\ PeerHearsInOrder

(* A peer that was sent something tries to connect back, be the message    *)
(* cut and the sender gone by then.  Later messages have no such promise:  *)
(* one that arrives together with another stays in the buffer until more   *)
(* arrives, and is lost if the sender hangs up.                            *)
PeerConnectsBack == sent # <<>> ~> connects # <<>>
=============================================================================
