--------------------------- MODULE TrackerSession ---------------------------
(***************************************************************************)
(* A storage node's connections to its trackers, from Connect_ to the      *)
(* trackers' knowing that the node is active.  The node says NEW, a        *)
(* tracker answers "new", and the answer makes the node say CHG to every   *)
(* tracker it is connected to (SyncTracker::SyncSelf), whichever worker    *)
(* serves the others at that moment.                                       *)
(*                                                                         *)
(* Storage side: the one-shot registration of each connection and the      *)
(* workers.  Sockets to trackers block, so a write is never short and a    *)
(* read without data holds its worker.  Tracker side: one handler at a     *)
(* time for each connection.  On both sides a read returns what has        *)
(* arrived so far, and is followed by one look for a message; the tracker  *)
(* waits for the end of the line then, the node takes what there is.       *)
(*                                                                         *)
(* The buffers (module ByteBuffer) may start small, so that they are moved *)
(* and grown; an operation on one is a step.                               *)
(***************************************************************************)
EXTENDS Naturals, FiniteSets, Sequences, SequencesExt, ByteBuffer

CONSTANTS
  Trackers,     \* trackers of the configuration that Connect_ reached
  Workers,      \* workers of the node's pool
  CRLF,         \* the end of a line, one byte here
  SendRoom,     \* initial size of the node's send buffers
  Room,         \* and of the trackers' receive buffers
  Answer,       \* length of an answer, of which "new 0 \r\n" is the shortest
  Cuts,         \* bound: lengths at which a tracker's read may cut what is
                \* under way to it
  AnswerCuts    \* bound: per tracker, and a read of the node its answer

ASSUME SessionAssumption ==
  /\ IsFiniteSet(Trackers) /\ IsFiniteSet(Workers) /\ Workers \subseteq Nat
  /\ {"NEW", "CHG", CRLF} \subseteq Byte /\ CRLF \notin {"NEW", "CHG"}
  /\ SendRoom \in Nat /\ Room \in Nat /\ Cuts \subseteq Nat \ {0}
  /\ Answer \in Nat /\ Answer >= 8
  /\ AnswerCuts \in [Trackers -> SUBSET (Nat \ {0})]

VARIABLES
  tracker,      \* Conf::tracker: the connections, in the configured order
  sendBuff,     \* per tracker: sendBuff of its TrackerNode
  said,         \* per tracker: all bytes that were put into it
  armed,        \* per tracker: what its registration waits for
  worker,       \* per worker: where it is, in which connection's handler
  link,         \* per tracker: bytes under way to it
  answers,      \* per tracker: bytes of its answer under way from it
  left,         \* per tracker: bytes unhandled in recvBuff of its TrackerNode
  aborted,      \* an assertion has ended the node
  recvBuff,     \* per tracker: recvBuff of its StorageNode for this node
  serving,      \* per tracker: waits to read or write, or parses
  Status,       \* per tracker: unknown, wait, active, gone
  handled,      \* per tracker: the messages it has handled
  crossed,      \* a connection was armed or served again while in use
  doubled       \* two workers have written to one connection at once

storage == <<tracker, sendBuff, said, armed, worker>>
trackers == <<recvBuff, serving, Status, handled>>
vars == <<storage, trackers, link, answers, left, aborted, crossed, doubled>>

Idle == [at |-> "idle"]

(* Where a worker can be, with what it has at hand.                        *)
Places ==
  {Idle}
  \cup [at : {"read", "write", "ret2"}, node : Trackers]
  \cup [at : {"append", "arm"}, node : Trackers, i : Nat \ {0}]
  \cup [at : {"wrote"}, node : Trackers, len : Nat]
  \cup [at : {"ret0"}, node : Trackers, after : {"in", "out"}]

(* A message is its verb with what follows, and the line end.              *)
Message(verb) == <<verb, CRLF>>

(* Conf has read the configuration; Connect_ has queued NEW for every      *)
(* tracker (ReadyNEW) and armed it for output.                             *)
Init ==
  /\ tracker = SetToSeq(Trackers)
  /\ sendBuff = [t \in Trackers |->
       AppendBytes(NewBuffer(SendRoom), Message("NEW"))]
  /\ said = [t \in Trackers |-> Message("NEW")]
  /\ armed = [t \in Trackers |-> "out"]
  /\ worker = [w \in Workers |-> Idle]
  /\ link = [t \in Trackers |-> <<>>] /\ answers = [t \in Trackers |-> 0]
  /\ left = [t \in Trackers |-> 0] /\ aborted = FALSE
  /\ recvBuff = [t \in Trackers |-> NewBuffer(Room)]
  /\ serving = [t \in Trackers |-> "in"]
  /\ Status = [t \in Trackers |-> "unknown"]
  /\ handled = [t \in Trackers |-> <<>>]
  /\ crossed = FALSE /\ doubled = FALSE

Open(t) == \E i \in DOMAIN tracker : tracker[i] = t

-----------------------------------------------------------------------------
(* StartUp: epoll reports the socket once and disarms it, and a worker     *)
(* gets the handler.  Workers are alike, so it is the first idle one; an   *)
(* event that would wait in the pool's queue waits in epoll.  What follows *)
(* once two workers have written at once is not modelled.                  *)

IdleWorkers == {w \in Workers : worker[w] = Idle}

Handles(w, t) == worker[w] # Idle /\ worker[w].node = t

(* The connection SyncSelf is about to arm.                                *)
Arms(w, t) ==
  /\ worker[w].at = "arm" /\ worker[w].i \in DOMAIN tracker
  /\ tracker[worker[w].i] = t

Goes(w, place) == worker' = [worker EXCEPT ![w] = place]
Ends(w) == Goes(w, Idle)

Dispatch(t, event) ==
  /\ Open(t) /\ armed[t] = event /\ ~doubled
  /\ event = "in" => answers[t] > 0
  /\ armed' = [armed EXCEPT ![t] = "none"]
  /\ \E w \in IdleWorkers :
       /\ \A v \in IdleWorkers : w <= v
       /\ Goes(w, [at |-> IF event = "in" THEN "read" ELSE "write", node |-> t])
  /\ crossed' = (crossed \/ \E w \in Workers : Handles(w, t) \/ Arms(w, t))
  /\ UNCHANGED <<tracker, sendBuff, said, link, answers, left, aborted, trackers, doubled>>

(* The handler of connection t is at this place, and its node still exists.*)
In(w, place) == worker[w].at = place /\ Open(worker[w].node) /\ ~doubled

-----------------------------------------------------------------------------
(* OnRead_, ReadProcess, ParseHead_.  The node does not look for the end   *)
(* of a line: it takes four bytes off, the verb, whether they have arrived *)
(* (AddHandled's assertion) or not.  If they are the answer's first, then  *)
(* DealTranew_ takes all there is for the answer, connects to the peers it *)
(* names (module PeerSync), opens both logs (module RingLog) and calls     *)
(* SyncSelf, a loop over the trackers that appends to their buffer and     *)
(* arms them.  The rest of an answer that was cut is no verb: the handler  *)
(* returns 1, four bytes fewer in the buffer.                              *)
VerbLen == 4

Begins(t) == answers[t] = Answer

Arrived(t) == {n \in 1..answers[t] : n \in AnswerCuts[t] \/ n = answers[t]}

Aborts(t, n) ==
  /\ left[t] + n < VerbLen
  /\ aborted' = TRUE /\ UNCHANGED <<worker, left>>

TakesAnswer(w, t, n) ==
  /\ left[t] + n >= VerbLen /\ Begins(t)
  /\ Goes(w, [at |-> "append", node |-> t, i |-> 1])
  /\ left' = [left EXCEPT ![t] = 0] /\ UNCHANGED aborted

DropsVerb(w, t, n) ==
  /\ left[t] + n >= VerbLen /\ ~Begins(t)
  /\ Goes(w, [at |-> "ret0", node |-> t, after |-> "in"])
  /\ left' = [left EXCEPT ![t] = @ + n - VerbLen] /\ UNCHANGED aborted

Read(w) ==
  LET t == worker[w].node
  IN  /\ In(w, "read")
      /\ \E n \in Arrived(t) :
           /\ Aborts(t, n) \/ TakesAnswer(w, t, n) \/ DropsVerb(w, t, n)
           /\ answers' = [answers EXCEPT ![t] = @ - n]
      /\ UNCHANGED <<tracker, sendBuff, said, armed, link, trackers, crossed, doubled>>

Crosses(w, t) == \E v \in Workers \ {w} : Handles(v, t)

AfterTranewWithoutIsOut == "in"

(* isOut: the connection is to be written to, as the loop has said, too.   *)
AfterTranew == "out"

ReadySynSelf(w) ==
  LET t == worker[w].node
      i == worker[w].i
  IN  /\ In(w, "append")
      /\ IF i \in DOMAIN tracker
         THEN /\ sendBuff' = [sendBuff EXCEPT ![tracker[i]] =
                   AppendBytes(@, Message("CHG"))]
              /\ said' = [said EXCEPT ![tracker[i]] = @ \o Message("CHG")]
              /\ crossed' = (crossed \/ Crosses(w, tracker[i]))
              /\ Goes(w, [at |-> "arm", node |-> t, i |-> i])
         ELSE /\ UNCHANGED <<sendBuff, said, crossed>>
              /\ Goes(w, [at |-> "ret0", node |-> t, after |-> AfterTranew])
      /\ UNCHANGED <<tracker, armed, link, answers, left, aborted, trackers, doubled>>

ModFd(w) ==
  LET t == worker[w].node
      i == worker[w].i
  IN  /\ In(w, "arm")
      /\ armed' = IF i \in DOMAIN tracker THEN [armed EXCEPT ![tracker[i]] = "out"]
                  ELSE armed
      /\ crossed' = (crossed \/ (i \in DOMAIN tracker /\ Crosses(w, tracker[i])))
      /\ Goes(w, [at |-> "append", node |-> t, i |-> i + 1])
      /\ UNCHANGED <<tracker, sendBuff, said, link, answers, left, aborted, trackers, doubled>>

-----------------------------------------------------------------------------
(* OnWrite_, WriteProcess: the system call, then LPos_, then the return    *)
(* value.  With nothing to write, or with LPos_ beyond RPos_, it is 2.     *)
Write(w) ==
  LET t == worker[w].node
      b == sendBuff[t]
  IN  /\ In(w, "write")
      /\ IF b.LPos < b.RPos
         THEN /\ link' = [link EXCEPT ![t] = @ \o Unhandled(b)]
              /\ Goes(w, [at |-> "wrote", node |-> t, len |-> UnHandleBytes(b)])
         ELSE UNCHANGED link /\ Goes(w, [at |-> "ret2", node |-> t])
      /\ doubled' = (doubled \/ \E v \in Workers \ {w} :
                                  Handles(v, t) /\ worker[v].at = "wrote")
      /\ UNCHANGED <<tracker, sendBuff, said, armed, answers, left, aborted, trackers, crossed>>

AfterAllWrittenAgain == "out"

AfterAllWritten == "in"

Account(w) ==
  LET t == worker[w].node
  IN  /\ In(w, "wrote")
      /\ sendBuff' = [sendBuff EXCEPT ![t] = AddHandled(@, worker[w].len)]
      /\ Goes(w, [at |-> "ret0", node |-> t, after |->
           IF sendBuff'[t].LPos = sendBuff[t].RPos THEN AfterAllWritten ELSE "out"])
      /\ UNCHANGED <<tracker, said, armed, link, answers, left, aborted, trackers, crossed, doubled>>

(* OnRead_ and OnWrite_ arm the connection as their handler returned, or   *)
(* close it: ~TrackerNode takes it out of Conf::tracker.                   *)
Rearm(w) ==
  /\ In(w, "ret0")
  /\ armed' = [armed EXCEPT ![worker[w].node] = worker[w].after]
  /\ Ends(w)
  /\ UNCHANGED <<tracker, sendBuff, said, link, answers, left, aborted, trackers, crossed, doubled>>

DealClose(w) ==
  LET t == worker[w].node
  IN  /\ In(w, "ret2")
      /\ \E i \in DOMAIN tracker : tracker[i] = t /\ tracker' = RemoveAt(tracker, i)
      /\ armed' = [armed EXCEPT ![t] = "none"]
      /\ Ends(w)
      /\ UNCHANGED <<sendBuff, said, link, answers, left, aborted, trackers, crossed, doubled>>

-----------------------------------------------------------------------------
(* A tracker's handler of the connection: ReadProcess reads what there is, *)
(* then ParseHead_ looks for a line end in what it has.  Without one a     *)
(* second read finds nothing, and the handler returns 1.                   *)

(* Where the first line ends, if it has ended yet.                         *)
LineEnds(bytes) ==
  {i \in DOMAIN bytes : bytes[i] = CRLF /\ \A j \in 1..(i - 1) : bytes[j] # CRLF}

Received(t) == {n \in 1..Len(link[t]) : n \in Cuts \/ n = Len(link[t])}

(* DealNEW_ prepares an answer and has the node wait for the sync, DealCHG_*)
(* makes it active.                                                        *)
StatusAfter(verb) == IF verb = "NEW" THEN "wait" ELSE "active"
WaitsAfterWithoutIsOut(verb) == "in"

WaitsAfter(verb) == IF verb = "NEW" THEN "out" ELSE "in"

Deal(t, buffer) ==
  LET bytes == Unhandled(buffer)
  IN  \/ /\ LineEnds(bytes) = {}
         /\ recvBuff' = [recvBuff EXCEPT ![t] = buffer]
         /\ UNCHANGED <<serving, Status, handled>>
      \/ \E len \in LineEnds(bytes) :
           /\ recvBuff' = [recvBuff EXCEPT ![t] = AddHandled(buffer, len)]
           /\ handled' = [handled EXCEPT ![t] = @ \o SubSeq(bytes, 1, len)]
           /\ Status' = [Status EXCEPT ![t] = StatusAfter(bytes[1])]
           /\ serving' = [serving EXCEPT ![t] = WaitsAfter(bytes[1])]

TrackerReads(t) ==
  /\ serving[t] = "in" /\ link[t] # <<>> /\ ~doubled
  /\ \E n \in Received(t) :
       /\ \E buffer \in {ReadFd(recvBuff[t], SubSeq(link[t], 1, n))} : Deal(t, buffer)
       /\ link' = [link EXCEPT ![t] = SubSeq(@, n + 1, Len(@))]
  /\ UNCHANGED <<storage, answers, left, aborted, crossed, doubled>>

(* The answer to NEW, which is said once, goes out in one write.           *)
TrackerWrites(t) ==
  /\ serving[t] = "out"
  /\ answers' = [answers EXCEPT ![t] = Answer]
  /\ serving' = [serving EXCEPT ![t] = "in"]
  /\ UNCHANGED <<storage, link, left, aborted, recvBuff, Status, handled, crossed, doubled>>

(* The node has hung up and the tracker has read the last byte.            *)
TrackerCloses(t) ==
  /\ ~Open(t) /\ serving[t] = "in" /\ link[t] = <<>>
  /\ serving' = [serving EXCEPT ![t] = "closed"]
  /\ Status' = [Status EXCEPT ![t] = "gone"]
  /\ UNCHANGED <<storage, link, answers, left, aborted, recvBuff, handled, crossed, doubled>>

-----------------------------------------------------------------------------
Handler(w) == Read(w) \/ ReadySynSelf(w) \/ ModFd(w) \/ Write(w) \/ Account(w)
              \/ Rearm(w) \/ DealClose(w)

TrackerSteps(t) == TrackerReads(t) \/ TrackerWrites(t)
                   \/ TrackerCloses(t)

NodeNext ==
  \/ \E t \in Trackers, event \in {"in", "out"} : Dispatch(t, event)
  \/ \E w \in Workers : Handler(w)

TrackersNext == \E t \in Trackers : TrackerSteps(t)

(* What follows the end of the node is not modelled.                       *)
Next == ~aborted /\ (NodeNext \/ TrackersNext)

Spec == Init /\ [][Next]_vars

(* The event loop, the workers and the trackers carry on: there are only   *)
(* finitely many bytes and answers, so every behaviour ends, and none has  *)
(* to be fair to one of them in particular.                                *)
FairSpec == Spec /\ WF_vars(Next)

-----------------------------------------------------------------------------
(* Types of the session's fields.                                          *)
TypeOK ==
  /\ tracker \in Seq(Trackers) /\ IsInjective(tracker)
  /\ DOMAIN sendBuff = Trackers /\ DOMAIN recvBuff = Trackers
  /\ \A t \in Trackers : IsBuffer(sendBuff[t]) /\ IsBuffer(recvBuff[t])
  /\ said \in [Trackers -> Seq(Byte)] /\ handled \in [Trackers -> Seq(Byte)]
  /\ link \in [Trackers -> Seq(Byte)] /\ answers \in [Trackers -> Nat]
  /\ left \in [Trackers -> Nat] /\ aborted \in BOOLEAN
  /\ armed \in [Trackers -> {"none", "in", "out"}] /\ worker \in [Workers -> Places]
  /\ serving \in [Trackers -> {"in", "out", "closed"}]
  /\ Status \in [Trackers -> {"unknown", "wait", "active", "gone"}]
  /\ crossed \in BOOLEAN /\ doubled \in BOOLEAN

Wrote(w, t) == Handles(w, t) /\ worker[w].at = "wrote"

(* The bytes at the front of a send buffer that the system call has taken  *)
(* and LPos_ does not know of yet.                                         *)
Taken(t) ==
  IF \E w \in Workers : Wrote(w, t)
  THEN {worker[w].len : w \in {v \in Workers : Wrote(v, t)}}
  ELSE {0}

(* What the node put into its buffer for a tracker is what the tracker     *)
(* handled, has in its buffer and is still to receive, with nothing lost,  *)
(* repeated or moved, wherever reads cut it and however the buffers are    *)
(* shifted and grown, unless two workers wrote to the tracker at once.     *)
StreamIntact ==
  ~doubled =>
    \A t \in Trackers : \A n \in Taken(t) :
      said[t] = handled[t] \o Unhandled(recvBuff[t]) \o link[t]
                \o Unhandled(AddHandled(sendBuff[t], n))

(* The node does not hang up on a tracker as long as a connection is armed *)
(* and served by one worker at a time and no piece of an answer, too short *)
(* for a verb, ends the node.                                              *)
NeverCutOff == ~crossed /\ ~aborted => \A t \in Trackers : Open(t)

(* Nothing will happen any more: no handler runs, nothing is under way,    *)
(* and no connection is armed for what it can be told.                     *)
Settled ==
  /\ \A w \in Workers : worker[w] = Idle
  /\ \A t \in Trackers :
       /\ link[t] = <<>> /\ serving[t] # "out" /\ armed[t] # "out"
       /\ armed[t] = "in" => answers[t] = 0

(* The conversation does not end before every tracker has been told that   *)
(* the node is active, wherever reads cut the answers, as long as a        *)
(* connection is armed and served by one worker at a time and no piece too *)
(* short for a verb ends the node: no message is left in a buffer whose    *)
(* connection is not armed, and no answer unread.                          *)
EndsActive ==
  Settled /\ ~crossed /\ ~aborted => \A t \in Trackers : Status[t] = "active"

(* The conversation is sound: the stream keeps its bytes, the connection   *)
(* its ends, and it rests only when it is done.                            *)
SessionSound == TypeOK /\ StreamIntact /\ NeverCutOff /\ EndsActive

(* Every tracker learns that the node is active, wherever reads cut the    *)
(* answers, as long as a connection is armed and served by one worker at a *)
(* time and no piece too short for a verb ends the node.                   *)
BecomesActive == \A t \in Trackers : <>(Status[t] = "active" \/ crossed \/ aborted)
=============================================================================
