--------------------------- MODULE AsyncLogProofs ---------------------------
(***************************************************************************)
(* No line of the log is lost, doubled or needlessly overtaken, and nobody *)
(* waits for room with Log::mtx_ held, for any number of threads, any      *)
(* capacity and any number of lines: LinesSound of AsyncLog.               *)
(***************************************************************************)
EXTENDS AsyncLog, FiniteSetTheorems, SequenceTheorems, TLAPS

(* Whoever is inside write with a line that is not yet put anywhere.       *)
Carriers == {t \in Threads : pc[t] \in {"locked", "push", "direct"}}

(* The lines that have been put somewhere are the first ones.              *)
Settled == IF Carriers = {} THEN logged ELSE logged - 1

Books ==
  /\ \A t \in Carriers : line[t] = logged /\ logged # 0
  /\ ElementsOf(deq) \cup ElementsOf(file) \cup ({hand} \ {NoLine}) = 1..Settled
  /\ Len(deq) + Len(file) + (IF hand = NoLine THEN 0 ELSE 1) = Settled

Ordered ==
  /\ \A i, j \in DOMAIN file : i < j => file[i] < file[j]
  /\ \A i, j \in DOMAIN deq : i < j => deq[i] < deq[j]
  /\ \A i \in DOMAIN file, j \in DOMAIN deq : file[i] < deq[j]
  /\ hand # NoLine => /\ \A i \in DOMAIN file : file[i] < hand
                      /\ \A j \in DOMAIN deq : hand < deq[j]

IInv ==
  /\ TypeOK /\ Books /\ NeverWaitsForRoom
  /\ ~wasFull => Ordered
  /\ \A t \in Threads : pc[t] = "direct" => wasFull
  /\ writer = "hand" <=> hand # NoLine

-----------------------------------------------------------------------------
(* Facts about the parts.                                                  *)

(* What the types say of numbers and sequences.                            *)
LEMMA Numbers ==
  ASSUME TypeOK
  PROVE  /\ MaxLines \in Nat /\ logged \in Nat /\ logged <= MaxLines
         /\ hand \in Nat /\ Capacity \in Nat
         /\ deq \in Seq(1..MaxLines) /\ Len(deq) \in Nat /\ DOMAIN deq = 1..Len(deq)
         /\ file \in Seq(1..MaxLines) /\ Len(file) \in Nat /\ DOMAIN file = 1..Len(file)
         /\ Nobody \notin Threads
BY LogAssumption, LenProperties DEF TypeOK

(* One thread at a time is inside write.                                   *)
LEMMA OneCarrier ==
  ASSUME TypeOK
  PROVE  /\ \A t \in Threads : pc[t] \notin {"out", "flush"} => mtx = t
         /\ mtx = Nobody => Carriers = {}
         /\ \A t \in Carriers : Carriers = {t}
BY Numbers DEF TypeOK, Carriers

(* A line put behind a sequence.                                           *)
LEMMA PutBehind ==
  ASSUME NEW S, NEW s \in Seq(S), NEW e \in S
  PROVE  /\ Append(s, e) \in Seq(S) /\ Len(Append(s, e)) = Len(s) + 1
         /\ DOMAIN Append(s, e) = 1..(Len(s) + 1)
         /\ \A i \in 1..Len(s) : Append(s, e)[i] = s[i]
         /\ Append(s, e)[Len(s) + 1] = e
<1>1. /\ Append(s, e) \in Seq(S) /\ Len(Append(s, e)) = Len(s) + 1
      /\ \A i \in 1..Len(s) : Append(s, e)[i] = s[i]
      /\ Append(s, e)[Len(s) + 1] = e
  BY AppendProperties
<1>2. DOMAIN Append(s, e) = 1..(Len(s) + 1)
  BY <1>1, LenProperties
<1>. QED
  BY <1>1, <1>2

(* The elements of a sequence that has one more than another.              *)
LEMMA OneMoreElement ==
  ASSUME NEW s, NEW t, NEW n, NEW e, DOMAIN t = DOMAIN s \cup {n},
         \A i \in DOMAIN s : t[i] = s[i], t[n] = e
  PROVE  ElementsOf(t) = ElementsOf(s) \cup {e}
BY DEF ElementsOf

(* The first line of a sequence, taken from it.                            *)
LEMMA TakeFirst ==
  ASSUME NEW S, NEW s \in Seq(S), s # <<>>
  PROVE  /\ Tail(s) \in Seq(S) /\ Len(Tail(s)) = Len(s) - 1 /\ Len(s) \in Nat \ {0}
         /\ DOMAIN s = 1..Len(s) /\ DOMAIN Tail(s) = 1..(Len(s) - 1)
         /\ \A i \in 1..(Len(s) - 1) : Tail(s)[i] = s[i + 1]
         /\ Head(s) = s[1] /\ Head(s) \in S
         /\ ElementsOf(s) = ElementsOf(Tail(s)) \cup {Head(s)}
<1>1. Len(s) \in Nat \ {0} /\ DOMAIN s = 1..Len(s)
  BY EmptySeq, LenProperties
<1>2. /\ Tail(s) \in Seq(S) /\ Len(Tail(s)) = Len(s) - 1 /\ Head(s) \in S
      /\ \A i \in 1..Len(Tail(s)) : Tail(s)[i] = s[i + 1]
  BY HeadTailProperties
<1>3. DOMAIN Tail(s) = 1..(Len(s) - 1)
  BY <1>2, LenProperties
<1>4. Head(s) = s[1]
  BY <1>1
<1>5. ASSUME NEW i \in DOMAIN s PROVE s[i] \in ElementsOf(Tail(s)) \cup {Head(s)}
  <2>1. CASE i = 1
    BY <2>1, <1>4
  <2>2. CASE i # 1
    <3>1. i - 1 \in 1..(Len(s) - 1) /\ (i - 1) + 1 = i
      BY <1>1, <2>2
    <3>2. Tail(s)[i - 1] = s[i]
      BY <1>2, <3>1
    <3>. QED
      BY <1>3, <3>1, <3>2 DEF ElementsOf
  <2>. QED
    BY <2>1, <2>2
<1>6. ASSUME NEW i \in DOMAIN Tail(s) PROVE Tail(s)[i] \in ElementsOf(s)
  <2>1. i + 1 \in DOMAIN s /\ Tail(s)[i] = s[i + 1]
    BY <1>1, <1>2, <1>3
  <2>. QED
    BY <2>1 DEF ElementsOf
<1>7. Head(s) \in ElementsOf(s)
  BY <1>1, <1>4 DEF ElementsOf
<1>8. ElementsOf(s) = ElementsOf(Tail(s)) \cup {Head(s)}
  BY <1>5, <1>6, <1>7 DEF ElementsOf
<1>. QED
  BY <1>1, <1>2, <1>3, <1>4, <1>8

(* Lines that are put somewhere have numbers up to Settled.                *)
LEMMA SettledBounds ==
  ASSUME TypeOK, Books
  PROVE  /\ Settled \in Nat /\ Settled <= logged
         /\ \A i \in DOMAIN deq : deq[i] \in 1..Settled
         /\ \A i \in DOMAIN file : file[i] \in 1..Settled
         /\ hand # NoLine => hand \in 1..Settled
<1>1. Settled \in Nat /\ Settled <= logged
  BY Numbers DEF Settled, Books
<1>. QED
  BY <1>1 DEF Books, ElementsOf

(* Steps that put no line anywhere keep the books.                         *)
LEMMA NothingMoves ==
  ASSUME Books, UNCHANGED <<logged, deq, hand, file>>, Carriers' = Carriers,
         \A t \in Carriers : line'[t] = line[t]
  PROVE  Books'
BY DEF Books, Settled, ElementsOf

-----------------------------------------------------------------------------
(* Every action preserves the invariant.                                   *)

(* Nothing is logged at first.                                             *)
LEMMA InitIInv == Init => IInv
<1>. SUFFICES ASSUME Init PROVE IInv
  OBVIOUS
<1>1. /\ <<>> \in Seq(1..MaxLines) /\ Len(<<>>) = 0 /\ DOMAIN <<>> = {}
      /\ Nobody \notin Threads /\ MaxLines \in Nat /\ Capacity \in Nat \ {0}
  BY LogAssumption, EmptySeq
<1>2. TypeOK
  <2>1. \A t \in Threads : mtx = t <=> pc[t] \notin {"out", "flush"}
    BY <1>1 DEF Init
  <2>2. pc \in [Threads -> {"out"}] /\ line \in [Threads -> {0}] /\ 0 \in 0..MaxLines
    BY <1>1 DEF Init, NoLine
  <2>. QED
    BY <1>1, <2>1, <2>2 DEF Init, TypeOK, NoLine
<1>3. Books
  BY <1>1 DEF Init, Books, Settled, Carriers, ElementsOf, NoLine
<1>. QED
  BY <1>1, <1>2, <1>3 DEF Init, IInv, NeverWaitsForRoom, Ordered

(* A thread gets Log::mtx_ and the next number.                            *)
LEMMA WriteIInv ==
  ASSUME IInv, NEW t \in Threads, Write(t)
  PROVE  IInv'
<1>. USE DEF IInv
<1>1. /\ pc[t] = "out" /\ mtx = Nobody /\ logged < MaxLines
      /\ logged' = logged + 1 /\ line' = [line EXCEPT ![t] = logged + 1]
      /\ mtx' = t /\ pc' = [pc EXCEPT ![t] = "locked"]
      /\ UNCHANGED <<deq, wasFull, isClose, writer, hand, file, main, missed>>
  BY DEF Write
<1>2. Carriers = {} /\ Carriers' = {t}
  BY <1>1, OneCarrier, Numbers DEF Carriers, TypeOK
<1>3. TypeOK'
  <2>1. pc' \in [Threads -> {"out", "locked", "push", "direct", "unlock", "flush"}]
    BY <1>1 DEF TypeOK
  <2>2. line' \in [Threads -> 0..MaxLines] /\ logged' \in 0..MaxLines
    BY <1>1, Numbers DEF TypeOK
  <2>3. \A u \in Threads : mtx' = u <=> pc'[u] \notin {"out", "flush"}
    BY <1>1, OneCarrier, Numbers DEF TypeOK
  <2>. QED
    BY <1>1, <2>1, <2>2, <2>3 DEF TypeOK
<1>4. Books'
  <2>1. Settled = logged /\ Settled' = logged
    BY <1>1, <1>2, Numbers DEF Settled
  <2>2. line'[t] = logged' /\ logged' # 0
    BY <1>1, Numbers DEF TypeOK
  <2>. QED
    BY <1>1, <1>2, <2>1, <2>2 DEF Books, ElementsOf
<1>5. NeverWaitsForRoom' /\ (~wasFull => Ordered)'
  BY <1>1 DEF NeverWaitsForRoom, Ordered, TypeOK
<1>6. (\A u \in Threads : pc[u] = "direct" => wasFull)'
  BY <1>1 DEF TypeOK
<1>. QED
  BY <1>1, <1>3, <1>4, <1>5, <1>6

(* It finds the queue full, or room in it.                                 *)
LEMMA AsksIInv ==
  ASSUME IInv, NEW t \in Threads, AsksWhetherFull(t)
  PROVE  IInv'
<1>. USE DEF IInv
<1>1. /\ pc[t] = "locked" /\ UNCHANGED <<line, logged, mtx, deq, isClose, hand, file, main, missed>>
      /\ \/ pc' = [pc EXCEPT ![t] = "direct"] /\ wasFull' = TRUE /\ UNCHANGED writer
         \/ /\ pc' = [pc EXCEPT ![t] = "push"] /\ Len(deq) < Capacity /\ UNCHANGED wasFull
            /\ writer' = (IF writer = "sleep" THEN "woken" ELSE writer)
  BY Numbers DEF AsksWhetherFull, FindsItFull, FindsRoom, isFull, NotifyConsumer
<1>2. Carriers' = Carriers
  BY <1>1 DEF Carriers, TypeOK
<1>3. Books'
  BY <1>1, <1>2, NothingMoves
<1>4. TypeOK'
  <2>1. /\ pc' \in [Threads -> {"out", "locked", "push", "direct", "unlock", "flush"}]
        /\ wasFull' \in BOOLEAN /\ writer' \in {"check", "sleep", "woken", "hand", "gone"}
    BY <1>1 DEF TypeOK
  <2>2. \A u \in Threads : mtx' = u <=> pc'[u] \notin {"out", "flush"}
    BY <1>1 DEF TypeOK
  <2>. QED
    BY <1>1, <2>1, <2>2 DEF TypeOK
<1>5. NeverWaitsForRoom' /\ (~wasFull => Ordered)'
  BY <1>1 DEF NeverWaitsForRoom, Ordered, TypeOK
<1>6. (\A u \in Threads : pc[u] = "direct" => wasFull)'
  BY <1>1 DEF TypeOK
<1>7. (writer = "hand" <=> hand # NoLine)'
  BY <1>1
<1>. QED
  BY <1>3, <1>4, <1>5, <1>6, <1>7

(* The line goes behind those that are queued: its number is the highest.  *)
LEMMA PushesIInv ==
  ASSUME IInv, NEW t \in Threads, Pushes(t)
  PROVE  IInv'
<1>. USE DEF IInv
<1>1. /\ pc[t] = "push" /\ deq' = Append(deq, line[t])
      /\ writer' = (IF writer = "sleep" THEN "woken" ELSE writer)
      /\ pc' = [pc EXCEPT ![t] = "unlock"]
      /\ UNCHANGED <<line, logged, mtx, wasFull, isClose, hand, file, main, missed>>
  BY DEF Pushes, push_back, NotifyConsumer
<1>2. Carriers = {t} /\ Carriers' = {} /\ mtx = t
  BY <1>1, OneCarrier DEF Carriers, TypeOK
<1>3. line[t] = logged /\ logged \in 1..MaxLines
  BY <1>2, Numbers DEF Books
<1>4. Settled = logged - 1 /\ Settled' = logged
  BY <1>1, <1>2 DEF Settled
<1>5. /\ deq' \in Seq(1..MaxLines) /\ Len(deq') = Len(deq) + 1
      /\ DOMAIN deq' = 1..(Len(deq) + 1)
      /\ \A i \in 1..Len(deq) : deq'[i] = deq[i]
      /\ deq'[Len(deq) + 1] = logged
      /\ ElementsOf(deq') = ElementsOf(deq) \cup {logged}
  <2>1. /\ deq' \in Seq(1..MaxLines) /\ Len(deq') = Len(deq) + 1
        /\ DOMAIN deq' = 1..(Len(deq) + 1)
        /\ \A i \in 1..Len(deq) : deq'[i] = deq[i]
        /\ deq'[Len(deq) + 1] = logged
    <3>1. deq' = Append(deq, logged) /\ deq \in Seq(1..MaxLines)
      BY <1>1, <1>3, Numbers
    <3>. QED
      BY <1>3, <3>1, PutBehind
  <2>2. /\ DOMAIN deq = 1..Len(deq) /\ DOMAIN deq' = DOMAIN deq \cup {Len(deq) + 1}
    BY <2>1, Numbers
  <2>3. ElementsOf(deq') = ElementsOf(deq) \cup {logged}
    BY <2>1, <2>2, OneMoreElement
  <2>. QED
    BY <2>1, <2>3
<1>6. TypeOK'
  <2>1. /\ pc' \in [Threads -> {"out", "locked", "push", "direct", "unlock", "flush"}]
        /\ writer' \in {"check", "sleep", "woken", "hand", "gone"}
    BY <1>1 DEF TypeOK
  <2>2. \A u \in Threads : mtx' = u <=> pc'[u] \notin {"out", "flush"}
    BY <1>1 DEF TypeOK
  <2>. QED
    BY <1>1, <1>5, <2>1, <2>2 DEF TypeOK
<1>7. Books'
  <2>1. 1..Settled' = 1..Settled \cup {logged}
    BY <1>3, <1>4
  <2>2. ElementsOf(file') = ElementsOf(file)
    BY <1>1
  <2>3. (ElementsOf(deq) \cup ElementsOf(file) \cup ({hand} \ {NoLine}) = 1..Settled)'
    BY <1>1, <1>5, <2>1, <2>2 DEF Books
  <2>4. (Len(deq) + Len(file) + (IF hand = NoLine THEN 0 ELSE 1) = Settled)'
    BY <1>1, <1>4, <1>5, Numbers DEF Books
  <2>. QED
    BY <1>2, <2>3, <2>4 DEF Books
<1>8. (~wasFull => Ordered)'
  <2>1. SUFFICES ASSUME Ordered, ~wasFull PROVE Ordered'
    BY <1>1
  <2>2. /\ \A i \in 1..Len(deq) : deq[i] < logged
        /\ \A i \in DOMAIN file : file[i] < logged
        /\ hand # NoLine => hand < logged
    BY <1>3, <1>4, SettledBounds, Numbers
  <2>3. \A i \in DOMAIN deq' : (i \in 1..Len(deq) /\ deq'[i] = deq[i]) \/ (i = Len(deq) + 1 /\ deq'[i] = logged)
    BY <1>5, Numbers
  <2>4. \A i, j \in DOMAIN deq' : i < j => deq'[i] < deq'[j]
    BY <2>1, <2>2, <2>3, Numbers DEF Ordered
  <2>5. /\ \A i \in DOMAIN file, j \in DOMAIN deq' : file[i] < deq'[j]
        /\ hand # NoLine => \A j \in DOMAIN deq' : hand < deq'[j]
    BY <2>1, <2>2, <2>3, Numbers DEF Ordered
  <2>. QED
    BY <1>1, <2>1, <2>4, <2>5 DEF Ordered
<1>9. NeverWaitsForRoom' /\ (\A u \in Threads : pc[u] = "direct" => wasFull)'
  BY <1>1, <1>2 DEF NeverWaitsForRoom, TypeOK, Carriers
<1>10. (writer = "hand" <=> hand # NoLine)'
  BY <1>1
<1>. QED
  BY <1>6, <1>7, <1>8, <1>9, <1>10

(* The queue was full, and the line goes straight to the file.             *)
LEMMA PutsDirectlyIInv ==
  ASSUME IInv, NEW t \in Threads, PutsDirectly(t)
  PROVE  IInv'
<1>. USE DEF IInv
<1>1. /\ pc[t] = "direct" /\ file' = Append(file, line[t])
      /\ pc' = [pc EXCEPT ![t] = "unlock"]
      /\ UNCHANGED <<line, logged, mtx, deq, wasFull, isClose, writer, hand, main, missed>>
  BY DEF PutsDirectly
<1>2. Carriers = {t} /\ Carriers' = {} /\ mtx = t
  BY <1>1, OneCarrier DEF Carriers, TypeOK
<1>3. line[t] = logged /\ logged \in 1..MaxLines
  BY <1>2, Numbers DEF Books
<1>4. Settled = logged - 1 /\ Settled' = logged
  BY <1>1, <1>2 DEF Settled
<1>5. /\ file' \in Seq(1..MaxLines) /\ Len(file') = Len(file) + 1
      /\ ElementsOf(file') = ElementsOf(file) \cup {logged}
  <2>1. /\ file' \in Seq(1..MaxLines) /\ Len(file') = Len(file) + 1
        /\ DOMAIN file' = 1..(Len(file) + 1)
        /\ \A i \in 1..Len(file) : file'[i] = file[i]
        /\ file'[Len(file) + 1] = logged
    <3>1. file' = Append(file, logged) /\ file \in Seq(1..MaxLines)
      BY <1>1, <1>3, Numbers
    <3>. QED
      BY <1>3, <3>1, PutBehind
  <2>2. /\ DOMAIN file = 1..Len(file) /\ DOMAIN file' = DOMAIN file \cup {Len(file) + 1}
    BY <2>1, Numbers
  <2>3. ElementsOf(file') = ElementsOf(file) \cup {logged}
    BY <2>1, <2>2, OneMoreElement
  <2>. QED
    BY <2>1, <2>3
<1>6. TypeOK'
  <2>1. pc' \in [Threads -> {"out", "locked", "push", "direct", "unlock", "flush"}]
    BY <1>1 DEF TypeOK
  <2>2. \A u \in Threads : mtx' = u <=> pc'[u] \notin {"out", "flush"}
    BY <1>1 DEF TypeOK
  <2>. QED
    BY <1>1, <1>5, <2>1, <2>2 DEF TypeOK
<1>7. Books'
  <2>1. 1..Settled' = 1..Settled \cup {logged}
    BY <1>3, <1>4
  <2>2. ElementsOf(deq') = ElementsOf(deq)
    BY <1>1
  <2>3. (ElementsOf(deq) \cup ElementsOf(file) \cup ({hand} \ {NoLine}) = 1..Settled)'
    BY <1>1, <1>5, <2>1, <2>2 DEF Books
  <2>4. (Len(deq) + Len(file) + (IF hand = NoLine THEN 0 ELSE 1) = Settled)'
    BY <1>1, <1>4, <1>5, Numbers DEF Books
  <2>. QED
    BY <1>2, <2>3, <2>4 DEF Books
<1>8. wasFull' = TRUE
  BY <1>1 DEF TypeOK
<1>9. NeverWaitsForRoom' /\ (\A u \in Threads : pc[u] = "direct" => wasFull)'
  BY <1>1, <1>8 DEF NeverWaitsForRoom, TypeOK
<1>. QED
  BY <1>1, <1>6, <1>7, <1>8, <1>9

(* Unlocking, flushing, and what the writer and main do between lines.     *)
LEMMA IdleIInv ==
  ASSUME IInv,
         \/ \E t \in Threads : Unlocks(t) \/ Flush(t)
         \/ Pop /\ deq = <<>>
         \/ Wake \/ WakesForNoReason \/ ShutDown \/ Closing \/ UNCHANGED vars
  PROVE  IInv'
<1>. USE DEF IInv
<1>1. UNCHANGED <<logged, deq, hand, file, wasFull>>
  BY DEF Unlocks, Flush, Pop, Wake, WakesForNoReason, ShutDown, Closing, Drain,
         Close, Drained, CloseNotifies, Join, vars
<1>2. /\ writer' \in {"check", "sleep", "woken", "hand", "gone"}
      /\ writer' = "hand" <=> writer = "hand"
  BY DEF Unlocks, Flush, Pop, Wake, LooksAtClose, WakesForNoReason, ShutDown, Closing, Drain,
         Close, Drained, CloseNotifies, Join, NotifyConsumer, vars, TypeOK
<1>3. \/ UNCHANGED <<pc, line, mtx>>
      \/ \E t \in Threads :
           /\ pc[t] \in {"unlock", "flush"} /\ pc'[t] \in {"flush", "out"}
           /\ pc' \in [Threads -> {"out", "locked", "push", "direct", "unlock", "flush"}]
           /\ line' \in [Threads -> 0..MaxLines]
           /\ \A u \in Threads \ {t} : pc'[u] = pc[u] /\ line'[u] = line[u]
           /\ mtx' = IF pc[t] = "unlock" THEN Nobody ELSE mtx
  <2>1. ASSUME NEW t \in Threads, Unlocks(t) \/ Flush(t)
        PROVE  /\ pc[t] \in {"unlock", "flush"} /\ pc'[t] \in {"flush", "out"}
               /\ pc' \in [Threads -> {"out", "locked", "push", "direct", "unlock", "flush"}]
               /\ line' \in [Threads -> 0..MaxLines]
               /\ \A u \in Threads \ {t} : pc'[u] = pc[u] /\ line'[u] = line[u]
               /\ mtx' = IF pc[t] = "unlock" THEN Nobody ELSE mtx
    <3>1. CASE Unlocks(t)
      <4>1. pc[t] = "unlock" /\ pc' = [pc EXCEPT ![t] = "flush"]
            /\ line' = [line EXCEPT ![t] = 0] /\ mtx' = Nobody
        BY <3>1 DEF Unlocks, NoLine
      <4>2. 0 \in 0..MaxLines
        BY Numbers
      <4>. QED
        BY <4>1, <4>2 DEF TypeOK
    <3>2. CASE Flush(t)
      BY <3>2 DEF Flush, TypeOK
    <3>. QED
      BY <2>1, <3>1, <3>2
  <2>2. CASE ~ \E t \in Threads : Unlocks(t) \/ Flush(t)
    BY <2>2 DEF Pop, Wake, WakesForNoReason, ShutDown, Closing, Drain,
                Close, CloseNotifies, Join, vars
  <2>. QED
    BY <2>1, <2>2
<1>4. /\ pc' \in [Threads -> {"out", "locked", "push", "direct", "unlock", "flush"}]
      /\ line' \in [Threads -> 0..MaxLines]
      /\ \A t \in Threads : mtx' = t <=> pc'[t] \notin {"out", "flush"}
      /\ \A t \in Threads : \/ pc'[t] = pc[t] /\ line'[t] = line[t]
                            \/ {pc[t], pc'[t]} \subseteq {"out", "unlock", "flush"}
  BY <1>3, OneCarrier, Numbers DEF TypeOK
<1>5. TypeOK'
  <2>1. isClose' \in BOOLEAN /\ missed' \in BOOLEAN
        /\ main' \in {"no", "drain", "closed", "join", "done"}
    BY DEF Unlocks, Flush, Pop, Wake, WakesForNoReason, ShutDown, Closing, Drain,
           Close, CloseNotifies, Join, vars, TypeOK
  <2>. QED
    BY <1>1, <1>2, <1>4, <2>1 DEF TypeOK
<1>6. Books'
  <2>1. Carriers' = Carriers /\ \A t \in Carriers : line'[t] = line[t]
    BY <1>4 DEF Carriers
  <2>. QED
    BY <1>1, <2>1, NothingMoves
<1>7. NeverWaitsForRoom' /\ (\A t \in Threads : pc[t] = "direct" => wasFull)'
  BY <1>1, <1>4 DEF NeverWaitsForRoom
<1>8. (~wasFull => Ordered)'
  BY <1>1 DEF Ordered
<1>. QED
  BY <1>1, <1>2, <1>5, <1>6, <1>7, <1>8

(* The writer takes the first line of the queue.                           *)
LEMMA PopIInv ==
  ASSUME IInv, Pop, deq # <<>>
  PROVE  IInv'
<1>. USE DEF IInv
<1>1. /\ writer = "check" /\ writer' = "hand" /\ hand = NoLine
      /\ deq' = Tail(deq) /\ hand' = Head(deq)
      /\ UNCHANGED <<pc, line, logged, mtx, wasFull, isClose, file, main, missed>>
  BY DEF Pop
<1>2. /\ deq' \in Seq(1..MaxLines) /\ Len(deq') = Len(deq) - 1 /\ Len(deq) \in Nat \ {0}
      /\ DOMAIN deq = 1..Len(deq) /\ DOMAIN deq' = 1..(Len(deq) - 1)
      /\ \A i \in 1..(Len(deq) - 1) : deq'[i] = deq[i + 1]
      /\ hand' = deq[1] /\ hand' \in 1..MaxLines
      /\ ElementsOf(deq) = ElementsOf(deq') \cup {hand'}
  BY <1>1, Numbers, TakeFirst
<1>3. hand' # NoLine
  BY <1>2, Numbers DEF NoLine
<1>4. TypeOK'
  BY <1>1, <1>2, Numbers DEF TypeOK
<1>5. Books'
  <2>1. Carriers' = Carriers /\ Settled' = Settled /\ ElementsOf(file') = ElementsOf(file)
    BY <1>1 DEF Carriers, Settled
  <2>2. (Len(deq) + Len(file) + (IF hand = NoLine THEN 0 ELSE 1) = Settled)'
    BY <1>1, <1>2, <1>3, <2>1, Numbers DEF Books
  <2>3. (ElementsOf(deq) \cup ElementsOf(file) \cup ({hand} \ {NoLine}) = 1..Settled)'
    BY <1>1, <1>2, <1>3, <2>1 DEF Books
  <2>. QED
    BY <1>1, <2>1, <2>2, <2>3 DEF Books
<1>6. (~wasFull => Ordered)'
  <2>1. SUFFICES ASSUME Ordered PROVE Ordered'
    BY <1>1
  <2>2. \A i \in DOMAIN deq' : i \in Nat /\ i + 1 \in DOMAIN deq /\ deq'[i] = deq[i + 1] /\ 1 < i + 1
    BY <1>2
  <2>3. 1 \in DOMAIN deq /\ hand' = deq[1]
    BY <1>2
  <2>4. \A i, j \in DOMAIN deq' : i < j => deq'[i] < deq'[j]
    BY <2>1, <2>2 DEF Ordered
  <2>5. \A j \in DOMAIN deq' : hand' < deq'[j]
    BY <2>1, <2>2, <2>3 DEF Ordered
  <2>6. \A i \in DOMAIN file : file[i] < hand'
    BY <2>1, <2>3 DEF Ordered
  <2>7. \A i \in DOMAIN file, j \in DOMAIN deq' : file[i] < deq'[j]
    BY <2>1, <2>2 DEF Ordered
  <2>. QED
    BY <1>1, <2>1, <2>4, <2>5, <2>6, <2>7 DEF Ordered
<1>7. NeverWaitsForRoom'
  BY <1>1, <1>2, Numbers DEF NeverWaitsForRoom
<1>. QED
  BY <1>1, <1>3, <1>4, <1>5, <1>6, <1>7

(* The line it took goes into the file.                                    *)
LEMMA WriterPutsIInv ==
  ASSUME IInv, WriterPuts
  PROVE  IInv'
<1>. USE DEF IInv
<1>1. /\ writer = "hand" /\ writer' = "check" /\ hand # NoLine /\ hand' = NoLine
      /\ file' = Append(file, hand)
      /\ UNCHANGED <<pc, line, logged, mtx, deq, wasFull, isClose, main, missed>>
  BY DEF WriterPuts
<1>2. hand \in 1..MaxLines
  BY <1>1, SettledBounds, Numbers
<1>3. /\ file' \in Seq(1..MaxLines) /\ Len(file') = Len(file) + 1
      /\ DOMAIN file' = 1..(Len(file) + 1)
      /\ \A i \in 1..Len(file) : file'[i] = file[i]
      /\ file'[Len(file) + 1] = hand
      /\ ElementsOf(file') = ElementsOf(file) \cup {hand}
  <2>1. /\ file' \in Seq(1..MaxLines) /\ Len(file') = Len(file) + 1
        /\ DOMAIN file' = 1..(Len(file) + 1)
        /\ \A i \in 1..Len(file) : file'[i] = file[i]
        /\ file'[Len(file) + 1] = hand
    <3>1. file' = Append(file, hand) /\ file \in Seq(1..MaxLines)
      BY <1>1, Numbers
    <3>. QED
      BY <1>2, <3>1, PutBehind
  <2>2. /\ DOMAIN file = 1..Len(file) /\ DOMAIN file' = DOMAIN file \cup {Len(file) + 1}
    BY <2>1, Numbers
  <2>3. ElementsOf(file') = ElementsOf(file) \cup {hand}
    BY <2>1, <2>2, OneMoreElement
  <2>. QED
    BY <2>1, <2>3
<1>4. TypeOK'
  BY <1>1, <1>3, Numbers DEF TypeOK, NoLine
<1>5. Books'
  <2>1. Carriers' = Carriers /\ Settled' = Settled /\ ElementsOf(deq') = ElementsOf(deq)
    BY <1>1 DEF Carriers, Settled
  <2>2. (Len(deq) + Len(file) + (IF hand = NoLine THEN 0 ELSE 1) = Settled)'
    BY <1>1, <1>3, <2>1, Numbers DEF Books
  <2>3. (ElementsOf(deq) \cup ElementsOf(file) \cup ({hand} \ {NoLine}) = 1..Settled)'
    BY <1>1, <1>3, <2>1 DEF Books
  <2>. QED
    BY <1>1, <2>1, <2>2, <2>3 DEF Books
<1>6. (~wasFull => Ordered)'
  <2>1. SUFFICES ASSUME Ordered PROVE Ordered'
    BY <1>1
  <2>2. \A i \in DOMAIN file' : (i \in DOMAIN file /\ file'[i] = file[i]) \/ (i = Len(file) + 1 /\ file'[i] = hand)
    BY <1>3, Numbers
  <2>3. \A i, j \in DOMAIN file' : i < j => file'[i] < file'[j]
    BY <1>1, <2>1, <2>2, Numbers DEF Ordered
  <2>4. \A i \in DOMAIN file', j \in DOMAIN deq : file'[i] < deq[j]
    BY <1>1, <2>1, <2>2 DEF Ordered
  <2>. QED
    BY <1>1, <2>1, <2>3, <2>4 DEF Ordered
<1>7. NeverWaitsForRoom'
  BY <1>1 DEF NeverWaitsForRoom
<1>. QED
  BY <1>1, <1>4, <1>5, <1>6, <1>7

(* Every step preserves the invariant.                                     *)
LEMMA NextIInv == IInv /\ [Next]_vars => IInv'
<1>. SUFFICES ASSUME IInv, [Next]_vars PROVE IInv'
  OBVIOUS
<1>1. ASSUME NEW t \in Threads, Write(t) \/ Carry(t) PROVE IInv'
  BY <1>1, WriteIInv, AsksIInv, PushesIInv, PutsDirectlyIInv, IdleIInv DEF Carry
<1>2. CASE Writing \/ WakesForNoReason
  BY <1>2, PopIInv, WriterPutsIInv, IdleIInv DEF Writing
<1>3. CASE ShutDown \/ Closing \/ UNCHANGED vars
  BY <1>3, IdleIInv
<1>. QED
  BY <1>1, <1>2, <1>3 DEF Next

-----------------------------------------------------------------------------
(* What the invariant says of the lines in hands.                          *)
LEMMA IInvSound == IInv => LinesSound
<1>. SUFFICES ASSUME IInv PROVE LinesSound
  OBVIOUS
<1>. USE DEF IInv
<1>1. {line[t] : t \in Carriers} = IF Carriers = {} THEN {} ELSE {logged}
  BY DEF Books
<1>2. InHands = {line[t] : t \in Carriers} \cup ({hand} \ {NoLine})
  BY DEF InHands, Carriers
<1>3. {line[t] : t \in Carriers} \cup 1..Settled = 1..logged
  <2>1. CASE Carriers = {}
    BY <1>1, <2>1 DEF Settled
  <2>2. CASE Carriers # {}
    <3>1. logged \in Nat \ {0} /\ Settled = logged - 1
      BY <2>2, Numbers DEF Books, Settled
    <3>2. ASSUME NEW n \in Nat \ {0} PROVE {n} \cup 1..(n - 1) = 1..n
      OBVIOUS
    <3>. QED
      BY <1>1, <2>2, <3>1, <3>2
  <2>. QED
    BY <2>1, <2>2
<1>4. Len(deq) + Len(file) + Cardinality(InHands) = logged
  <2>1. CASE Carriers = {} /\ hand = NoLine
    <3>1. Cardinality(InHands) = 0
      BY <1>1, <1>2, <2>1, FS_EmptySet
    <3>. QED
      BY <2>1, <3>1, Numbers DEF Books, Settled
  <2>2. CASE Carriers = {} /\ hand # NoLine
    <3>1. InHands = {hand} /\ Cardinality({hand}) = 1
      BY <1>1, <1>2, <2>2, FS_Singleton
    <3>. QED
      BY <2>2, <3>1, Numbers DEF Books, Settled
  <2>3. CASE Carriers # {} /\ hand = NoLine
    <3>1. InHands = {logged} /\ Cardinality({logged}) = 1
      BY <1>1, <1>2, <2>3, FS_Singleton
    <3>2. Len(deq) + Len(file) = logged - 1
      BY <2>3, Numbers DEF Books, Settled
    <3>. QED
      BY <3>1, <3>2, Numbers
  <2>4. CASE Carriers # {} /\ hand # NoLine
    <3>1. hand < logged
      BY <2>4, SettledBounds, Numbers DEF Settled
    <3>2. InHands = {hand} \cup {logged}
      BY <1>1, <1>2, <2>4
    <3>3. Cardinality(InHands) = 2
      <4>1. IsFiniteSet({hand}) /\ Cardinality({hand}) = 1
        BY FS_Singleton
      <4>2. logged \notin {hand}
        BY <3>1, Numbers
      <4>. QED
        BY <3>2, <4>1, <4>2, FS_AddElement
    <3>4. Len(deq) + Len(file) + 1 = logged - 1
      BY <2>4, Numbers DEF Books, Settled
    <3>5. Len(deq) + Len(file) + 2 = logged
      <4>1. \A a, b, c \in Nat : a + b + 1 = c - 1 => a + b + 2 = c
        OBVIOUS
      <4>. QED
        BY <3>4, <4>1, Numbers
    <3>. QED
      BY <3>3, <3>5
  <2>. QED
    BY <2>1, <2>2, <2>3, <2>4
<1>5. LinesConserved
  BY <1>2, <1>3, <1>4 DEF Books, LinesConserved
<1>6. LinesInOrder
  BY DEF Ordered, LinesInOrder
<1>. QED
  BY <1>5, <1>6 DEF LinesSound

(* Log::write, AsyncWrite and BlockDeque lose, double or reorder no line   *)
(* (unless the queue was full), and a thread that holds Log::mtx_ never    *)
(* waits for room in the queue, whoever logs and whenever ShutDown comes.  *)
THEOREM LinesAreSound == Spec => []LinesSound
<1>1. Init => IInv
  BY InitIInv
<1>2. IInv /\ [Next]_vars => IInv'
  BY NextIInv
<1>3. IInv => LinesSound
  BY IInvSound
<1>. QED
  BY <1>1, <1>2, <1>3, PTL DEF Spec

=============================================================================
