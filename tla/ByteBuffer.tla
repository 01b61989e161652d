----------------------------- MODULE ByteBuffer -----------------------------
(***************************************************************************)
(* The operations of Buffer, which both programs have a copy of, as        *)
(* functions of a buffer: its cells (buffer_, cell i of the code is cell   *)
(* i + 1 here), LPos_, up to which bytes have been handled, and RPos_, up  *)
(* to which they have been written.  Contents of cells outside LPos_ ..    *)
(* RPos_ are kept as the code leaves them.                                 *)
(***************************************************************************)
EXTENDS Naturals, Sequences

CONSTANTS
  Byte,                 \* what a cell can hold
  Zero                  \* what resize and bzero put into one

ASSUME ByteAssumption == Zero \in Byte

Zeros(n) == [i \in 1..n |-> Zero]

IsBuffer(b) ==
  /\ b \in [cells : Seq(Byte), LPos : Nat, RPos : Nat]
  /\ b.LPos <= b.RPos /\ b.RPos <= Len(b.cells)

NewBuffer(size) == [cells |-> Zeros(size), LPos |-> 0, RPos |-> 0]

FreeBytes(b) == Len(b.cells) - b.RPos
UnHandleBytes(b) == b.RPos - b.LPos

(* What Peek() .. BeginWrite() holds, and UnhandleToStr returns.           *)
Unhandled(b) == SubSeq(b.cells, b.LPos + 1, b.RPos)

-----------------------------------------------------------------------------
(* Taking bytes off: LPos_ moves on, or both positions go back to zero.    *)

AddHandled(b, len) == [b EXCEPT !.LPos = @ + len]

AddHandledAll(b) == NewBuffer(Len(b.cells))

-----------------------------------------------------------------------------
(* Adding bytes: std::copy or readv to BeginWrite(), then HasWritten.      *)

Filled(b, bytes) ==
  SubSeq(b.cells, 1, b.RPos) \o bytes \o SubSeq(b.cells, b.RPos + Len(bytes) + 1, Len(b.cells))

HasWritten(b, bytes) ==
  [b EXCEPT !.cells = Filled(b, bytes), !.RPos = @ + Len(bytes)]

(* MakeSpace_: grow when handled and free cells together are too few, or   *)
(* move the unhandled bytes to the front.                                  *)
Resized(b, size) == [b EXCEPT !.cells = @ \o Zeros(size - Len(@))]

PositionsOnly(b) == [b EXCEPT !.LPos = 0, !.RPos = UnHandleBytes(b)]

MovedToFront(b) ==
  [cells |-> Unhandled(b) \o SubSeq(b.cells, UnHandleBytes(b) + 1, Len(b.cells)),
   LPos |-> 0, RPos |-> UnHandleBytes(b)]

MakeSpace(b, len) ==
  IF FreeBytes(b) + b.LPos < len THEN Resized(b, b.RPos + len + 1)
  ELSE MovedToFront(b)

EnsureFreeBytes(b, len) == IF FreeBytes(b) < len THEN MakeSpace(b, len) ELSE b

AppendBytes(b, bytes) == HasWritten(EnsureFreeBytes(b, Len(bytes)), bytes)

(* readv fills the free cells and then an array on the stack, whose        *)
(* contents are appended.                                                  *)
ReadFd(b, bytes) ==
  LET writable == FreeBytes(b)
  IN  IF Len(bytes) <= writable THEN HasWritten(b, bytes)
      ELSE AppendBytes(HasWritten(b, SubSeq(bytes, 1, writable)),
                       SubSeq(bytes, writable + 1, Len(bytes)))
=============================================================================
