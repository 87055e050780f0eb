------------------------------ MODULE BtifProofs ------------------------------
(***************************************************************************)
(* Proofs about Btif for every size of the ring and of the virtual FIFO,    *)
(* every limit and any number of bytes and opens.                           *)
(***************************************************************************)
EXTENDS Btif, SequenceTheorems, WellFoundedInduction, TLAPS

-----------------------------------------------------------------------------
(* Life cycle. *)

\* Where wmtd is decides what is set: enable and rx_cb, and with enable the
\* state; what a late write has set up stays so until wmtd closes it again.
Life ==
  /\ wmt \in {"closed", "opened", "up", "down", "closing"}
  /\ state \in {"OFF", "ON"}
  /\ enable \in BOOLEAN /\ cb \in BOOLEAN /\ revived \in BOOLEAN
  /\ enable <=> (wmt \in {"opened", "up", "down"})
  /\ cb <=> (wmt = "up")
  /\ enable => state = "ON"
  /\ wmt = "closed" /\ ~revived => state = "OFF"

\* Init establishes it.
LEMMA LifeInit == Init => Life
<1>1. Init => /\ wmt = "closed" /\ enable = FALSE /\ state = "OFF"
              /\ cb = FALSE /\ revived = FALSE
  BY DEF Init
<1> QED BY <1>1 DEF Life

\* Every step keeps it.
LEMMA LifeStep == Life /\ [Next]_vars => Life'
<1> SUFFICES ASSUME Life, [Next]_vars PROVE Life'
  OBVIOUS
<1>1. CASE Open
  <2>1. /\ wmt = "closed" /\ UNCHANGED <<cb, revived>>
        /\ \/ state' = "ON" /\ enable' = TRUE /\ wmt' = "opened"
           \/ UNCHANGED <<state, enable, wmt>>
    BY <1>1 DEF Open, SetUp
  <2>2. CASE UNCHANGED <<wmt, enable, state, cb, revived>>
    BY <2>2 DEF Life
  <2>3. CASE state' = "ON" /\ enable' = TRUE /\ wmt' = "opened"
    BY <2>1, <2>3 DEF Life
  <2> QED BY <2>1, <2>2, <2>3
<1>2. CASE RegisterCb
  <2>1. /\ UNCHANGED <<enable, state, revived>>
        /\ \/ wmt = "opened" /\ wmt' = "up" /\ cb' = TRUE
           \/ wmt = "up" /\ wmt' = "down" /\ cb' = FALSE
    BY <1>2 DEF RegisterCb
  <2> QED BY <2>1 DEF Life
<1>3. CASE Close
  <2>1. /\ wmt = "down" /\ wmt' = "closing" /\ enable' = FALSE
        /\ UNCHANGED <<state, cb, revived>>
    BY <1>3 DEF Close
  <2> QED BY <2>1 DEF Life
<1>4. CASE CloseEnd
  <2>1. /\ wmt = "closing" /\ wmt' = "closed" /\ cb' = FALSE /\ state' = "OFF"
        /\ UNCHANGED <<enable, revived>>
    BY <1>4 DEF CloseEnd, StateAfterClose
  <2> QED BY <2>1 DEF Life
<1>5. CASE WriterSends
  <2>1. /\ UNCHANGED <<wmt, enable, cb>>
        /\ \/ UNCHANGED <<state, revived>>
           \/ state' = "ON" /\ revived' = TRUE
    BY <1>5 DEF WriterSends, SetUp
  <2> QED BY <2>1 DEF Life
<1>6. CASE UNCHANGED <<wmt, enable, state, cb, revived>>
  BY <1>6 DEF Life
<1>7. WriterFinds \/ UNCHANGED lifeVars => UNCHANGED <<wmt, enable, state, cb, revived>>
  BY DEF WriterFinds, lifeVars
<1>8. ChipSends \/ Handler \/ RxThread \/ UNCHANGED vars => UNCHANGED lifeVars
  BY DEF ChipSends, Handler, Interrupt, IrqTake, IrqWrite, IrqCheck, IrqEnd,
         RxThread, Wake, Look, Hand, Rest, Advance, vars
<1> QED BY <1>1, <1>2, <1>3, <1>4, <1>5, <1>6, <1>7, <1>8 DEF Next

\* A closed BTIF has given back its interrupts and an open one is set up, in any
\* order of opens, closes and writes; a late write is the only exception.
THEOREM LifeAlways == Spec => []LifeInv
<1>1. Life => LifeInv
  BY DEF Life, LifeInv
<1> QED BY <1>1, LifeInit, LifeStep, PTL DEF Spec

-----------------------------------------------------------------------------
(* The ring. *)

\* n places further on.
LEMMA Forth ==
  ASSUME NEW w \in 0 .. Size - 1, NEW n \in 0 .. Size - 1
  PROVE  /\ (w + n) % Size = IF w + n < Size THEN w + n ELSE w + n - Size
         /\ (w + n) % Size \in 0 .. Size - 1
<1>1. Size \in Nat \ {0}
  BY BtifAssumption
<1> QED BY <1>1

\* The distance of two places.
LEMMA Back ==
  ASSUME NEW a \in 0 .. Size - 1, NEW w \in 0 .. Size - 1
  PROVE  (w - a) % Size = IF w >= a THEN w - a ELSE Size - (a - w)
<1>1. Size \in Nat \ {0}
  BY BtifAssumption
<1> QED BY <1>1

-----------------------------------------------------------------------------
(* The virtual FIFO. *)

\* A place of the virtual FIFO: its wrap bit and its offset.
LEMMA Bit ==
  ASSUME NEW a \in 0 .. Wrap - 1
  PROVE  /\ a \div VffSize = IF a < VffSize THEN 0 ELSE 1
         /\ a % VffSize = IF a < VffSize THEN a ELSE a - VffSize
<1>1. VffSize \in Nat \ {0} /\ a \in 0 .. 2 * VffSize - 1
  BY BtifAssumption DEF Wrap
<1> QED BY <1>1

\* The distance of two places, and a move by up to the size of the FIFO.
LEMMA Turns ==
  ASSUME NEW a \in 0 .. Wrap - 1
  PROVE  /\ \A b \in 0 .. Wrap - 1 : (a - b) % Wrap = IF a >= b THEN a - b ELSE a - b + Wrap
         /\ \A n \in 0 .. VffSize :
              /\ (a + n) % Wrap = IF a + n < Wrap THEN a + n ELSE a + n - Wrap
              /\ (a + n) % Wrap \in 0 .. Wrap - 1
<1>1. VffSize \in Nat \ {0} /\ Wrap = 2 * VffSize /\ Wrap \in Nat \ {0}
  BY BtifAssumption DEF Wrap
<1>2. ASSUME NEW b \in 0 .. Wrap - 1
      PROVE  (a - b) % Wrap = IF a >= b THEN a - b ELSE a - b + Wrap
  BY <1>1
<1>3. ASSUME NEW n \in 0 .. VffSize
      PROVE  /\ (a + n) % Wrap = IF a + n < Wrap THEN a + n ELSE a + n - Wrap
             /\ (a + n) % Wrap \in 0 .. Wrap - 1
  BY <1>1, <1>3
<1> QED BY <1>2, <1>3

\* The record of the DMA engine, and what the handler keeps.
VffRecord == [mem : [0 .. VffSize - 1 -> Bytes], wpt : 0 .. Wrap - 1,
              rpt : 0 .. Wrap - 1, receiver : BOOLEAN]
IrqRecord == [pc : {"off", "take", "write", "check"}, todo : Seq(1 .. VffSize),
              done : 0 .. VffSize, receiver : BOOLEAN]

\* What is left of the pass of the handler.
Ahead == IF Len(irq.todo) = 1 THEN irq.todo[1] ELSE irq.todo[1] + irq.todo[2]

\* The FIFO is never overfull, and last_wpt_wrap is the wrap bit of RPT as it is
\* between two passes, or will be when the pass is over.
VffInd ==
  /\ vff \in VffRecord /\ irq \in IrqRecord
  /\ sent \in Bytes /\ last \in {0, 1} /\ state \in {"OFF", "ON"}
  /\ Held(vff) =< VffSize
  /\ state = "OFF" => irq.pc = "off"
  /\ irq.pc \in {"off", "take"} => last = vff.rpt \div VffSize
  /\ irq.pc \in {"write", "check"} =>
       /\ Len(irq.todo) \in {1, 2}
       /\ irq.done + Ahead =< Held(vff)
       /\ last = ((vff.rpt + irq.done + Ahead) % Wrap) \div VffSize

\* With last_wpt_wrap the wrap bit of RPT, real_len is what the FIFO holds.
LEMMA RealLenIsHeld ==
  ASSUME VffInd, irq.pc = "take"
  PROVE  RealLen = Held(vff)
<1> DEFINE w == vff.wpt
           r == vff.rpt
<1>1. /\ w \in 0 .. Wrap - 1 /\ r \in 0 .. Wrap - 1
      /\ (w - r) % Wrap =< VffSize /\ last = r \div VffSize
  BY DEF VffInd, VffRecord, Held
<1>2. VffSize \in Nat \ {0} /\ Wrap = 2 * VffSize
  BY BtifAssumption DEF Wrap
<1>3. /\ w \div VffSize = IF w < VffSize THEN 0 ELSE 1
      /\ w % VffSize = IF w < VffSize THEN w ELSE w - VffSize
      /\ r \div VffSize = IF r < VffSize THEN 0 ELSE 1
      /\ r % VffSize = IF r < VffSize THEN r ELSE r - VffSize
  BY <1>1, Bit
<1>4. (w - r) % Wrap = IF w >= r THEN w - r ELSE w - r + Wrap
  BY <1>1, Turns
<1>5. RealLen = IF w \div VffSize # last THEN (w % VffSize) + VffSize - (r % VffSize)
                ELSE (w % VffSize) - (r % VffSize)
  BY DEF RealLen
<1> HIDE DEF w, r
<1>6. RealLen = (w - r) % Wrap
  BY <1>1, <1>2, <1>3, <1>4, <1>5
<1> QED BY <1>6 DEF Held, w, r

\* What the FIFO holds when the engine adds n bytes and when the handler gives n
\* of them back.
LEMMA HeldMoves ==
  ASSUME NEW a \in 0 .. Wrap - 1, NEW b \in 0 .. Wrap - 1, NEW n \in 0 .. VffSize
  PROVE  /\ (a - b) % Wrap \in 0 .. Wrap - 1
         /\ ((a - b) % Wrap) + n =< VffSize => (((a + n) % Wrap) - b) % Wrap = ((a - b) % Wrap) + n
         /\ n =< (a - b) % Wrap => (a - ((b + n) % Wrap)) % Wrap = ((a - b) % Wrap) - n
         /\ n = (a - b) % Wrap => (b + n) % Wrap = a
         /\ (a - b) % Wrap = 0 => a = b
<1> DEFINE d == (a - b) % Wrap
           x == (a + n) % Wrap
           y == (b + n) % Wrap
<1>1. VffSize \in Nat \ {0} /\ Wrap = 2 * VffSize /\ Wrap \in Nat \ {0}
  BY BtifAssumption DEF Wrap
<1>2. d = IF a >= b THEN a - b ELSE a - b + Wrap
  BY Turns
<1>3. /\ x = IF a + n < Wrap THEN a + n ELSE a + n - Wrap
      /\ y = IF b + n < Wrap THEN b + n ELSE b + n - Wrap
      /\ x \in 0 .. Wrap - 1 /\ y \in 0 .. Wrap - 1
  BY Turns
<1>4. /\ (x - b) % Wrap = IF x >= b THEN x - b ELSE x - b + Wrap
      /\ (a - y) % Wrap = IF a >= y THEN a - y ELSE a - y + Wrap
  BY <1>3, Turns
<1> HIDE DEF d, x, y
<1>5. d \in 0 .. Wrap - 1 /\ (d = 0 => a = b) /\ (n = d => y = a)
  BY <1>1, <1>2, <1>3
<1>6. d + n =< VffSize => (x - b) % Wrap = d + n
  BY <1>1, <1>2, <1>3, <1>4
<1>7. n =< d => (a - y) % Wrap = d - n
  BY <1>1, <1>2, <1>3, <1>4
<1> QED BY <1>5, <1>6, <1>7 DEF d, x, y

\* The chunks of a pass.
LEMMA ChunksOf ==
  ASSUME VffInd, NEW n \in 1 .. VffSize
  PROVE  /\ Chunks(n) \in Seq(1 .. VffSize) /\ Len(Chunks(n)) \in {1, 2}
         /\ Len(Chunks(n)) = 1 => Chunks(n)[1] = n
         /\ Len(Chunks(n)) = 2 => Chunks(n)[1] + Chunks(n)[2] = n
<1> DEFINE tail == VffSize - (vff.rpt % VffSize)
<1>1. tail \in 1 .. VffSize
  <2>1. vff.rpt \in 0 .. Wrap - 1 /\ VffSize \in Nat \ {0} /\ Wrap = 2 * VffSize
    BY BtifAssumption DEF VffInd, VffRecord, Wrap
  <2>2. vff.rpt % VffSize = IF vff.rpt < VffSize THEN vff.rpt ELSE vff.rpt - VffSize
    BY <2>1, Bit
  <2> QED BY <2>1, <2>2
<1>2. Chunks(n) = IF tail >= n THEN <<n>> ELSE <<tail, n - tail>>
  BY DEF Chunks
<1> HIDE DEF tail
<1>3. CASE tail >= n
  BY <1>2, <1>3
<1>4. CASE ~(tail >= n)
  <2>1. n - tail \in 1 .. VffSize
    BY <1>1, <1>4, BtifAssumption
  <2>2. Chunks(n) = <<tail, n - tail>>
    BY <1>2, <1>4
  <2>3. tail + (n - tail) = n
    BY <1>1
  <2> QED BY <1>1, <2>1, <2>2, <2>3
<1> QED BY <1>3, <1>4

\* Init establishes the invariant of the FIFO.
LEMMA VffInit == Init => VffInd
<1> SUFFICES ASSUME Init PROVE VffInd
  OBVIOUS
<1>1. VffSize \in Nat \ {0} /\ Wrap = 2 * VffSize /\ MaxBytes \in Nat
  BY BtifAssumption DEF Wrap
<1>2. /\ vff = [mem |-> [i \in 0 .. VffSize - 1 |-> 0], wpt |-> 0, rpt |-> 0, receiver |-> FALSE]
      /\ irq = NotRunning /\ sent = 0 /\ last = 0 /\ state = "OFF"
  BY DEF Init
<1>3. vff \in VffRecord /\ irq \in IrqRecord /\ sent \in Bytes
  BY <1>1, <1>2 DEF VffRecord, IrqRecord, NotRunning, Bytes
<1>4. Held(vff) =< VffSize
  BY <1>1, <1>2 DEF Held
<1>5. irq.pc = "off" /\ last = vff.rpt \div VffSize
  BY <1>1, <1>2 DEF NotRunning
<1> QED BY <1>2, <1>3, <1>4, <1>5 DEF VffInd

\* The chunks of the handler are numbers.
LEMMA Todo ==
  ASSUME VffInd, irq.pc \in {"write", "check"}
  PROVE  /\ irq.done \in 0 .. VffSize /\ irq.todo \in Seq(1 .. VffSize)
         /\ irq.todo[1] \in 1 .. VffSize /\ Head(irq.todo) = irq.todo[1]
         /\ Len(irq.todo) = 2 => irq.todo[2] \in 1 .. VffSize
         /\ Ahead \in Nat
<1>1. /\ irq.done \in 0 .. VffSize /\ irq.todo \in Seq(1 .. VffSize) /\ Len(irq.todo) \in {1, 2}
  BY DEF VffInd, IrqRecord
<1>2. 1 \in 1 .. Len(irq.todo) /\ (Len(irq.todo) = 2 => 2 \in 1 .. Len(irq.todo))
  <2>1. ASSUME NEW l \in {1, 2} PROVE 1 \in 1 .. l /\ (l = 2 => 2 \in 1 .. l)
    OBVIOUS
  <2> QED BY <1>1, <2>1
<1>3. irq.todo[1] \in 1 .. VffSize /\ (Len(irq.todo) = 2 => irq.todo[2] \in 1 .. VffSize)
  BY <1>1, <1>2, ElementOfSeq
<1>4. VffSize \in Nat
  BY BtifAssumption
<1>5. Ahead \in Nat
  BY <1>1, <1>3, <1>4 DEF Ahead
<1> QED BY <1>1, <1>3, <1>5

\* Nothing of the FIFO moves.
LEMMA VffIdle ==
  ASSUME VffInd, UNCHANGED <<vff, last, irq, state, sent>>
  PROVE  VffInd'
BY DEF VffInd, Held, Ahead

\* The chip sends a byte.
LEMMA VffChipSends == VffInd /\ ChipSends => VffInd'
<1> SUFFICES ASSUME VffInd, ChipSends PROVE VffInd'
  OBVIOUS
<1>1. /\ VffSize \in Nat \ {0} /\ Wrap = 2 * VffSize /\ MaxBytes \in Nat
      /\ vff.wpt \in 0 .. Wrap - 1 /\ vff.rpt \in 0 .. Wrap - 1
  BY BtifAssumption DEF Wrap, VffInd, VffRecord
<1>2. /\ vff \in VffRecord /\ sent \in Bytes /\ Held(vff) < VffSize /\ sent < MaxBytes
      /\ vff' = [vff EXCEPT !.mem[vff.wpt % VffSize] = sent + 1, !.wpt = (@ + 1) % Wrap]
      /\ sent' = sent + 1 /\ UNCHANGED <<last, irq, state>>
  BY DEF VffInd, ChipSends, lifeVars
<1>3. sent' \in Bytes
  BY <1>1, <1>2 DEF Bytes
<1>4. (vff.wpt + 1) % Wrap \in 0 .. Wrap - 1
  BY <1>1, Turns
<1>5. /\ vff' \in VffRecord /\ vff'.rpt = vff.rpt /\ vff'.wpt = (vff.wpt + 1) % Wrap
  BY <1>1, <1>2, <1>3, <1>4 DEF VffRecord
<1>6. Held(vff)' = Held(vff) + 1
  <2> DEFINE w == vff.wpt
             r == vff.rpt
  <2>1. /\ w \in 0 .. Wrap - 1 /\ r \in 0 .. Wrap - 1 /\ 1 \in 0 .. VffSize
        /\ Held(vff) = (w - r) % Wrap /\ Held(vff)' = (((w + 1) % Wrap) - r) % Wrap
    BY <1>1, <1>5 DEF Held
  <2> HIDE DEF w, r
  <2>2. /\ (w - r) % Wrap \in 0 .. Wrap - 1
        /\ ((w - r) % Wrap) + 1 =< VffSize => (((w + 1) % Wrap) - r) % Wrap = ((w - r) % Wrap) + 1
    BY <2>1, HeldMoves
  <2> QED BY <1>1, <1>2, <2>1, <2>2
<1>7. Held(vff) \in Int
  BY <1>1, HeldMoves DEF Held
<1>8. Held(vff)' =< VffSize
  BY <1>1, <1>2, <1>6, <1>7
<1>9. irq.pc \in {"write", "check"} => irq.done + Ahead =< Held(vff)'
  <2> SUFFICES ASSUME irq.pc \in {"write", "check"} PROVE irq.done + Ahead =< Held(vff)'
    OBVIOUS
  <2>1. irq.done \in Int /\ Ahead \in Int
    BY <1>1, Todo
  <2> QED BY <1>6, <1>7, <2>1 DEF VffInd
<1> QED BY <1>2, <1>3, <1>5, <1>8, <1>9 DEF VffInd, Ahead

\* A pass begins: there is something, and it is all that is there.
LEMMA VffIrqTake == VffInd /\ IrqTake => VffInd'
<1> SUFFICES ASSUME VffInd, IrqTake PROVE VffInd'
  OBVIOUS
<1> DEFINE n == Held(vff)
<1>1. /\ VffSize \in Nat \ {0} /\ Wrap = 2 * VffSize
      /\ vff.wpt \in 0 .. Wrap - 1 /\ vff.rpt \in 0 .. Wrap - 1
      /\ vff \in VffRecord /\ irq \in IrqRecord
  BY BtifAssumption DEF Wrap, VffInd, VffRecord
<1>2. n \in 1 .. VffSize /\ (vff.rpt + n) % Wrap = vff.wpt
  <2> DEFINE w == vff.wpt
             r == vff.rpt
  <2>1. /\ n = (w - r) % Wrap /\ n =< VffSize /\ r # w
        /\ w \in 0 .. Wrap - 1 /\ r \in 0 .. Wrap - 1
    BY <1>1 DEF Held, VffInd, IrqTake
  <2> HIDE DEF n, w, r
  <2>2. 0 \in 0 .. VffSize
    BY <1>1
  <2>3. n \in 0 .. Wrap - 1 /\ (n = 0 => w = r)
    BY <2>1, <2>2, HeldMoves
  <2>4. n \in 0 .. VffSize
    BY <1>1, <2>1, <2>3
  <2>5. (r + n) % Wrap = w
    BY <2>1, <2>4, HeldMoves
  <2>6. n \in 1 .. VffSize
    BY <1>1, <2>1, <2>3, <2>4
  <2> QED BY <2>5, <2>6 DEF w, r
<1>3. RealLen = n
  BY RealLenIsHeld DEF IrqTake
<1>4. /\ irq.pc = "take" /\ last' = vff.wpt \div VffSize
      /\ UNCHANGED <<state, sent>>
      /\ \/ /\ UNCHANGED vff
            /\ irq' = [irq EXCEPT !.pc = "write", !.todo = Chunks(n), !.done = 0]
         \/ /\ UNCHANGED irq
            /\ vff' = [vff EXCEPT !.rpt = (@ + n) % Wrap]
  BY <1>3 DEF IrqTake, lifeVars
<1>5. last' \in {0, 1}
  BY <1>1, <1>4, Bit
<1>6. state # "OFF"
  BY <1>4 DEF VffInd
<1> HIDE DEF n
<1>7. CASE /\ UNCHANGED vff
           /\ irq' = [irq EXCEPT !.pc = "write", !.todo = Chunks(n), !.done = 0]
  <2>1. /\ Chunks(n) \in Seq(1 .. VffSize) /\ Len(Chunks(n)) \in {1, 2}
        /\ Len(Chunks(n)) = 1 => Chunks(n)[1] = n
        /\ Len(Chunks(n)) = 2 => Chunks(n)[1] + Chunks(n)[2] = n
    BY <1>2, ChunksOf
  <2>2. /\ irq' \in IrqRecord /\ irq'.pc = "write" /\ irq'.todo = Chunks(n) /\ irq'.done = 0
    <3> DEFINE c == Chunks(n)
               S == Seq(1 .. VffSize)
    <3>1. c \in S /\ 0 \in 0 .. VffSize
      BY <1>1, <2>1
    <3>2. irq \in [pc : {"off", "take", "write", "check"}, todo : S,
                   done : 0 .. VffSize, receiver : BOOLEAN]
      BY <1>1 DEF IrqRecord
    <3>3. irq' = [irq EXCEPT !.pc = "write", !.todo = c, !.done = 0]
      BY <1>7
    <3> HIDE DEF c, S
    <3>4. /\ irq' \in [pc : {"off", "take", "write", "check"}, todo : S,
                       done : 0 .. VffSize, receiver : BOOLEAN]
          /\ irq'.pc = "write" /\ irq'.todo = c /\ irq'.done = 0
      BY <3>1, <3>2, <3>3
    <3> QED BY <3>4 DEF c, S, IrqRecord
  <2>3. Ahead' = n
    BY <2>1, <2>2 DEF Ahead
  <2>4. irq'.done + Ahead' = n /\ vff'.rpt + irq'.done + Ahead' = vff.rpt + n
    BY <1>1, <1>2, <1>7, <2>2, <2>3
  <2>5. Held(vff)' = n
    BY <1>7 DEF n, Held
  <2>6. n =< n
    BY <1>2
  <2> QED BY <1>1, <1>2, <1>4, <1>5, <1>6, <1>7, <2>1, <2>2, <2>4, <2>5, <2>6 DEF VffInd
<1>8. CASE UNCHANGED irq /\ vff' = [vff EXCEPT !.rpt = (@ + n) % Wrap]
  <2>1. /\ vff' \in VffRecord /\ vff'.rpt = vff.wpt /\ vff'.wpt = vff.wpt
    BY <1>1, <1>2, <1>8 DEF VffRecord
  <2>2. Held(vff)' = 0
    <3>1. (vff.wpt - vff.wpt) % Wrap = vff.wpt - vff.wpt
      BY <1>1, Turns
    <3> QED BY <1>1, <2>1, <3>1 DEF Held
  <2>3. Held(vff)' =< VffSize
    BY <1>1, <2>2
  <2> QED BY <1>1, <1>4, <1>5, <1>6, <1>8, <2>1, <2>3 DEF VffInd
<1> QED BY <1>4, <1>7, <1>8

\* A chunk is dealt with: what is left shrinks by it, and the last one gives all
\* of the pass back.
LEMMA VffChunkOver ==
  ASSUME VffInd, irq.pc \in {"write", "check"}, ChunkOver, UNCHANGED <<last, state, sent>>
  PROVE  VffInd'
<1> DEFINE S == Seq(1 .. VffSize)
           d == irq.done + irq.todo[1]
<1>1. /\ VffSize \in Nat \ {0} /\ Wrap = 2 * VffSize
      /\ vff.wpt \in 0 .. Wrap - 1 /\ vff.rpt \in 0 .. Wrap - 1
      /\ vff \in VffRecord /\ irq \in IrqRecord
  BY BtifAssumption DEF Wrap, VffInd, VffRecord
<1>2. /\ irq.done \in 0 .. VffSize /\ irq.todo \in S /\ irq.todo[1] \in 1 .. VffSize
      /\ Head(irq.todo) = irq.todo[1]
      /\ Len(irq.todo) = 2 => irq.todo[2] \in 1 .. VffSize
      /\ Len(irq.todo) \in {1, 2} /\ Ahead \in Nat
  BY Todo DEF VffInd
<1>3. /\ Held(vff) \in 0 .. VffSize /\ irq.done + Ahead =< Held(vff)
      /\ last = ((vff.rpt + irq.done + Ahead) % Wrap) \div VffSize
      /\ last \in {0, 1} /\ state # "OFF"
  <2>1. Held(vff) \in 0 .. Wrap - 1
    <3> DEFINE w == vff.wpt
               r == vff.rpt
    <3>1. w \in 0 .. Wrap - 1 /\ r \in 0 .. Wrap - 1 /\ 0 \in 0 .. VffSize
      BY <1>1
    <3> HIDE DEF w, r
    <3>2. (w - r) % Wrap \in 0 .. Wrap - 1
      BY <3>1, HeldMoves
    <3> QED BY <3>2 DEF Held, w, r
  <2>2. Held(vff) =< VffSize
    BY DEF VffInd
  <2>3. Held(vff) \in 0 .. VffSize
    BY <1>1, <2>1, <2>2
  <2> QED BY <2>3 DEF VffInd
<1>4. irq \in [pc : {"off", "take", "write", "check"}, todo : S,
               done : 0 .. VffSize, receiver : BOOLEAN]
  BY <1>1 DEF IrqRecord
<1>5. CASE Len(irq.todo) = 2
  <2> DEFINE t == Tail(irq.todo)
  <2>1. t \in S /\ Len(t) = 1 /\ t[1] = irq.todo[2]
    <3>1. irq.todo # <<>>
      BY <1>2, <1>5
    <3>2. /\ t \in Seq(1 .. VffSize) /\ Len(t) = Len(irq.todo) - 1
          /\ \A i \in 1 .. Len(t) : t[i] = irq.todo[i + 1]
      BY <1>2, <3>1, HeadTailProperties
    <3>3. Len(t) = 2 - 1
      BY <1>5, <3>2
    <3>4. Len(t) = 1
      BY <3>3
    <3>5. 1 \in 1 .. Len(t)
      BY <3>4
    <3> QED BY <3>2, <3>4, <3>5
  <2>2. Ahead = irq.todo[1] + irq.todo[2]
    BY <1>5 DEF Ahead
  <2>3. /\ irq' = [irq EXCEPT !.pc = "write", !.todo = t, !.done = d]
        /\ UNCHANGED vff
    BY <1>2, <1>5 DEF ChunkOver
  <2> HIDE DEF t, S
  <2>4. d \in 0 .. VffSize /\ d + irq.todo[2] = irq.done + Ahead
    BY <1>1, <1>2, <1>3, <1>5, <2>2
  <2> HIDE DEF d
  <2>5. irq' \in [pc : {"off", "take", "write", "check"}, todo : S,
                  done : 0 .. VffSize, receiver : BOOLEAN]
        /\ irq'.pc = "write" /\ irq'.todo = t /\ irq'.done = d
    BY <1>4, <2>1, <2>3, <2>4
  <2>6. irq' \in IrqRecord
    BY <2>5 DEF S, IrqRecord
  <2>7. Ahead' = irq.todo[2] /\ Len(irq'.todo) = 1
    BY <2>1, <2>5 DEF Ahead
  <2>8. irq'.done + Ahead' = irq.done + Ahead
    BY <2>4, <2>5, <2>7
  <2>9. vff.rpt + irq'.done + Ahead' = vff.rpt + irq.done + Ahead
    BY <1>1, <1>2, <1>5, <2>4, <2>5, <2>7, <2>8
  <2>10. Held(vff)' = Held(vff)
    BY <2>3 DEF Held
  <2>11. irq'.done + Ahead' =< Held(vff)' /\ Held(vff)' =< VffSize
    BY <1>1, <1>3, <2>8, <2>10
  <2>12. last' = ((vff'.rpt + irq'.done + Ahead') % Wrap) \div VffSize
    BY <1>3, <2>3, <2>9
  <2>13. vff' \in VffRecord /\ sent' \in Bytes /\ last' \in {0, 1} /\ state' \in {"OFF", "ON"}
    BY <1>1, <1>3, <2>3 DEF VffInd
  <2> QED BY <1>3, <2>5, <2>6, <2>7, <2>11, <2>12, <2>13 DEF VffInd
<1>6. CASE Len(irq.todo) = 1
  <2>1. Ahead = irq.todo[1] /\ d = irq.done + Ahead
    BY <1>6 DEF Ahead
  <2>2. /\ irq' = [irq EXCEPT !.pc = "take", !.todo = <<>>, !.done = 0]
        /\ vff' = [vff EXCEPT !.rpt = (@ + d) % Wrap]
    BY <1>2, <1>6 DEF ChunkOver
  <2>3. d \in 0 .. VffSize /\ d =< Held(vff)
    <3> DEFINE h == Held(vff)
               e == irq.done
               a == Ahead
    <3>1. /\ h \in 0 .. VffSize /\ e \in 0 .. VffSize /\ a \in Nat /\ e + a =< h /\ d = e + a
          /\ VffSize \in Nat
      BY <1>1, <1>2, <1>3, <2>1
    <3> HIDE DEF h, e, a, d
    <3>2. d \in 0 .. VffSize /\ d =< h
      BY <3>1
    <3> QED BY <3>2 DEF h
  <2>4. (vff.rpt + d) % Wrap \in 0 .. Wrap - 1
    BY <1>1, <2>3, Turns
  <2>5. vff' \in VffRecord /\ vff'.rpt = (vff.rpt + d) % Wrap /\ vff'.wpt = vff.wpt
    BY <1>1, <2>2, <2>4 DEF VffRecord
  <2>6. <<>> \in S /\ 0 \in 0 .. VffSize
    BY <1>1
  <2>7. vff.rpt + irq.done + Ahead = vff.rpt + d
    BY <1>1, <1>2, <2>1
  <2> HIDE DEF S, d
  <2>8. irq' \in [pc : {"off", "take", "write", "check"}, todo : S,
                  done : 0 .. VffSize, receiver : BOOLEAN]
        /\ irq'.pc = "take"
    BY <1>4, <2>2, <2>6
  <2>9. irq' \in IrqRecord
    BY <2>8 DEF S, IrqRecord
  <2>10. last' = vff'.rpt \div VffSize
    BY <1>3, <2>5, <2>7
  <2>11. Held(vff)' = Held(vff) - d
    <3> DEFINE w == vff.wpt
               r == vff.rpt
    <3>1. w \in 0 .. Wrap - 1 /\ r \in 0 .. Wrap - 1 /\ d \in 0 .. VffSize
          /\ Held(vff) = (w - r) % Wrap /\ Held(vff)' = (w - ((r + d) % Wrap)) % Wrap
      BY <1>1, <2>3, <2>5 DEF Held
    <3> HIDE DEF w, r
    <3>2. d =< (w - r) % Wrap => (w - ((r + d) % Wrap)) % Wrap = ((w - r) % Wrap) - d
      BY <3>1, HeldMoves
    <3> QED BY <2>3, <3>1, <3>2
  <2>12. Held(vff)' =< VffSize
    BY <1>1, <1>3, <2>3, <2>11
  <2>13. sent' \in Bytes /\ last' \in {0, 1} /\ state' \in {"OFF", "ON"}
    BY <1>3 DEF VffInd
  <2> QED BY <1>3, <2>5, <2>8, <2>9, <2>10, <2>12, <2>13 DEF VffInd
<1> QED BY <1>2, <1>5, <1>6

\* The handler goes to another of its places with the same chunks.
LEMMA VffPlace ==
  ASSUME VffInd, UNCHANGED <<vff, last, sent, state>>,
         NEW p, NEW rc \in BOOLEAN, irq' = [irq EXCEPT !.pc = p, !.receiver = rc],
         \/ irq.pc = "off" /\ p = "take" /\ state # "OFF"
         \/ irq.pc = "write" /\ p = "check"
  PROVE  VffInd'
<1> DEFINE S == Seq(1 .. VffSize)
<1>1. irq \in [pc : {"off", "take", "write", "check"}, todo : S,
               done : 0 .. VffSize, receiver : BOOLEAN]
  BY DEF VffInd, IrqRecord
<1> HIDE DEF S
<1>2. /\ irq' \in [pc : {"off", "take", "write", "check"}, todo : S,
                   done : 0 .. VffSize, receiver : BOOLEAN]
      /\ irq'.pc = p /\ irq'.todo = irq.todo /\ irq'.done = irq.done
  BY <1>1
<1>3. irq' \in IrqRecord
  BY <1>2 DEF S, IrqRecord
<1>4. Ahead' = Ahead /\ Held(vff)' = Held(vff)
  BY <1>2 DEF Ahead, Held
<1>5. CASE irq.pc = "off" /\ p = "take" /\ state # "OFF"
  BY <1>2, <1>3, <1>4, <1>5 DEF VffInd
<1>6. CASE irq.pc = "write" /\ p = "check"
  BY <1>2, <1>3, <1>4, <1>6 DEF VffInd
<1> QED BY <1>5, <1>6

\* The handler stands where it holds nothing, or ends.
IrqStill ==
  /\ irq.pc \in {"off", "take"} /\ sent' = sent
  /\ irq' = irq \/ irq' = NotRunning
  /\ state' = "ON" \/ state' = state \/ (irq.pc = "off" /\ state' = "OFF")
\* RPT and WPT stay, or are reset together with the wrap bit.
VffStill ==
  \/ UNCHANGED last /\ vff' = vff
  \/ UNCHANGED last /\ vff' = [vff EXCEPT !.receiver = FALSE]
  \/ last' = 0 /\ vff' = [vff EXCEPT !.wpt = 0, !.rpt = 0, !.receiver = TRUE]

\* Then nothing is kept but the wrap bit, and the invariant holds on.
LEMMA VffOff ==
  ASSUME VffInd, IrqStill, VffStill
  PROVE  VffInd'
<1>1. /\ VffSize \in Nat \ {0} /\ Wrap = 2 * VffSize
      /\ vff.wpt \in 0 .. Wrap - 1 /\ vff.rpt \in 0 .. Wrap - 1
      /\ vff \in VffRecord /\ irq \in IrqRecord /\ 0 \in 0 .. Wrap - 1
  BY BtifAssumption DEF Wrap, VffInd, VffRecord
<1>2. /\ irq' \in IrqRecord /\ irq'.pc \in {"off", "take"} /\ (irq.pc = "off" => irq'.pc = "off")
  <2>1. NotRunning \in IrqRecord /\ NotRunning.pc = "off"
    BY <1>1 DEF NotRunning, IrqRecord
  <2> QED BY <1>1, <2>1 DEF IrqStill
<1>3. /\ vff' \in VffRecord /\ Held(vff)' =< VffSize /\ last' \in {0, 1}
      /\ last' = vff'.rpt \div VffSize
  <2>1. CASE UNCHANGED last /\ vff' = vff
    BY <1>1, <2>1 DEF VffInd, Held, IrqStill
  <2>2. CASE UNCHANGED last /\ vff' = [vff EXCEPT !.receiver = FALSE]
    <3>1. vff' \in VffRecord /\ vff'.wpt = vff.wpt /\ vff'.rpt = vff.rpt
      BY <1>1, <2>2 DEF VffRecord
    <3> QED BY <2>2, <3>1 DEF VffInd, Held, IrqStill
  <2>3. CASE last' = 0 /\ vff' = [vff EXCEPT !.wpt = 0, !.rpt = 0, !.receiver = TRUE]
    <3>1. vff' \in VffRecord /\ vff'.wpt = 0 /\ vff'.rpt = 0
      BY <1>1, <2>3 DEF VffRecord
    <3>2. (0 - 0) % Wrap = 0 - 0 /\ 0 \div VffSize = 0
      BY <1>1, Turns, Bit
    <3>3. Held(vff)' = 0
      BY <3>1, <3>2 DEF Held
    <3> QED BY <1>1, <2>3, <3>1, <3>2, <3>3
  <2> QED BY <2>1, <2>2, <2>3 DEF VffStill
<1>4. state' \in {"OFF", "ON"} /\ (state' = "OFF" => irq'.pc = "off")
  BY <1>2 DEF VffInd, IrqStill
<1>5. sent' \in Bytes
  BY DEF VffInd, IrqStill
<1> QED BY <1>2, <1>3, <1>4, <1>5 DEF VffInd

\* Every step keeps the invariant of the FIFO.
LEMMA VffStep == VffInd /\ Life /\ [Next]_vars => VffInd'
<1> SUFFICES ASSUME VffInd, Life, [Next]_vars PROVE VffInd'
  OBVIOUS
<1>1. CASE ChipSends
  BY <1>1, VffChipSends
<1>2. CASE IrqTake
  BY <1>2, VffIrqTake
<1>3. CASE IrqWrite
  <2>1. irq.pc = "write" /\ UNCHANGED <<last, state, sent>>
    BY <1>3 DEF IrqWrite, lifeVars
  <2>2. ChunkOver \/ (irq' = [irq EXCEPT !.pc = "check"] /\ UNCHANGED vff)
    BY <1>3 DEF IrqWrite
  <2>3. CASE ChunkOver
    BY <2>1, <2>3, VffChunkOver
  <2>4. CASE irq' = [irq EXCEPT !.pc = "check"] /\ UNCHANGED vff
    <3>1. irq.receiver \in BOOLEAN /\ irq' = [irq EXCEPT !.pc = "check", !.receiver = irq.receiver]
      BY <2>4 DEF VffInd, IrqRecord
    <3> QED BY <2>1, <2>4, <3>1, VffPlace
  <2> QED BY <2>2, <2>3, <2>4
<1>4. CASE IrqCheck
  <2>1. irq.pc = "check" /\ ChunkOver /\ UNCHANGED <<last, state, sent>>
    BY <1>4 DEF IrqCheck, lifeVars
  <2> QED BY <2>1, VffChunkOver
<1>5. CASE Interrupt
  <2>1. /\ irq.pc = "off" /\ state # "OFF" /\ UNCHANGED <<vff, last, sent, state>>
        /\ irq' = [irq EXCEPT !.pc = "take", !.receiver = vff.receiver]
    BY <1>5 DEF Interrupt, lifeVars
  <2>2. vff.receiver \in BOOLEAN
    BY DEF VffInd, VffRecord
  <2> QED BY <2>1, <2>2, VffPlace
<1>6. CASE IrqEnd
  <2>1. /\ irq.pc = "take" /\ irq' = NotRunning /\ NotRunning.pc = "off"
        /\ UNCHANGED <<vff, last, sent, state>>
    BY <1>6 DEF IrqEnd, NotRunning, lifeVars
  <2>2. IrqStill /\ VffStill
    BY <2>1 DEF IrqStill, VffStill
  <2> QED BY <2>2, VffOff
<1>7. CASE Open \/ WriterSends
  <2>1. \/ /\ state = "OFF" /\ state' = "ON" /\ last' = 0 /\ UNCHANGED <<irq, sent>>
           /\ vff' = [vff EXCEPT !.wpt = 0, !.rpt = 0, !.receiver = TRUE]
        \/ UNCHANGED <<vff, last, irq, state, sent>>
    BY <1>7 DEF Open, WriterSends, SetUp
  <2>2. state = "OFF" => irq.pc = "off"
    BY DEF VffInd
  <2>3. CASE UNCHANGED <<vff, last, irq, state, sent>>
    BY <2>3, VffIdle
  <2>4. CASE /\ state = "OFF" /\ state' = "ON" /\ last' = 0 /\ UNCHANGED <<irq, sent>>
             /\ vff' = [vff EXCEPT !.wpt = 0, !.rpt = 0, !.receiver = TRUE]
    <3>1. IrqStill /\ VffStill
      BY <2>2, <2>4 DEF IrqStill, VffStill
    <3> QED BY <3>1, VffOff
  <2> QED BY <2>1, <2>3, <2>4
<1>8. CASE Close
  <2>1. UNCHANGED <<last, irq, state, sent>> /\ vff' = [vff EXCEPT !.receiver = FALSE]
    BY <1>8 DEF Close
  <2>2. CASE irq.pc \in {"off", "take"}
    <3>1. IrqStill /\ VffStill
      BY <2>1, <2>2 DEF IrqStill, VffStill
    <3> QED BY <3>1, VffOff
  <2>3. CASE irq.pc \in {"write", "check"}
    <3>1. vff' \in VffRecord /\ vff'.wpt = vff.wpt /\ vff'.rpt = vff.rpt
      BY <2>1 DEF VffInd, VffRecord
    <3>2. Held(vff)' = Held(vff) /\ Ahead' = Ahead
      BY <2>1, <3>1 DEF Held, Ahead
    <3> QED BY <2>1, <2>3, <3>1, <3>2 DEF VffInd
  <2>4. irq.pc \in {"off", "take", "write", "check"}
    BY DEF VffInd, IrqRecord
  <2> QED BY <2>2, <2>3, <2>4
<1>9. CASE CloseEnd
  <2>1. irq.pc = "off" /\ state' = "OFF" /\ UNCHANGED <<vff, last, irq, sent>>
    BY <1>9 DEF CloseEnd, StateAfterClose, irqVars
  <2>2. IrqStill /\ VffStill
    BY <2>1 DEF IrqStill, VffStill
  <2> QED BY <2>2, VffOff
<1>10. CASE RegisterCb \/ WriterFinds \/ RxThread \/ UNCHANGED vars
  <2>1. UNCHANGED <<vff, last, irq, state, sent>>
    BY <1>10 DEF RegisterCb, WriterFinds, RxThread, Wake, Look, Hand, Rest, Advance,
                 vars, lifeVars, irqVars
  <2> QED BY <2>1, VffIdle
<1> QED BY <1>1, <1>2, <1>3, <1>4, <1>5, <1>6, <1>7, <1>8, <1>9, <1>10 DEF Next, Handler

-----------------------------------------------------------------------------
(* The ring. *)

Place == 0 .. Size - 1
ConRecord == [pc : {"wait", "look", "hand", "rest", "advance", "crashed"},
              wr : Place, tail : 0 .. Size]
InPass == {"hand", "rest", "advance"}

RingType == rd \in Place /\ wr \in Place /\ hurt \in BOOLEAN /\ con \in ConRecord

\* Below the limit but for the chunk just written.
BelowLimit == ~hurt /\ irq.pc # "check" => Count < MaxPending

\* What the pass of btif_rxd takes is part of what the ring holds, and the part
\* at its end is what it has just handed over.
PassInRing ==
  /\ ~hurt /\ con.pc \in InPass => CountTo(con.wr) =< Count
  /\ ~hurt /\ con.pc = "rest" => con.tail = Size - rd /\ con.wr < rd

RingInd == RingType /\ BelowLimit /\ PassInRing

\* The invariants say what is wanted.
LEMMA IndSound == RingInd /\ VffInd => RingSound
<1> SUFFICES ASSUME RingInd, VffInd, ~hurt PROVE ChunkFits /\ RestInRing
  BY DEF RingSound
<1>1. /\ Size \in Nat /\ MaxPending \in Nat /\ VffSize \in Nat /\ MaxPending + VffSize =< Size
      /\ rd \in Nat /\ wr \in Nat /\ rd < Size /\ wr < Size
      /\ con.wr \in Nat /\ con.wr < Size
  BY BtifAssumption DEF RingInd, RingType, Place, ConRecord
<1>2. ChunkFits
  <2> SUFFICES ASSUME irq.pc = "write" PROVE Head(irq.todo) =< Free
    BY DEF ChunkFits
  <2>1. Head(irq.todo) \in 1 .. VffSize
    BY Todo
  <2>2. Count \in Int /\ Count < MaxPending
    BY <1>1 DEF RingInd, BelowLimit, Count, CountTo
  <2> QED BY <1>1, <2>1, <2>2 DEF Free
<1>3. RestInRing
  <2> SUFFICES ASSUME con.pc = "rest" PROVE CountTo(con.wr) = con.tail + con.wr
    BY DEF RestInRing
  <2>1. con.tail = Size - rd /\ con.wr < rd
    BY DEF RingInd, PassInRing
  <2> QED BY <1>1, <2>1 DEF CountTo
<1> QED BY <1>2, <1>3

\* Places and sizes are numbers.
LEMMA RingNumbers ==
  ASSUME RingType
  PROVE  /\ Size \in Nat \ {0} /\ MaxPending \in Nat \ {0} /\ VffSize \in Nat \ {0}
         /\ MaxPending + VffSize =< Size
         /\ rd \in Nat /\ wr \in Nat /\ rd < Size /\ wr < Size
         /\ con.wr \in Nat /\ con.wr < Size /\ con \in ConRecord
         /\ Count \in Nat /\ Count < Size /\ CountTo(con.wr) \in Nat
<1>1. /\ Size \in Nat \ {0} /\ MaxPending \in Nat \ {0} /\ VffSize \in Nat \ {0}
      /\ MaxPending + VffSize =< Size
      /\ rd \in Nat /\ wr \in Nat /\ rd < Size /\ wr < Size
      /\ con.wr \in Nat /\ con.wr < Size /\ con \in ConRecord
  BY BtifAssumption DEF RingType, Place, ConRecord
<1>2. Count \in Nat /\ Count < Size /\ CountTo(con.wr) \in Nat
  BY <1>1 DEF Count, CountTo
<1> QED BY <1>1, <1>2

\* Init establishes the invariant of the ring.
LEMMA RingInit == Init => RingInd
<1> SUFFICES ASSUME Init PROVE RingInd
  OBVIOUS
<1>1. rd = 0 /\ wr = 0 /\ hurt = FALSE /\ con = Asleep
  BY DEF Init
<1>2. Size \in Nat \ {0} /\ MaxPending \in Nat \ {0} /\ MaxPending =< Size
  BY BtifAssumption
<1>3. con \in ConRecord /\ con.pc = "wait"
  BY <1>1, <1>2 DEF Asleep, ConRecord, Place
<1>4. Count = 0
  BY <1>1 DEF Count, CountTo
<1>5. RingType
  <2>1. 0 \in Place
    BY <1>2 DEF Place
  <2>2. hurt \in BOOLEAN
    BY <1>1, Zenon
  <2> QED BY <1>1, <1>3, <2>1, <2>2 DEF RingType
<1>6. BelowLimit
  BY <1>2, <1>4 DEF BelowLimit
<1>7. PassInRing
  BY <1>3 DEF PassInRing, InPass
<1> QED BY <1>5, <1>6, <1>7 DEF RingInd

\* An empty ring: reset, it is whole unless btif_rxd is in the middle of a pass.
LEMMA RingReset ==
  ASSUME RingInd, ResetRing, UNCHANGED con
  PROVE  RingInd'
<1>1. rd' = 0 /\ wr' = 0 /\ (hurt' <=> con.pc \in InPass) /\ hurt' \in BOOLEAN /\ con' = con
  <2>1. rd' = 0 /\ wr' = 0 /\ con' = con /\ hurt' = (con.pc \in InPass)
    BY Zenon DEF ResetRing, InPass
  <2>2. (con.pc \in InPass) \in BOOLEAN
    OBVIOUS
  <2>3. hurt' \in BOOLEAN
    BY <2>1, <2>2, Zenon
  <2>4. hurt' <=> con.pc \in InPass
    BY <2>1, Zenon
  <2> QED BY <2>1, <2>3, <2>4
<1>2. Size \in Nat \ {0} /\ MaxPending \in Nat \ {0}
  BY BtifAssumption
<1>3. RingType'
  BY <1>1, <1>2 DEF RingInd, RingType, Place
<1>4. Count' = 0
  BY <1>1 DEF Count, CountTo
<1>5. BelowLimit'
  BY <1>2, <1>4 DEF BelowLimit
<1>6. PassInRing'
  <2>1. ~hurt' => ~(con'.pc \in InPass) /\ con'.pc # "rest"
    BY <1>1 DEF InPass
  <2> QED BY <2>1 DEF PassInRing
<1> QED BY <1>3, <1>5, <1>6 DEF RingInd

\* Neither the ring nor the pass moves, and no chunk is dropped from the check.
LEMMA RingIdle ==
  ASSUME RingInd, UNCHANGED <<rd, wr, hurt, con>>, irq'.pc = "check" \/ irq.pc # "check"
  PROVE  RingInd'
<1>1. Count' = Count /\ CountTo(con.wr)' = CountTo(con.wr)
  BY DEF Count, CountTo
<1> QED BY <1>1 DEF RingInd, RingType, BelowLimit, PassInRing

\* A chunk is written: it fits, unless the ring is hurt.
LEMMA RingIrqWrite == RingInd /\ VffInd /\ IrqWrite => RingInd'
<1> SUFFICES ASSUME RingInd, VffInd, IrqWrite PROVE RingInd'
  OBVIOUS
<1> DEFINE c == Head(irq.todo)
           n == IF c =< Free THEN c ELSE Free
<1>1. RingType /\ irq.pc = "write" /\ UNCHANGED <<rd, hurt, con>> /\ wr' = (wr + n) % Size
  BY DEF RingInd, IrqWrite, conVars
<1>2. /\ Size \in Nat \ {0} /\ MaxPending \in Nat \ {0} /\ VffSize \in Nat \ {0}
      /\ MaxPending + VffSize =< Size
      /\ rd \in Nat /\ wr \in Nat /\ rd < Size /\ wr < Size
      /\ Count \in Nat /\ Count < Size
      /\ con.wr \in Nat /\ CountTo(con.wr) \in Nat
  BY <1>1, RingNumbers
<1>3. c \in 1 .. VffSize
  BY <1>1, Todo
<1>4. Free = Size - Count - 1
  BY DEF Free
<1>5. n \in Nat /\ n =< Free /\ wr + n \in 0 .. 2 * Size - 1
  BY <1>2, <1>3, <1>4
<1>6. wr' \in Place /\ wr' = IF wr + n < Size THEN wr + n ELSE wr + n - Size
  <2> HIDE DEF c, n
  <2>1. n \in 0 .. Size - 1 /\ wr \in 0 .. Size - 1
    BY <1>2, <1>4, <1>5
  <2> QED BY <1>1, <2>1, Forth DEF Place
<1>7. RingType'
  BY <1>1, <1>6 DEF RingInd, RingType
<1>8. CASE hurt
  BY <1>1, <1>7, <1>8 DEF RingInd, BelowLimit, PassInRing
<1>9. CASE ~hurt
  <2>1. Count < MaxPending /\ c =< Free /\ Free > 0
    BY <1>1, <1>2, <1>3, <1>4, <1>9 DEF RingInd, BelowLimit
  <2>2. irq'.pc = "check"
    <3>1. irq' = [irq EXCEPT !.pc = "check"] /\ irq \in IrqRecord
      BY <1>2, <1>4, <2>1 DEF IrqWrite, VffInd
    <3> QED BY <3>1 DEF IrqRecord
  <2>3. Count' = Count + n
    <3> HIDE DEF n, c
    <3>1. Count = IF wr >= rd THEN wr - rd ELSE Size - (rd - wr)
      BY DEF Count, CountTo
    <3>2. Count' = IF wr' >= rd THEN wr' - rd ELSE Size - (rd - wr')
      BY <1>1 DEF Count, CountTo
    <3> QED BY <1>2, <1>4, <1>5, <1>6, <3>1, <3>2
  <2>4. CountTo(con.wr)' = CountTo(con.wr)
    BY <1>1 DEF CountTo
  <2>5. PassInRing'
    BY <1>1, <1>2, <1>5, <2>3, <2>4 DEF RingInd, PassInRing
  <2> QED BY <1>7, <2>2, <2>5 DEF RingInd, BelowLimit
<1> QED BY <1>8, <1>9

\* The end of btif_bbs_write(): the ring is below the limit, or reset.
LEMMA RingIrqCheck == RingInd /\ IrqCheck => RingInd'
<1> SUFFICES ASSUME RingInd, IrqCheck PROVE RingInd'
  OBVIOUS
<1>1. UNCHANGED con /\ (ResetRing \/ (~TooMuch /\ UNCHANGED <<rd, wr, hurt>>))
  BY DEF IrqCheck, conVars, ringVars
<1>2. CASE ResetRing
  BY <1>1, <1>2, RingReset
<1>3. CASE ~TooMuch /\ UNCHANGED <<rd, wr, hurt>>
  <2>1. Count' = Count /\ CountTo(con.wr)' = CountTo(con.wr)
    BY <1>1, <1>3 DEF Count, CountTo
  <2>2. Count < MaxPending
    <3>1. Count \in Nat /\ MaxPending \in Nat
      BY RingNumbers DEF RingInd
    <3> QED BY <1>3, <3>1 DEF TooMuch
  <2> QED BY <1>1, <1>3, <2>1, <2>2 DEF RingInd, RingType, BelowLimit, PassInRing
<1> QED BY <1>1, <1>2, <1>3

\* A place that is WholeFrom is one below the limit.
LEMMA WholeIsBelow ==
  ASSUME RingType, NEW a \in Place, WholeFrom(a)
  PROVE  (wr - a) % Size < MaxPending
BY DEF WholeFrom

\* btif_rxd wakes up, looks at wr_idx, hands over what there is.
LEMMA RingPass == RingInd /\ (Wake \/ Look \/ Hand \/ Rest) => RingInd'
<1> SUFFICES ASSUME RingInd, Wake \/ Look \/ Hand \/ Rest PROVE RingInd'
  OBVIOUS
<1>1. /\ Size \in Nat \ {0} /\ MaxPending \in Nat \ {0}
      /\ rd \in Nat /\ wr \in Nat /\ rd < Size /\ wr < Size
      /\ con.wr \in Nat /\ con.wr < Size /\ con \in ConRecord
      /\ Count \in Nat /\ CountTo(con.wr) \in Nat
      /\ rd \in Place /\ wr \in Place /\ hurt \in BOOLEAN
  BY RingNumbers DEF RingInd, RingType
<1>2. UNCHANGED <<rd, wr, irq>> /\ Count' = Count
  BY DEF Wake, Look, Hand, Rest, ringVars, irqVars, Count, CountTo
<1>3. CASE Wake
  <2>1. UNCHANGED hurt /\ con' \in ConRecord /\ con'.pc = "look"
    BY <1>1, <1>3 DEF Wake, ConRecord
  <2> QED BY <1>2, <2>1 DEF RingInd, RingType, BelowLimit, PassInRing, InPass
<1>4. CASE Look
  <2>1. UNCHANGED hurt /\ con' \in ConRecord /\ con'.pc = "hand" /\ con'.wr = wr
    BY <1>1, <1>4 DEF Look, ConRecord
  <2>2. CountTo(con.wr)' = Count
    BY <1>2, <2>1 DEF CountTo, Count
  <2> QED BY <1>1, <1>2, <2>1, <2>2 DEF RingInd, RingType, BelowLimit, PassInRing
<1>5. CASE Hand
  <2>1. \/ con' = Asleep /\ hurt' = (hurt /\ ~WholeFrom(rd))
        \/ con' = [con EXCEPT !.pc = "advance"] /\ hurt' = hurt
        \/ rd > con.wr /\ con' = [con EXCEPT !.pc = "rest", !.tail = Size - rd] /\ hurt' = hurt
    BY <1>5 DEF Hand
  <2>2. CASE con' = Asleep /\ hurt' = (hurt /\ ~WholeFrom(rd))
    <3>1. con' \in ConRecord /\ con'.pc = "wait"
      BY <1>1, <2>2 DEF Asleep, ConRecord, Place
    <3>2. hurt' \in BOOLEAN /\ (hurt' <=> hurt /\ ~WholeFrom(rd))
      BY <2>2
    <3>3. (wr - rd) % Size = Count
      BY <1>1, Back DEF Count, CountTo, Place
    <3>4. BelowLimit'
      BY <1>1, <1>2, <3>2, <3>3, WholeIsBelow DEF RingInd, BelowLimit
    <3> QED BY <1>1, <1>2, <3>1, <3>2, <3>4 DEF RingInd, RingType, PassInRing, InPass
  <2>3. CASE con' = [con EXCEPT !.pc = "advance"] /\ hurt' = hurt
    <3>1. con' \in ConRecord /\ con'.pc = "advance" /\ con'.wr = con.wr
      BY <1>1, <2>3 DEF ConRecord
    <3>2. CountTo(con.wr)' = CountTo(con.wr) /\ con.pc = "hand"
      BY <1>2, <1>5, <3>1 DEF CountTo, Hand
    <3> QED BY <1>1, <1>2, <2>3, <3>1, <3>2 DEF RingInd, RingType, BelowLimit, PassInRing, InPass
  <2>4. CASE /\ rd > con.wr /\ con' = [con EXCEPT !.pc = "rest", !.tail = Size - rd]
             /\ hurt' = hurt
    <3>1. /\ con' \in ConRecord /\ con'.pc = "rest" /\ con'.wr = con.wr
          /\ con'.tail = Size - rd
      <4>1. Size - rd \in 0 .. Size
        BY <1>1
      <4> QED BY <1>1, <2>4, <4>1 DEF ConRecord
    <3>2. CountTo(con.wr)' = CountTo(con.wr) /\ con.pc = "hand"
      BY <1>2, <1>5, <3>1 DEF CountTo, Hand
    <3> QED BY <1>1, <1>2, <2>4, <3>1, <3>2 DEF RingInd, RingType, BelowLimit, PassInRing, InPass
  <2> QED BY <2>1, <2>2, <2>3, <2>4
<1>6. CASE Rest
  <2>1. /\ con.pc = "rest" /\ hurt' = hurt
        /\ con' = [con EXCEPT !.pc = "advance"] \/ con' = [con EXCEPT !.pc = "crashed"]
    BY <1>6 DEF Rest
  <2>2. /\ con' \in ConRecord /\ con'.pc \in {"advance", "crashed"} /\ con'.wr = con.wr
    BY <1>1, <2>1 DEF ConRecord
  <2>3. CountTo(con.wr)' = CountTo(con.wr)
    BY <1>2, <2>2 DEF CountTo
  <2> QED BY <1>1, <1>2, <2>1, <2>2, <2>3 DEF RingInd, RingType, BelowLimit, PassInRing, InPass
<1> QED BY <1>3, <1>4, <1>5, <1>6

\* rd_idx goes where the pass has handed over to.
LEMMA RingAdvance == RingInd /\ Advance => RingInd'
<1> SUFFICES ASSUME RingInd, Advance PROVE RingInd'
  OBVIOUS
<1>1. /\ Size \in Nat \ {0} /\ MaxPending \in Nat \ {0}
      /\ rd \in Nat /\ wr \in Nat /\ rd < Size /\ wr < Size
      /\ con.wr \in Nat /\ con.wr < Size /\ con \in ConRecord
      /\ Count \in Nat /\ CountTo(con.wr) \in Nat
      /\ con.wr \in Place /\ wr \in Place /\ hurt \in BOOLEAN
  BY RingNumbers DEF RingInd, RingType, Place
<1>2. /\ con.pc = "advance" /\ rd' = con.wr /\ con' = [Asleep EXCEPT !.pc = "look"]
      /\ UNCHANGED <<wr, irq>> /\ hurt' \in BOOLEAN /\ (hurt' <=> hurt /\ ~WholeFrom(con.wr))
  BY DEF Advance, NewReadIdx, irqVars
<1>3. con' \in ConRecord /\ con'.pc = "look"
  BY <1>1, <1>2 DEF Asleep, ConRecord, Place
<1>4. Count' = IF wr >= con.wr THEN wr - con.wr ELSE Size - (con.wr - wr)
  BY <1>2 DEF Count, CountTo
<1>5. BelowLimit'
  <2> SUFFICES ASSUME ~hurt', irq'.pc # "check" PROVE Count' < MaxPending
    BY DEF BelowLimit
  <2>1. CASE hurt
    <3>1. (wr - con.wr) % Size < MaxPending
      BY <1>1, <1>2, <2>1, WholeIsBelow DEF RingInd
    <3> QED BY <1>1, <1>4, <3>1, Back DEF Place
  <2>2. CASE ~hurt
    <3>1. Count < MaxPending /\ CountTo(con.wr) =< Count
      BY <1>2, <2>2 DEF RingInd, BelowLimit, PassInRing, InPass
    <3>2. Count = IF wr >= rd THEN wr - rd ELSE Size - (rd - wr)
      BY DEF Count, CountTo
    <3>3. CountTo(con.wr) = IF con.wr >= rd THEN con.wr - rd ELSE Size - (rd - con.wr)
      BY DEF CountTo
    <3> QED BY <1>1, <1>4, <3>1, <3>2, <3>3
  <2> QED BY <2>1, <2>2
<1> QED BY <1>1, <1>2, <1>3, <1>5 DEF RingInd, RingType, PassInRing, InPass

\* Every step keeps the invariant of the ring.
LEMMA RingStep == RingInd /\ VffInd /\ [Next]_vars => RingInd'
<1> SUFFICES ASSUME RingInd, VffInd, [Next]_vars PROVE RingInd'
  OBVIOUS
<1>1. CASE IrqWrite
  BY <1>1, RingIrqWrite
<1>2. CASE IrqCheck
  BY <1>2, RingIrqCheck
<1>3. CASE Wake \/ Look \/ Hand \/ Rest
  BY <1>3, RingPass
<1>4. CASE Advance
  BY <1>4, RingAdvance
<1>5. CASE Open \/ WriterSends
  <2>1. UNCHANGED <<con, irq>> /\ (ResetRing \/ UNCHANGED <<rd, wr, hurt>>)
    BY <1>5 DEF Open, WriterSends, SetUp, conVars
  <2> QED BY <2>1, RingReset, RingIdle
<1>6. CASE ChipSends \/ Interrupt \/ IrqTake \/ IrqEnd \/ RegisterCb \/ Close \/ CloseEnd
           \/ WriterFinds \/ UNCHANGED vars
  <2>1. UNCHANGED <<rd, wr, hurt, con>>
    BY <1>6 DEF ChipSends, Interrupt, IrqTake, IrqEnd, RegisterCb, Close, CloseEnd,
                WriterFinds, vars, lifeVars, irqVars, ringVars, conVars
  <2>2. irq.pc # "check" \/ UNCHANGED irq
    BY <1>6 DEF ChipSends, Interrupt, IrqTake, IrqEnd, RegisterCb, Close, CloseEnd,
                WriterFinds, vars, irqVars
  <2> QED BY <2>1, <2>2, RingIdle
<1> QED BY <1>1, <1>2, <1>3, <1>4, <1>5, <1>6 DEF Next, Handler, RxThread

\* For every size of ring and virtual FIFO, as long as a chunk fits beside what
\* may be pending: btif_bbs_write() never cuts a chunk, and the second call of a
\* pass of btif_rxd never gets a length below zero, unless the ring was reset
\* under btif_rxd.
THEOREM RingAlwaysSound == Spec => []RingSound
<1>1. Init => Life /\ VffInd /\ RingInd
  BY LifeInit, VffInit, RingInit
<1>2. Life /\ VffInd /\ RingInd /\ [Next]_vars => Life' /\ VffInd' /\ RingInd'
  BY LifeStep, VffStep, RingStep
<1>3. RingInd /\ VffInd => RingSound
  BY IndSound
<1> QED BY <1>1, <1>2, <1>3, PTL DEF Spec

-----------------------------------------------------------------------------
(* What the handler has copied. *)

\* What of the FIFO's content is not yet in the ring, and the number of the last
\* byte that is, or was to be.
Left == Held(vff) - irq.done - (IF irq.pc = "check" THEN Head(irq.todo) ELSE 0)
Copied == sent - Left

\* Between two passes nothing is half done, and a handler that finds no receiver
\* runs while wmtd closes: before it was removed rx_cb was taken away.
HandlerInd ==
  /\ irq.pc \in {"off", "take"} => irq.done = 0
  /\ state = "ON" /\ ~vff.receiver => wmt = "closing"
  /\ wmt = "closing" => ~vff.receiver
  /\ irq.pc # "off" /\ ~irq.receiver => wmt = "closing"

\* The fields of the handler's record after each kind of update.
LEMMA IrqFields ==
  ASSUME irq \in IrqRecord, NEW p, NEW t, NEW d, NEW c
  PROVE  /\ [irq EXCEPT !.pc = p].pc = p
         /\ [irq EXCEPT !.pc = p].todo = irq.todo
         /\ [irq EXCEPT !.pc = p].done = irq.done
         /\ [irq EXCEPT !.pc = p].receiver = irq.receiver
         /\ [irq EXCEPT !.pc = p, !.receiver = c].pc = p
         /\ [irq EXCEPT !.pc = p, !.receiver = c].todo = irq.todo
         /\ [irq EXCEPT !.pc = p, !.receiver = c].done = irq.done
         /\ [irq EXCEPT !.pc = p, !.receiver = c].receiver = c
         /\ [irq EXCEPT !.pc = p, !.todo = t, !.done = d].pc = p
         /\ [irq EXCEPT !.pc = p, !.todo = t, !.done = d].todo = t
         /\ [irq EXCEPT !.pc = p, !.todo = t, !.done = d].done = d
         /\ [irq EXCEPT !.pc = p, !.todo = t, !.done = d].receiver = irq.receiver
         /\ irq.pc \in {"off", "take", "write", "check"}
<1> DEFINE S == Seq(1 .. VffSize)
<1>1. irq \in [pc : {"off", "take", "write", "check"}, todo : S,
               done : 0 .. VffSize, receiver : BOOLEAN]
  BY DEF IrqRecord
<1> HIDE DEF S
<1> QED BY <1>1

\* The same of the engine's record.
LEMMA VffFields ==
  ASSUME vff \in VffRecord, NEW x, NEW y, NEW i
  PROVE  /\ [vff EXCEPT !.rpt = x].rpt = x
         /\ [vff EXCEPT !.rpt = x].wpt = vff.wpt
         /\ [vff EXCEPT !.rpt = x].mem = vff.mem
         /\ [vff EXCEPT !.rpt = x].receiver = vff.receiver
         /\ [vff EXCEPT !.receiver = x].rpt = vff.rpt
         /\ [vff EXCEPT !.receiver = x].wpt = vff.wpt
         /\ [vff EXCEPT !.receiver = x].mem = vff.mem
         /\ [vff EXCEPT !.receiver = x].receiver = x
         /\ [vff EXCEPT !.wpt = 0, !.rpt = 0, !.receiver = TRUE].rpt = 0
         /\ [vff EXCEPT !.wpt = 0, !.rpt = 0, !.receiver = TRUE].wpt = 0
         /\ [vff EXCEPT !.wpt = 0, !.rpt = 0, !.receiver = TRUE].mem = vff.mem
         /\ [vff EXCEPT !.wpt = 0, !.rpt = 0, !.receiver = TRUE].receiver
         /\ [vff EXCEPT !.mem[i] = x, !.wpt = y].rpt = vff.rpt
         /\ [vff EXCEPT !.mem[i] = x, !.wpt = y].wpt = y
         /\ [vff EXCEPT !.mem[i] = x, !.wpt = y].mem = [vff.mem EXCEPT ![i] = x]
         /\ [vff EXCEPT !.mem[i] = x, !.wpt = y].receiver = vff.receiver
<1> DEFINE M == [0 .. VffSize - 1 -> Bytes]
<1>1. vff \in [mem : M, wpt : 0 .. Wrap - 1, rpt : 0 .. Wrap - 1, receiver : BOOLEAN]
  BY DEF VffRecord
<1> HIDE DEF M
<1> QED BY <1>1

\* What the FIFO holds, as a number.
LEMMA HeldIs ==
  ASSUME VffInd
  PROVE  /\ VffSize \in Nat \ {0} /\ Wrap = 2 * VffSize
         /\ vff.wpt \in 0 .. Wrap - 1 /\ vff.rpt \in 0 .. Wrap - 1
         /\ vff \in VffRecord /\ irq \in IrqRecord
         /\ Held(vff) \in Nat /\ Held(vff) =< VffSize
         /\ Held(vff) = (vff.wpt - vff.rpt) % Wrap
         /\ (vff.rpt + Held(vff)) % Wrap = vff.wpt
         /\ Held(vff) = 0 <=> vff.rpt = vff.wpt
<1> DEFINE w == vff.wpt
           r == vff.rpt
           h == Held(vff)
<1>1. /\ VffSize \in Nat \ {0} /\ Wrap = 2 * VffSize
      /\ w \in 0 .. Wrap - 1 /\ r \in 0 .. Wrap - 1
      /\ vff \in VffRecord /\ irq \in IrqRecord
      /\ h =< VffSize /\ h = (w - r) % Wrap
  BY BtifAssumption DEF Wrap, VffInd, VffRecord, Held
<1> HIDE DEF w, r, h
<1>2. 0 \in 0 .. VffSize /\ h \in 0 .. Wrap - 1 /\ (h = 0 => w = r)
  <2>1. 0 \in 0 .. VffSize
    BY <1>1
  <2> QED BY <1>1, <2>1, HeldMoves
<1>3. h \in 0 .. VffSize /\ h \in Nat
  BY <1>1, <1>2
<1>4. (r + h) % Wrap = w
  BY <1>1, <1>3, HeldMoves
<1>5. w = r => h = 0
  <2>1. (w - r) % Wrap = IF w >= r THEN w - r ELSE w - r + Wrap
    BY <1>1, Turns
  <2> QED BY <1>1, <2>1
<1> QED BY <1>1, <1>2, <1>3, <1>4, <1>5 DEF w, r, h

\* What is left to copy, by the place of the handler.
LEMMA LeftIs ==
  ASSUME VffInd, HandlerInd
  PROVE  /\ Left \in Nat /\ Left =< Held(vff)
         /\ irq.pc \in {"off", "take"} => Left = Held(vff)
         /\ irq.pc = "write" => Left = Held(vff) - irq.done /\ Head(irq.todo) =< Left
         /\ irq.pc = "check" => Left = Held(vff) - irq.done - Head(irq.todo)
         /\ irq.pc \in {"write", "check"} =>
              /\ irq.done \in Nat /\ Head(irq.todo) \in 1 .. VffSize
              /\ irq.done + Head(irq.todo) =< Held(vff)
<1> DEFINE h == Held(vff)
           c == Head(irq.todo)
<1>1. VffSize \in Nat \ {0} /\ h \in Nat /\ irq.pc \in {"off", "take", "write", "check"}
  BY HeldIs, IrqFields
<1>2. ASSUME irq.pc \in {"write", "check"}
      PROVE  irq.done \in Nat /\ c \in 1 .. VffSize /\ irq.done + c =< h
  <2>1. /\ irq.done \in 0 .. VffSize /\ c = irq.todo[1] /\ c \in 1 .. VffSize
        /\ Len(irq.todo) = 2 => irq.todo[2] \in 1 .. VffSize
    BY <1>2, Todo
  <2>2. Len(irq.todo) \in {1, 2} /\ irq.done + Ahead =< h
    BY <1>2 DEF VffInd
  <2>3. Ahead = IF Len(irq.todo) = 1 THEN c ELSE c + irq.todo[2]
    BY <2>1 DEF Ahead
  <2> HIDE DEF h, c
  <2> QED BY <1>1, <2>1, <2>2, <2>3
<1>3. irq.pc \in {"off", "take"} => irq.done = 0
  BY DEF HandlerInd
<1>4. Left = h - irq.done - (IF irq.pc = "check" THEN c ELSE 0)
  BY DEF Left
<1> HIDE DEF h, c
<1>5. CASE irq.pc \in {"off", "take"}
  BY <1>1, <1>3, <1>4, <1>5 DEF h
<1>6. CASE irq.pc \in {"write", "check"}
  BY <1>1, <1>2, <1>4, <1>6 DEF h, c
<1> QED BY <1>1, <1>5, <1>6

\* A chunk is dealt with: the next one's turn, or the end of the pass.
LEMMA ChunkOverEffect ==
  ASSUME VffInd, HandlerInd, irq.pc \in {"write", "check"}, ChunkOver
  PROVE  LET d == irq.done + Head(irq.todo) IN
         /\ irq'.receiver = irq.receiver
         /\ \/ irq'.pc = "write" /\ irq'.done = d /\ vff' = vff
            \/ /\ irq'.pc = "take" /\ irq'.done = 0
               /\ d \in 0 .. VffSize /\ d =< Held(vff)
               /\ vff'.rpt = (vff.rpt + d) % Wrap /\ vff'.wpt = vff.wpt
               /\ vff'.mem = vff.mem /\ vff'.receiver = vff.receiver
<1> DEFINE d == irq.done + Head(irq.todo)
           t == Tail(irq.todo)
<1>1. vff \in VffRecord /\ irq \in IrqRecord /\ Held(vff) =< VffSize /\ Held(vff) \in Nat
      /\ VffSize \in Nat
  BY HeldIs
<1>2. \/ irq' = [irq EXCEPT !.pc = "write", !.todo = t, !.done = d] /\ vff' = vff
      \/ /\ irq' = [irq EXCEPT !.pc = "take", !.todo = <<>>, !.done = 0]
         /\ vff' = [vff EXCEPT !.rpt = (vff.rpt + d) % Wrap]
  BY DEF ChunkOver
<1>3. irq.done \in Nat /\ Head(irq.todo) \in 1 .. VffSize /\ d =< Held(vff)
  BY LeftIs
<1>4. d \in 0 .. VffSize
  BY <1>1, <1>3
<1> HIDE DEF d, t
<1>5. CASE irq' = [irq EXCEPT !.pc = "write", !.todo = t, !.done = d] /\ vff' = vff
  <2>1. irq'.pc = "write" /\ irq'.done = d /\ irq'.receiver = irq.receiver
    BY <1>1, <1>5, IrqFields
  <2> QED BY <1>5, <2>1 DEF d
<1>6. CASE /\ irq' = [irq EXCEPT !.pc = "take", !.todo = <<>>, !.done = 0]
           /\ vff' = [vff EXCEPT !.rpt = (vff.rpt + d) % Wrap]
  <2>1. irq'.pc = "take" /\ irq'.done = 0 /\ irq'.receiver = irq.receiver
    BY <1>1, <1>6, IrqFields
  <2>2. /\ vff'.rpt = (vff.rpt + d) % Wrap /\ vff'.wpt = vff.wpt
        /\ vff'.mem = vff.mem /\ vff'.receiver = vff.receiver
    BY <1>1, <1>6, VffFields
  <2> QED BY <1>3, <1>4, <2>1, <2>2 DEF d
<1> QED BY <1>2, <1>5, <1>6

\* Init establishes what holds of the handler.
LEMMA HandlerInit == Init => HandlerInd
<1> SUFFICES ASSUME Init PROVE HandlerInd
  OBVIOUS
<1>1. irq.pc = "off" /\ irq.done = 0 /\ state = "OFF" /\ wmt = "closed"
  BY DEF Init, NotRunning
<1> QED BY <1>1 DEF HandlerInd

\* The engine and the interrupts are set up: nothing is held, nothing runs.
LEMMA SetUpEffect ==
  ASSUME VffInd, HandlerInd, state = "OFF", SetUp, UNCHANGED irq
  PROVE  /\ ResetRing /\ last' = 0 /\ state' = "ON" /\ irq'.pc = "off"
         /\ vff'.rpt = 0 /\ vff'.wpt = 0 /\ vff'.mem = vff.mem /\ vff'.receiver
         /\ Held(vff)' = 0 /\ Left' = 0
<1>1. vff \in VffRecord /\ VffSize \in Nat \ {0} /\ Wrap = 2 * VffSize
  BY HeldIs
<1>2. /\ ResetRing /\ last' = 0 /\ state' = "ON" /\ irq.pc = "off" /\ irq.done = 0
      /\ vff' = [vff EXCEPT !.wpt = 0, !.rpt = 0, !.receiver = TRUE]
  BY DEF SetUp, VffInd, HandlerInd
<1>3. vff'.rpt = 0 /\ vff'.wpt = 0 /\ vff'.mem = vff.mem /\ vff'.receiver
  BY <1>1, <1>2, VffFields
<1>4. (0 - 0) % Wrap = 0
  BY <1>1, Turns
<1>5. Held(vff)' = 0
  BY <1>3, <1>4 DEF Held
<1> QED BY <1>2, <1>3, <1>5 DEF Left

\* Opening and writing set BTIF up, reset the ring or leave both alone.
LEMMA OpenEffect ==
  ASSUME VffInd, HandlerInd, Life, Open \/ WriterSends
  PROVE  /\ UNCHANGED <<cb, sent, irq, conVars, comp, early>>
         /\ \/ state = "OFF" /\ SetUp /\ wmt # "closing" /\ ~cb
            \/ state = "ON" /\ ResetRing /\ wmt = "closed" /\ ~cb /\ UNCHANGED <<state, wmt, vff, last>>
            \/ UNCHANGED <<state, wmt, vff, last, rd, wr, mem, hurt>>
<1>1. state = "OFF" => ~cb
  BY DEF Life
<1>2. wmt = "closed" => ~cb
  BY DEF Life
<1>3. CASE Open
  <2>1. /\ wmt = "closed" /\ UNCHANGED <<cb, sent, irq, conVars, comp, early>>
        /\ \/ state = "OFF" /\ SetUp
           \/ state = "ON" /\ ResetRing /\ UNCHANGED <<state, vff, last, wmt>>
    BY <1>3 DEF Open
  <2> QED BY <1>1, <1>2, <2>1
<1>4. CASE WriterSends
  <2>1. /\ wmt # "closing" /\ UNCHANGED <<wmt, cb, sent, irq, conVars, comp, early>>
        /\ \/ state = "OFF" /\ SetUp
           \/ UNCHANGED <<state, vff, last, rd, wr, mem, hurt>>
    BY <1>4 DEF WriterSends
  <2> QED BY <1>1, <2>1
<1> QED BY <1>3, <1>4

\* A pass begins: it will take all there is, or, without a receiver, drops it.
LEMMA IrqTakeEffect ==
  ASSUME VffInd, HandlerInd, IrqTake
  PROVE  /\ irq.pc = "take" /\ irq'.done = 0 /\ irq'.receiver = irq.receiver
         /\ UNCHANGED <<sent, lifeVars, ringVars, comp, conVars, hurt, early>>
         /\ \/ irq.receiver /\ vff' = vff /\ irq'.pc = "write" /\ Left' = Left
            \/ /\ ~irq.receiver /\ irq' = irq
               /\ vff'.wpt = vff.wpt /\ vff'.mem = vff.mem /\ vff'.receiver = vff.receiver
               /\ Held(vff)' = 0 /\ Left' = 0
<1> DEFINE n == Held(vff)
           t == Chunks(RealLen)
<1>1. /\ vff \in VffRecord /\ irq \in IrqRecord /\ (vff.rpt + n) % Wrap = vff.wpt
      /\ vff.wpt \in 0 .. Wrap - 1
  BY HeldIs
<1>2. RealLen = n /\ irq.pc = "take" /\ irq.done = 0 /\ Left = n
  BY RealLenIsHeld, LeftIs DEF IrqTake, HandlerInd
<1>3. \/ /\ irq.receiver /\ vff' = vff
         /\ irq' = [irq EXCEPT !.pc = "write", !.todo = t, !.done = 0]
      \/ /\ ~irq.receiver /\ irq' = irq
         /\ vff' = [vff EXCEPT !.rpt = (vff.rpt + RealLen) % Wrap]
  BY DEF IrqTake
<1>4. UNCHANGED <<sent, lifeVars, ringVars, comp, conVars, hurt, early>>
  BY DEF IrqTake
<1> HIDE DEF t
<1>5. CASE /\ irq.receiver /\ vff' = vff
           /\ irq' = [irq EXCEPT !.pc = "write", !.todo = t, !.done = 0]
  <2>1. irq'.pc = "write" /\ irq'.done = 0 /\ irq'.receiver = irq.receiver
    <3>1. irq \in IrqRecord /\ irq' = [irq EXCEPT !.pc = "write", !.todo = t, !.done = 0]
      BY <1>1, <1>5
    <3> QED BY <3>1, IrqFields
  <2>2. Held(vff)' = n
    BY <1>5 DEF Held
  <2>3. n \in Nat
    BY HeldIs
  <2>4. Left' = n - 0 - 0
    BY <2>1, <2>2 DEF Left
  <2>5. Left' = Left
    <3> HIDE DEF n
    <3> QED BY <1>2, <2>3, <2>4
  <2> QED BY <1>2, <1>4, <1>5, <2>1, <2>5
<1>6. CASE /\ ~irq.receiver /\ irq' = irq
           /\ vff' = [vff EXCEPT !.rpt = (vff.rpt + RealLen) % Wrap]
  <2>1. /\ vff'.rpt = vff.wpt /\ vff'.wpt = vff.wpt /\ vff'.mem = vff.mem
        /\ vff'.receiver = vff.receiver
    BY <1>1, <1>2, <1>6, VffFields
  <2>2. (vff.wpt - vff.wpt) % Wrap = vff.wpt - vff.wpt
    BY <1>1, Turns
  <2>3. Held(vff)' = 0
    BY <1>1, <2>1, <2>2 DEF Held
  <2>4. Left' = 0
    BY <1>2, <1>6, <2>3 DEF Left
  <2> QED BY <1>2, <1>4, <1>6, <2>1, <2>3, <2>4
<1> QED BY <1>3, <1>5, <1>6

\* Every step keeps what holds of the handler.
LEMMA HandlerStep == VffInd /\ HandlerInd /\ Life /\ [Next]_vars => HandlerInd'
<1> SUFFICES ASSUME VffInd, HandlerInd, Life, [Next]_vars PROVE HandlerInd'
  OBVIOUS
<1>1. vff \in VffRecord /\ irq \in IrqRecord
  BY HeldIs
<1>2. CASE ChipSends
  <2>1. vff'.receiver = vff.receiver
    BY <1>1, <1>2, VffFields DEF ChipSends
  <2> QED BY <1>2, <2>1 DEF ChipSends, HandlerInd, lifeVars
<1>3. CASE Interrupt
  <2>1. /\ irq'.pc = "take" /\ irq'.done = irq.done /\ irq'.receiver = vff.receiver
        /\ state = "ON" /\ irq.pc = "off" /\ UNCHANGED <<vff, state, wmt>>
    BY <1>1, <1>3, IrqFields DEF Interrupt, lifeVars
  <2> QED BY <2>1 DEF HandlerInd
<1>4. CASE IrqTake
  <2>1. /\ irq.pc = "take" /\ irq'.done = 0 /\ irq'.receiver = irq.receiver
        /\ UNCHANGED <<state, wmt>> /\ vff'.receiver = vff.receiver
    BY <1>4, IrqTakeEffect DEF lifeVars
  <2> QED BY <2>1 DEF HandlerInd
<1>5. CASE IrqWrite \/ IrqCheck
  <2>1. irq.pc \in {"write", "check"} /\ UNCHANGED <<state, wmt>>
    BY <1>5 DEF IrqWrite, IrqCheck, lifeVars
  <2>2. \/ ChunkOver
        \/ irq' = [irq EXCEPT !.pc = "check"] /\ UNCHANGED vff
    BY <1>5 DEF IrqWrite, IrqCheck
  <2>3. /\ irq'.receiver = irq.receiver /\ vff'.receiver = vff.receiver
        /\ irq'.pc = "take" => irq'.done = 0
        /\ irq'.pc # "off"
    <3>1. CASE ChunkOver
      BY <2>1, <3>1, ChunkOverEffect
    <3>2. CASE irq' = [irq EXCEPT !.pc = "check"] /\ UNCHANGED vff
      <4>1. irq'.pc = "check" /\ irq'.receiver = irq.receiver
        BY <1>1, <3>2, IrqFields
      <4> QED BY <3>2, <4>1
    <3> QED BY <2>2, <3>1, <3>2
  <2> QED BY <2>1, <2>3 DEF HandlerInd
<1>6. CASE IrqEnd
  <2>1. irq'.pc = "off" /\ irq'.done = 0 /\ UNCHANGED <<vff, state, wmt>>
    BY <1>6 DEF IrqEnd, NotRunning, lifeVars
  <2> QED BY <2>1 DEF HandlerInd
<1>7. CASE Open \/ WriterSends
  <2>1. /\ UNCHANGED irq
        /\ \/ state = "OFF" /\ SetUp /\ wmt # "closing"
           \/ UNCHANGED <<state, wmt, vff>>
    BY <1>7, OpenEffect
  <2>2. CASE state = "OFF" /\ SetUp
    <3>1. irq.pc = "off" /\ irq.done = 0 /\ vff'.receiver /\ state' = "ON"
      BY <2>1, <2>2, SetUpEffect DEF HandlerInd, VffInd
    <3>2. wmt' # "closing"
      BY <1>7, <2>1, <2>2 DEF Open, WriterSends
    <3> QED BY <2>1, <3>1, <3>2 DEF HandlerInd
  <2> QED BY <2>1, <2>2 DEF HandlerInd
<1>8. CASE RegisterCb
  <2>1. wmt # "closing" /\ wmt' # "closing" /\ UNCHANGED <<state, vff, irq>>
    BY <1>8 DEF RegisterCb, irqVars
  <2> QED BY <2>1 DEF HandlerInd
<1>9. CASE Close
  <2>1. wmt' = "closing" /\ UNCHANGED irq /\ ~vff'.receiver
    BY <1>1, <1>9, VffFields DEF Close
  <2> QED BY <2>1 DEF HandlerInd
<1>10. CASE CloseEnd
  <2>1. irq.pc = "off" /\ state' = "OFF" /\ wmt' = "closed" /\ UNCHANGED irq
    BY <1>10 DEF CloseEnd, StateAfterClose, irqVars
  <2> QED BY <2>1 DEF HandlerInd
<1>11. CASE WriterFinds \/ RxThread \/ UNCHANGED vars
  <2>1. UNCHANGED <<vff, irq, state, wmt>>
    BY <1>11 DEF WriterFinds, RxThread, Wake, Look, Hand, Rest, Advance,
                 vars, lifeVars, irqVars
  <2> QED BY <2>1 DEF HandlerInd
<1> QED BY <1>2, <1>3, <1>4, <1>5, <1>6, <1>7, <1>8, <1>9, <1>10, <1>11 DEF Next, Handler

\* What a chunk that is over leaves.
LEMMA LeftChunk ==
  ASSUME VffInd, HandlerInd, irq.pc \in {"write", "check"}, ChunkOver
  PROVE  Left' = Held(vff) - (irq.done + Head(irq.todo))
<1> DEFINE d == irq.done + Head(irq.todo)
           h == Held(vff)
           w == vff.wpt
           r == vff.rpt
<1>1. \/ irq'.pc = "write" /\ irq'.done = d /\ vff' = vff
      \/ /\ irq'.pc = "take" /\ irq'.done = 0
         /\ d \in 0 .. VffSize /\ d =< h
         /\ vff'.rpt = (r + d) % Wrap /\ vff'.wpt = w
  BY ChunkOverEffect
<1>2. d \in Int /\ h \in Nat
  BY LeftIs, HeldIs
<1>3. CASE irq'.pc = "write" /\ irq'.done = d /\ vff' = vff
  <2>1. Held(vff)' = h
    BY <1>3 DEF Held
  <2> HIDE DEF d, h
  <2>2. Left' = h - d - 0
    BY <1>3, <2>1 DEF Left
  <2> QED BY <1>2, <2>2 DEF d, h
<1>4. CASE /\ irq'.pc = "take" /\ irq'.done = 0
           /\ d \in 0 .. VffSize /\ d =< h
           /\ vff'.rpt = (r + d) % Wrap /\ vff'.wpt = w
  <2>1. /\ w \in 0 .. Wrap - 1 /\ r \in 0 .. Wrap - 1 /\ h = (w - r) % Wrap
        /\ Held(vff)' = (w - ((r + d) % Wrap)) % Wrap
    BY <1>4, HeldIs DEF Held
  <2> HIDE DEF d, h, w, r
  <2>2. Held(vff)' = h - d
    BY <1>4, <2>1, HeldMoves
  <2>3. Left' = (h - d) - 0 - 0
    BY <1>4, <2>2 DEF Left
  <2> QED BY <1>2, <2>3 DEF d, h
<1> QED BY <1>1, <1>3, <1>4

\* Copied and Left are numbers.
LEMMA CopiedIs ==
  ASSUME VffInd, HandlerInd
  PROVE  Left \in Nat /\ Copied \in Int /\ Copied =< sent /\ sent \in Nat /\ Copied = sent - Left
<1>1. Left \in Nat /\ sent \in Nat
  BY LeftIs, BtifAssumption DEF VffInd, Bytes
<1> QED BY <1>1 DEF Copied

\* The steps that copy nothing and drop nothing: a byte sent, the handler's other
\* places, all of btif_rxd, registering and closing.
LEMMA CopiedSame ==
  ASSUME VffInd, HandlerInd,
         \/ ChipSends \/ Interrupt \/ IrqCheck \/ IrqEnd \/ RxThread \/ RegisterCb
         \/ Close \/ CloseEnd \/ WriterFinds \/ UNCHANGED vars
  PROVE  Copied' = Copied
<1>1. /\ vff \in VffRecord /\ irq \in IrqRecord /\ VffSize \in Nat \ {0} /\ Wrap = 2 * VffSize
      /\ Held(vff) \in Nat /\ vff.wpt \in 0 .. Wrap - 1 /\ vff.rpt \in 0 .. Wrap - 1
      /\ Held(vff) = (vff.wpt - vff.rpt) % Wrap
  BY HeldIs
<1>2. Left \in Nat /\ sent \in Nat
  BY CopiedIs
<1>3. CASE ChipSends
  <2>1. /\ vff'.wpt = (vff.wpt + 1) % Wrap /\ vff'.rpt = vff.rpt
        /\ sent' = sent + 1 /\ irq' = irq /\ Held(vff) < VffSize
    BY <1>1, <1>3, VffFields DEF ChipSends
  <2>2. Held(vff)' = Held(vff) + 1
    <3> DEFINE w == vff.wpt
               r == vff.rpt
               h == Held(vff)
    <3>1. /\ w \in 0 .. Wrap - 1 /\ r \in 0 .. Wrap - 1 /\ 1 \in 0 .. VffSize
          /\ h = (w - r) % Wrap /\ Held(vff)' = (((w + 1) % Wrap) - r) % Wrap
          /\ h + 1 =< VffSize
      BY <1>1, <2>1 DEF Held
    <3> HIDE DEF w, r, h
    <3>2. h + 1 =< VffSize => (((w + 1) % Wrap) - r) % Wrap = h + 1
      BY <3>1, HeldMoves
    <3> QED BY <3>1, <3>2 DEF h
  <2>3. irq.done \in Int /\ (irq.pc = "check" => Head(irq.todo) \in Int)
    BY <1>1, LeftIs, IrqFields DEF HandlerInd
  <2>4. Left' = Left + 1
    BY <1>1, <2>1, <2>2, <2>3 DEF Left
  <2> QED BY <1>2, <2>1, <2>4 DEF Copied
<1>4. CASE IrqCheck
  <2>1. irq.pc = "check" /\ sent' = sent /\ ChunkOver
    BY <1>4 DEF IrqCheck
  <2>2. /\ irq.done \in Nat /\ Head(irq.todo) \in Nat
        /\ Left = Held(vff) - irq.done - Head(irq.todo)
    BY <2>1, LeftIs
  <2>3. Left' = Left
    BY <1>1, LeftChunk, <2>1, <2>2
  <2> QED BY <2>1, <2>3 DEF Copied
<1>5. CASE Interrupt
  <2>1. /\ irq'.pc = "take" /\ irq'.done = irq.done /\ irq.pc = "off" /\ UNCHANGED <<vff, sent>>
    BY <1>1, <1>5, IrqFields DEF Interrupt
  <2> QED BY <2>1 DEF Copied, Left, Held
<1>6. CASE IrqEnd
  <2>1. /\ irq'.pc = "off" /\ irq'.done = 0 /\ irq.pc = "take" /\ irq.done = 0
        /\ UNCHANGED <<vff, sent>>
    BY <1>6 DEF IrqEnd, NotRunning, HandlerInd
  <2> QED BY <2>1 DEF Copied, Left, Held
<1>7. CASE Close
  <2>1. vff'.rpt = vff.rpt /\ vff'.wpt = vff.wpt /\ UNCHANGED <<irq, sent>>
    BY <1>1, <1>7, VffFields DEF Close
  <2> QED BY <2>1 DEF Copied, Left, Held
<1>8. CASE RxThread \/ RegisterCb \/ CloseEnd \/ WriterFinds \/ UNCHANGED vars
  <2>1. UNCHANGED <<vff, irq, sent>>
    BY <1>8 DEF RegisterCb, CloseEnd, WriterFinds, RxThread, Wake, Look, Hand, Rest, Advance,
                vars, irqVars
  <2> QED BY <2>1 DEF Copied, Left, Held
<1> QED BY <1>3, <1>4, <1>5, <1>6, <1>7, <1>8

\* A chunk written is copied, and the next step's content follows on it.
LEMMA CopiedWrite ==
  ASSUME VffInd, HandlerInd, IrqWrite
  PROVE  Copied' = Copied + Head(irq.todo) /\ sent' = sent
<1>1. irq.pc = "write" /\ sent' = sent /\ irq \in IrqRecord /\ Held(vff) \in Nat
  BY HeldIs DEF IrqWrite
<1>2. ChunkOver \/ (irq' = [irq EXCEPT !.pc = "check"] /\ UNCHANGED vff)
  BY DEF IrqWrite
<1>3. /\ irq.done \in Nat /\ Head(irq.todo) \in Nat /\ Left = Held(vff) - irq.done
      /\ sent \in Nat
  BY <1>1, LeftIs, CopiedIs
<1>4. Left' = Held(vff) - (irq.done + Head(irq.todo))
  <2>1. CASE irq' = [irq EXCEPT !.pc = "check"] /\ UNCHANGED vff
    <3>1. irq'.pc = "check" /\ irq'.todo = irq.todo /\ irq'.done = irq.done
      BY <1>1, <2>1, IrqFields
    <3>2. Held(vff)' = Held(vff)
      BY <2>1 DEF Held
    <3>3. Left' = Held(vff) - irq.done - Head(irq.todo)
      BY <3>1, <3>2 DEF Left
    <3> QED BY <1>1, <1>3, <3>3
  <2> QED BY <1>1, <1>2, <2>1, LeftChunk
<1> QED BY <1>1, <1>3, <1>4 DEF Copied

\* Without a receiver, and when BTIF is set up, all there was counts as copied.
LEMMA CopiedAll ==
  ASSUME VffInd, HandlerInd,
         (IrqTake /\ ~irq.receiver) \/ (state = "OFF" /\ SetUp /\ UNCHANGED <<irq, sent>>)
  PROVE  Copied' = sent /\ sent' = sent
<1>1. Left' = 0 /\ sent' = sent
  BY IrqTakeEffect, SetUpEffect
<1> QED BY <1>1, CopiedIs DEF Copied

-----------------------------------------------------------------------------
(* The content of the virtual FIFO. *)

\* The FIFO holds the last bytes sent.
InFifo ==
  \A k \in 0 .. Held(vff) - 1 :
     vff.mem[(vff.rpt + k) % VffSize] = sent - Held(vff) + k + 1

\* The cell n places after one of the FIFO.
LEMMA Slot ==
  ASSUME NEW r \in 0 .. Wrap - 1, NEW n \in 0 .. VffSize
  PROVE  /\ (r + n) % VffSize = IF r + n < VffSize THEN r + n
                                ELSE IF r + n < 2 * VffSize THEN r + n - VffSize
                                ELSE r + n - 2 * VffSize
         /\ (r + n) % VffSize \in 0 .. VffSize - 1
<1>1. VffSize \in Nat \ {0} /\ Wrap = 2 * VffSize
  BY BtifAssumption DEF Wrap
<1>2. r + n \in Nat /\ r + n < 3 * VffSize
  BY <1>1
<1>3. CASE r + n < VffSize
  BY <1>1, <1>2, <1>3
<1>4. CASE r + n >= VffSize /\ r + n < 2 * VffSize
  BY <1>1, <1>2, <1>4
<1>5. CASE r + n >= 2 * VffSize
  BY <1>1, <1>2, <1>5
<1> QED BY <1>1, <1>2, <1>3, <1>4, <1>5

\* The cells after a move of RPT; and a cell ahead of others is none of them.
LEMMA SlotMoves ==
  ASSUME NEW r \in 0 .. Wrap - 1, NEW n \in 0 .. VffSize, NEW k \in Nat
  PROVE  /\ n + k =< VffSize => (((r + n) % Wrap) + k) % VffSize = (r + (n + k)) % VffSize
         /\ k < n /\ n < VffSize => (r + k) % VffSize # (r + n) % VffSize
<1>1. VffSize \in Nat \ {0} /\ Wrap = 2 * VffSize
  BY BtifAssumption DEF Wrap
<1>2. /\ (r + n) % Wrap = IF r + n < Wrap THEN r + n ELSE r + n - Wrap
      /\ (r + n) % Wrap \in 0 .. Wrap - 1
  BY Turns
<1>3. ASSUME n + k =< VffSize
      PROVE  (((r + n) % Wrap) + k) % VffSize = (r + (n + k)) % VffSize
  <2> DEFINE x == (r + n) % Wrap
  <2>1. n + k \in 0 .. VffSize /\ k \in 0 .. VffSize
    BY <1>1, <1>3
  <2>2. x \in 0 .. Wrap - 1 /\ x = IF r + n < Wrap THEN r + n ELSE r + n - Wrap
    BY <1>2
  <2> HIDE DEF x
  <2>3. (r + (n + k)) % VffSize = IF r + (n + k) < VffSize THEN r + (n + k)
                                  ELSE IF r + (n + k) < 2 * VffSize THEN r + (n + k) - VffSize
                                  ELSE r + (n + k) - 2 * VffSize
    BY <2>1, Slot
  <2>4. (x + k) % VffSize = IF x + k < VffSize THEN x + k
                            ELSE IF x + k < 2 * VffSize THEN x + k - VffSize
                            ELSE x + k - 2 * VffSize
    BY <2>1, <2>2, Slot
  <2>5. (x + k) % VffSize = (r + (n + k)) % VffSize
    BY <1>1, <2>1, <2>2, <2>3, <2>4
  <2> QED BY <2>5 DEF x
<1>4. ASSUME k < n, n < VffSize
      PROVE  (r + k) % VffSize # (r + n) % VffSize
  <2>1. k \in 0 .. VffSize
    BY <1>1, <1>4
  <2>2. (r + k) % VffSize = IF r + k < VffSize THEN r + k
                            ELSE IF r + k < 2 * VffSize THEN r + k - VffSize
                            ELSE r + k - 2 * VffSize
    BY <2>1, Slot
  <2>3. (r + n) % VffSize = IF r + n < VffSize THEN r + n
                            ELSE IF r + n < 2 * VffSize THEN r + n - VffSize
                            ELSE r + n - 2 * VffSize
    BY Slot
  <2> QED BY <1>1, <1>4, <2>1, <2>2, <2>3
<1> QED BY <1>3, <1>4

\* Every step keeps the content of the FIFO.
LEMMA FifoStep == VffInd /\ HandlerInd /\ Life /\ InFifo /\ [Next]_vars => InFifo'
<1> SUFFICES ASSUME VffInd, HandlerInd, Life, InFifo, [Next]_vars PROVE InFifo'
  OBVIOUS
<1> DEFINE h == Held(vff)
           r == vff.rpt
<1>1. /\ VffSize \in Nat \ {0} /\ Wrap = 2 * VffSize
      /\ vff.wpt \in 0 .. Wrap - 1 /\ r \in 0 .. Wrap - 1
      /\ vff \in VffRecord /\ irq \in IrqRecord
      /\ h \in Nat /\ h =< VffSize /\ h = (vff.wpt - r) % Wrap /\ (r + h) % Wrap = vff.wpt
  BY HeldIs
<1>2. sent \in Nat
  BY CopiedIs
<1>3. \A k \in 0 .. h - 1 : vff.mem[(r + k) % VffSize] = sent - h + k + 1
  BY DEF InFifo
<1>4. CASE ChipSends
  <2> DEFINE p == vff.wpt % VffSize
  <2>1. h < VffSize /\ vff' = [vff EXCEPT !.mem[p] = sent + 1, !.wpt = (vff.wpt + 1) % Wrap]
    BY <1>4 DEF ChipSends
  <2>2. /\ vff'.wpt = (vff.wpt + 1) % Wrap /\ vff'.rpt = r
        /\ vff'.mem = [vff.mem EXCEPT ![p] = sent + 1]
    BY <1>1, <2>1, VffFields
  <2>3. sent' = sent + 1
    BY <1>4 DEF ChipSends
  <2>4. Held(vff)' = h + 1
    <3> DEFINE w == vff.wpt
    <3>1. /\ w \in 0 .. Wrap - 1 /\ r \in 0 .. Wrap - 1 /\ 1 \in 0 .. VffSize
          /\ h = (w - r) % Wrap /\ Held(vff)' = (((w + 1) % Wrap) - r) % Wrap
          /\ h + 1 =< VffSize
      BY <1>1, <2>1, <2>2 DEF Held
    <3> HIDE DEF w, r, h
    <3>2. h + 1 =< VffSize => (((w + 1) % Wrap) - r) % Wrap = h + 1
      BY <3>1, HeldMoves
    <3> QED BY <3>1, <3>2
  <2>5. p = (r + h) % VffSize
    <3>1. h \in 0 .. VffSize /\ h + 0 =< VffSize /\ 0 \in Nat
      BY <1>1
    <3>2. (((r + h) % Wrap) + 0) % VffSize = (r + (h + 0)) % VffSize
      BY <1>1, <3>1, SlotMoves
    <3>3. vff.wpt + 0 = vff.wpt /\ h + 0 = h
      BY <1>1
    <3> HIDE DEF h, r
    <3> QED BY <1>1, <3>2, <3>3
  <2>6. DOMAIN vff.mem = 0 .. VffSize - 1
    BY <1>1 DEF VffRecord
  <2> HIDE DEF h, r, p
  <2> SUFFICES ASSUME NEW k \in 0 .. Held(vff)' - 1
               PROVE  vff'.mem[(vff'.rpt + k) % VffSize] = sent' - Held(vff)' + k + 1
    BY DEF InFifo
  <2>7. k \in Nat /\ k =< h /\ k \in 0 .. VffSize
    BY <1>1, <2>4
  <2>8. (r + k) % VffSize \in 0 .. VffSize - 1
    BY <1>1, <2>7, Slot
  <2>9. CASE k = h
    <3>1. vff'.mem[(r + k) % VffSize] = sent + 1
      BY <2>2, <2>5, <2>6, <2>8, <2>9
    <3> QED BY <1>1, <1>2, <2>2, <2>3, <2>4, <2>9, <3>1
  <2>10. CASE k < h
    <3>1. (r + k) % VffSize # p
      <4>1. h \in 0 .. VffSize
        BY <1>1
      <4> QED BY <1>1, <2>1, <2>5, <2>7, <2>10, <4>1, SlotMoves
    <3>2. vff'.mem[(r + k) % VffSize] = vff.mem[(r + k) % VffSize]
      BY <2>2, <2>6, <2>8, <3>1
    <3>3. k \in 0 .. h - 1
      BY <1>1, <2>7, <2>10
    <3>4. vff.mem[(r + k) % VffSize] = sent - h + k + 1
      BY <1>3, <3>3
    <3>5. sent' - Held(vff)' + k + 1 = sent - h + k + 1
      BY <1>1, <1>2, <2>3, <2>4, <2>7
    <3> QED BY <2>2, <3>2, <3>4, <3>5
  <2> QED BY <1>1, <2>7, <2>9, <2>10
<1>5. ASSUME Held(vff)' = 0 PROVE InFifo'
  BY <1>5 DEF InFifo
<1>6. ASSUME vff'.mem = vff.mem, vff'.rpt = vff.rpt, vff'.wpt = vff.wpt, sent' = sent
      PROVE  InFifo'
  BY <1>6 DEF InFifo, Held
<1>7. CASE IrqTake
  <2>1. sent' = sent /\ (vff' = vff \/ Held(vff)' = 0)
    BY <1>7, IrqTakeEffect
  <2> QED BY <1>5, <1>6, <2>1
<1>8. CASE IrqWrite \/ IrqCheck
  <2> DEFINE d == irq.done + Head(irq.todo)
  <2>1. irq.pc \in {"write", "check"} /\ sent' = sent
    BY <1>8 DEF IrqWrite, IrqCheck
  <2>2. ChunkOver \/ vff' = vff
    BY <1>8 DEF IrqWrite, IrqCheck
  <2>3. \/ vff' = vff
        \/ /\ d \in 0 .. VffSize /\ d =< h
           /\ vff'.rpt = (r + d) % Wrap /\ vff'.wpt = vff.wpt
           /\ vff'.mem = vff.mem
    BY <2>1, <2>2, ChunkOverEffect
  <2> HIDE DEF d
  <2>4. CASE /\ d \in 0 .. VffSize /\ d =< h
             /\ vff'.rpt = (r + d) % Wrap /\ vff'.wpt = vff.wpt
             /\ vff'.mem = vff.mem
    <3>1. Held(vff)' = h - d
      <4> DEFINE w == vff.wpt
      <4>1. /\ w \in 0 .. Wrap - 1 /\ r \in 0 .. Wrap - 1 /\ h = (w - r) % Wrap
            /\ Held(vff)' = (w - ((r + d) % Wrap)) % Wrap
        BY <1>1, <2>4 DEF Held
      <4> HIDE DEF h, w, r
      <4> QED BY <2>4, <4>1, HeldMoves
    <3> HIDE DEF h, r
    <3> SUFFICES ASSUME NEW k \in 0 .. Held(vff)' - 1
                 PROVE  vff'.mem[(vff'.rpt + k) % VffSize] = sent' - Held(vff)' + k + 1
      BY DEF InFifo
    <3>2. k \in Nat /\ d + k \in 0 .. h - 1 /\ d + k =< VffSize
      BY <1>1, <2>4, <3>1
    <3>3. (((r + d) % Wrap) + k) % VffSize = (r + (d + k)) % VffSize
      BY <1>1, <2>4, <3>2, SlotMoves
    <3>4. vff.mem[(r + (d + k)) % VffSize] = sent - h + (d + k) + 1
      BY <1>3, <3>2
    <3>5. sent' - Held(vff)' + k + 1 = sent - h + (d + k) + 1
      BY <1>1, <1>2, <2>1, <2>4, <3>1, <3>2
    <3> QED BY <2>4, <3>3, <3>4, <3>5
  <2> QED BY <1>6, <2>1, <2>3, <2>4
<1>9. CASE Open \/ WriterSends
  <2>1. /\ sent' = sent /\ irq' = irq
        /\ (state = "OFF" /\ SetUp) \/ vff' = vff
    BY <1>9, OpenEffect
  <2>2. state = "OFF" /\ SetUp => Held(vff)' = 0
    BY <2>1, SetUpEffect
  <2> QED BY <1>5, <1>6, <2>1, <2>2
<1>10. CASE Close
  <2>1. vff'.rpt = vff.rpt /\ vff'.wpt = vff.wpt /\ vff'.mem = vff.mem /\ sent' = sent
    BY <1>1, <1>10, VffFields DEF Close
  <2> QED BY <1>6, <2>1
<1>11. CASE Interrupt \/ IrqEnd \/ RxThread \/ RegisterCb \/ CloseEnd \/ WriterFinds \/ UNCHANGED vars
  <2>1. UNCHANGED <<vff, sent>>
    BY <1>11 DEF Interrupt, IrqEnd, RegisterCb, CloseEnd, WriterFinds, RxThread, Wake, Look,
                 Hand, Rest, Advance, vars, irqVars
  <2> QED BY <1>6, <2>1
<1> QED BY <1>4, <1>7, <1>8, <1>9, <1>10, <1>11 DEF Next, Handler

-----------------------------------------------------------------------------
(* The content of the ring. *)

\* No byte comes twice or from nowhere: what STP had and what the ring holds was
\* copied, and STP works on nothing above the highest byte it had.
Old ==
  /\ mem \in [Place -> Nat] /\ \A i \in Place : mem[i] =< Copied
  /\ top \in Nat /\ top =< Copied
  /\ out \in Seq(0 .. top)

\* From rd_idx on the ring holds the last bytes copied, unless it is hurt or they
\* were dropped for want of a receiver.
Whole ==
  ~hurt /\ vff.receiver => \A k \in 0 .. Count - 1 : mem[(rd + k) % Size] = Copied - Count + k + 1

\* STP had none of what the ring still has for it.
Behind == ~hurt => top =< Copied - InRing

\* What STP works on is what the pass has handed over.
Given ==
  /\ con.pc \in {"wait", "look", "hand"} => out = <<>>
  /\ ~hurt /\ con.pc = "rest" => Len(out) = con.tail
  /\ ~hurt /\ con.pc = "advance" /\ cb => Len(out) = CountTo(con.wr)
  /\ wmt = "opened" /\ con.pc \in {"rest", "advance"} => hurt

ContentInd == Old /\ Whole /\ Behind /\ Given

\* How many places the ring holds.
LEMMA CountIs ==
  ASSUME RingType
  PROVE  /\ Count = (wr - rd) % Size /\ Count \in 0 .. Size - 1
         /\ CountTo(con.wr) = (con.wr - rd) % Size /\ CountTo(con.wr) \in 0 .. Size
         /\ \A a \in Place : (wr - a) % Size \in 0 .. Size - 1
<1>1. /\ Size \in Nat \ {0} /\ rd \in Place /\ wr \in Place /\ con.wr \in Place
      /\ Count \in Nat /\ Count < Size
  BY RingNumbers DEF RingType, Place
<1>2. Count = (wr - rd) % Size /\ CountTo(con.wr) = (con.wr - rd) % Size
  BY <1>1, Back DEF Count, CountTo, Place
<1>3. CountTo(con.wr) \in 0 .. Size
  BY <1>1 DEF CountTo, Place
<1>4. ASSUME NEW a \in Place PROVE (wr - a) % Size \in 0 .. Size - 1
  <2>1. (wr - a) % Size = IF wr >= a THEN wr - a ELSE Size - (a - wr)
    BY <1>1, Back DEF Place
  <2> QED BY <1>1, <2>1 DEF Place
<1> QED BY <1>1, <1>2, <1>3, <1>4

\* The distance to wr_idx of the place k after rd_idx.
LEMMA FromWr ==
  ASSUME RingType, NEW k \in 0 .. Size - 1
  PROVE  /\ (rd + k) % Size \in Place
         /\ k >= Count => (((rd + k) % Size) - wr) % Size = k - Count
         /\ k < Count => (((rd + k) % Size) - wr) % Size = Size - (Count - k)
<1> DEFINE p == (rd + k) % Size
<1>1. Size \in Nat \ {0} /\ rd \in 0 .. Size - 1 /\ wr \in 0 .. Size - 1
  BY RingNumbers DEF RingType, Place
<1>2. p = (IF rd + k < Size THEN rd + k ELSE rd + k - Size) /\ p \in 0 .. Size - 1
  BY <1>1, Forth
<1> HIDE DEF p
<1>3. (p - wr) % Size = IF p >= wr THEN p - wr ELSE Size - (wr - p)
  BY <1>1, <1>2, Back
<1>4. Count = IF wr >= rd THEN wr - rd ELSE Size - (rd - wr)
  BY DEF Count, CountTo
<1>5. k >= Count => (p - wr) % Size = k - Count
  BY <1>1, <1>2, <1>3, <1>4
<1>6. k < Count => (p - wr) % Size = Size - (Count - k)
  BY <1>1, <1>2, <1>3, <1>4
<1> QED BY <1>2, <1>5, <1>6 DEF p, Place

\* A pass of a ring that is not hurt: it takes the first part of the content.
LEMMA PassSplit ==
  ASSUME RingInd, ~hurt, con.pc \in InPass
  PROVE  /\ CountTo(con.wr) =< Count
         /\ (wr - con.wr) % Size = Count - CountTo(con.wr)
         /\ con.wr = (rd + CountTo(con.wr)) % Size
         /\ con.pc = "rest" =>
              /\ con.tail = Size - rd /\ CountTo(con.wr) = con.tail + con.wr
              /\ con.wr =< wr /\ wr < rd /\ Count = con.tail + wr
              /\ (wr - con.wr) % Size = wr - con.wr
<1> DEFINE m == CountTo(con.wr)
           c == con.wr
<1>1. /\ Size \in Nat \ {0} /\ rd \in 0 .. Size - 1 /\ wr \in 0 .. Size - 1 /\ c \in 0 .. Size - 1
      /\ m =< Count
      /\ con.pc = "rest" => con.tail = Size - rd /\ c < rd
  BY RingNumbers DEF RingInd, RingType, PassInRing, Place
<1>2. /\ Count = IF wr >= rd THEN wr - rd ELSE Size - (rd - wr)
      /\ m = IF c >= rd THEN c - rd ELSE Size - (rd - c)
  BY DEF Count, CountTo
<1> HIDE DEF m, c
<1>3. (wr - c) % Size = IF wr >= c THEN wr - c ELSE Size - (c - wr)
  BY <1>1, Back
<1>4. m \in 0 .. Size - 1
  BY <1>1, <1>2
<1>5. (rd + m) % Size = IF rd + m < Size THEN rd + m ELSE rd + m - Size
  BY <1>1, <1>4, Forth
<1>6. (wr - c) % Size = Count - m
  BY <1>1, <1>2, <1>3
<1>7. c = (rd + m) % Size
  BY <1>1, <1>2, <1>4, <1>5
<1>8. con.pc = "rest" => /\ m = con.tail + c /\ c =< wr /\ wr < rd /\ Count = con.tail + wr
                         /\ (wr - c) % Size = wr - c
  BY <1>1, <1>2, <1>3
<1> QED BY <1>1, <1>6, <1>7, <1>8 DEF m, c

\* The test of an end of a pass means what it says: from a on the ring is whole.
LEMMA WholeFromMeans ==
  ASSUME RingType, VffInd, HandlerInd, Old, NEW a \in Place, WholeFrom(a)
  PROVE  /\ top =< Copied - ((wr - a) % Size)
         /\ \A k \in 0 .. ((wr - a) % Size) - 1 :
              mem[(a + k) % Size] = Copied - ((wr - a) % Size) + k + 1
<1> DEFINE n == (wr - a) % Size
           b == sent - InVff - n
<1>1. n \in 0 .. Size - 1 /\ Size \in Nat \ {0}
  BY CountIs, RingNumbers
<1>2. b >= top /\ Cells(a, n) = [i \in 1 .. n |-> b + i]
  BY DEF WholeFrom
<1>3. Left \in Nat /\ Copied \in Int /\ Copied =< sent /\ sent \in Nat /\ Copied = sent - Left
  BY CopiedIs
<1>4. InVff = IF state = "OFF" THEN 0 ELSE Left
  BY DEF InVff, Left
<1>5. top \in Nat /\ top =< Copied /\ \A i \in Place : mem[i] \in Nat /\ mem[i] =< Copied
  BY DEF Old
<1> HIDE DEF n, b
<1>6. ASSUME NEW k \in 0 .. n - 1 PROVE mem[(a + k) % Size] = b + k + 1
  <2>1. k + 1 \in 1 .. n
    BY <1>1, <1>6
  <2>2. Cells(a, n)[k + 1] = mem[(a + (k + 1) - 1) % Size]
    BY <2>1 DEF Cells
  <2>3. Cells(a, n)[k + 1] = b + (k + 1)
    BY <1>2, <2>1
  <2>4. a + (k + 1) - 1 = a + k /\ b + (k + 1) = b + k + 1
    BY <1>1, <1>3, <1>4 DEF Place, b
  <2> QED BY <2>2, <2>3, <2>4
<1>7. b \in Int /\ b + n = sent - InVff
  BY <1>1, <1>3, <1>4 DEF b
<1>8. CASE n = 0
  BY <1>1, <1>3, <1>5, <1>8 DEF n
<1>9. CASE n # 0
  <2>1. n - 1 \in 0 .. n - 1
    BY <1>1, <1>9
  <2>2. mem[(a + (n - 1)) % Size] = b + (n - 1) + 1
    BY <1>6, <2>1
  <2>3. (a + (n - 1)) % Size \in Place
    <3>1. n - 1 \in 0 .. Size - 1 /\ a \in 0 .. Size - 1
      BY <1>1, <1>9 DEF Place
    <3> QED BY <3>1, Forth DEF Place
  <2>4. b + (n - 1) + 1 =< Copied
    BY <1>5, <2>2, <2>3
  <2>5. b = Copied - n
    BY <1>1, <1>3, <1>4, <1>7, <2>4
  <2> QED BY <1>2, <1>6, <2>5 DEF n
<1> QED BY <1>8, <1>9

-----------------------------------------------------------------------------
(* What STP is given. *)

\* A set of natural numbers with a bound has a highest, and Max is it.
LEMMA MaxIs ==
  ASSUME NEW b \in Nat, NEW S, S \subseteq 0 .. b, S # {}
  PROVE  Max(S) \in S /\ \A y \in S : y =< Max(S)
<1> DEFINE T == {b - x : x \in S}
           R == OpToRel(<, Nat)
<1>1. T \subseteq Nat /\ T # {}
  <2>1. \A x \in S : x \in 0 .. b
    OBVIOUS
  <2>2. \A x \in 0 .. b : b - x \in Nat
    OBVIOUS
  <2> QED BY <2>1, <2>2
<1>2. IsWellFoundedOn(R, Nat)
  BY NatLessThanWellFounded
<1>3. \A u, v \in Nat : u < v => <<u, v>> \in R
  BY DEF OpToRel
<1> HIDE DEF T, R
<1>4. \E m \in T : \A n \in T : ~(<<n, m>> \in R)
  BY <1>1, <1>2, WFMin
<1>5. PICK m \in T : \A n \in T : ~(<<n, m>> \in R)
  BY <1>4
<1>6. ASSUME NEW n \in T PROVE m =< n
  <2>1. m \in Nat /\ n \in Nat /\ ~(<<n, m>> \in R)
    BY <1>1, <1>5
  <2>2. ~(n < m)
    BY <1>3, <2>1
  <2> QED BY <2>1, <2>2
<1>7. PICK x \in S : m = b - x
  BY DEF T
<1>8. \A y \in S : b - y \in T
  BY DEF T
<1>9. \A y \in S : x >= y
  BY <1>6, <1>7, <1>8
<1>10. \E z \in S : \A y \in S : z >= y
  BY <1>9
<1>11. Max(S) \in S /\ \A y \in S : Max(S) >= y
  BY <1>10 DEF Max
<1> QED BY <1>11

\* The bytes handed over were copied; top goes up to the highest of them.
LEMMA GivesEffect ==
  ASSUME RingType, Old, VffInd, HandlerInd, NEW a \in Nat, NEW n \in Nat, Gives(Cells(a, n))
  PROVE  /\ top' \in Nat /\ top =< top' /\ top' =< Copied
         /\ n = 0 => top' = top
         /\ out' = out \o Cells(a, n) /\ out' \in Seq(0 .. top') /\ Len(out') = Len(out) + n
         /\ top' = Max({top} \cup {out'[i] : i \in DOMAIN out'})
<1> DEFINE B == Cells(a, n)
           S == {top} \cup {B[i] : i \in DOMAIN B}
<1>1. Size \in Nat \ {0} /\ Copied \in Int
  BY RingNumbers, CopiedIs
<1>2. /\ top \in Nat /\ top =< Copied /\ out \in Seq(0 .. top)
      /\ \A i \in Place : mem[i] \in Nat /\ mem[i] =< Copied
  BY DEF Old
<1>3. Copied \in Nat /\ 0 .. top \subseteq 0 .. Copied
  BY <1>1, <1>2
<1>4. DOMAIN B = 1 .. n /\ \A i \in 1 .. n : B[i] = mem[(a + i - 1) % Size]
  BY DEF Cells
<1>5. \A i \in 1 .. n : (a + i - 1) % Size \in Place
  <2> SUFFICES ASSUME NEW i \in 1 .. n PROVE (a + i - 1) % Size \in Place
    OBVIOUS
  <2>1. a + i - 1 \in Nat
    OBVIOUS
  <2> QED BY <1>1, <2>1 DEF Place
<1>6. ASSUME NEW i \in 1 .. n PROVE B[i] \in 0 .. Copied
  <2>1. (a + i - 1) % Size \in Place
    BY <1>5
  <2>2. mem[(a + i - 1) % Size] \in Nat /\ mem[(a + i - 1) % Size] =< Copied
    BY <1>2, <2>1
  <2>3. B[i] = mem[(a + i - 1) % Size]
    BY <1>4
  <2> HIDE DEF B
  <2> QED BY <1>3, <2>2, <2>3
<1>7. top' = Max(S) /\ out' = out \o B
  BY DEF Gives
<1> HIDE DEF B
<1>8. S \subseteq 0 .. Copied /\ S # {} /\ top \in S
  BY <1>2, <1>3, <1>4, <1>6
<1>9. top' \in S /\ \A y \in S : y =< top'
  BY <1>3, <1>7, <1>8, MaxIs
<1>10. top' \in Nat /\ top =< top' /\ top' =< Copied
  BY <1>3, <1>8, <1>9
<1>11. \A i \in 1 .. n : B[i] \in 0 .. top'
  <2> SUFFICES ASSUME NEW i \in 1 .. n PROVE B[i] \in 0 .. top'
    OBVIOUS
  <2>1. i \in DOMAIN B
    BY <1>4
  <2>2. B[i] \in 0 .. Copied /\ B[i] \in S
    BY <1>6, <2>1
  <2>3. B[i] \in Nat /\ B[i] =< top'
    BY <1>9, <2>2
  <2> QED BY <1>10, <2>3
<1>12. 0 .. top \subseteq 0 .. top'
  BY <1>2, <1>10
<1>13. B \in [1 .. n -> 0 .. top']
  <2>1. B = [i \in 1 .. n |-> B[i]]
    BY <1>4 DEF B, Cells
  <2> QED BY <1>11, <2>1
<1>14. /\ out' \in Seq(0 .. top') /\ Len(out') = Len(out) + n /\ Len(out) \in Nat
       /\ \A i \in 1 .. n : out'[Len(out) + i] = B[i]
  <2> DEFINE X == 0 .. top
             Y == 0 .. top'
  <2>1. X \subseteq Y /\ out \in Seq(X) /\ B \in [1 .. n -> Y] /\ out' = out \o B
    BY <1>2, <1>7, <1>12, <1>13
  <2>2. DOMAIN B = 1 .. n /\ B = [i \in 1 .. n |-> B[i]]
    BY <1>4 DEF B, Cells
  <2> HIDE DEF X, Y, S
  <2>3. Len(out) \in Nat /\ out \in [1 .. Len(out) -> X]
    BY <2>1
  <2>4. out \in [1 .. Len(out) -> Y]
    BY <2>1, <2>3
  <2>5. out \in Seq(Y)
    BY <2>3, <2>4
  <2>6. B \in Seq(Y) /\ Len(B) = n
    BY <2>1, <2>2
  <2>7. out \o B \in Seq(Y) /\ Len(out \o B) = Len(out) + n
    BY <2>5, <2>6
  <2>8. \A i \in 1 .. n : (out \o B)[Len(out) + i] = B[i]
    BY <2>3, <2>5, <2>6
  <2> QED BY <2>1, <2>3, <2>7, <2>8 DEF Y
<1>15. n = 0 => top' = top
  <2> SUFFICES ASSUME n = 0 PROVE top' = top
    OBVIOUS
  <2>1. S = {top}
    BY <1>4
  <2> QED BY <1>9, <2>1
<1>16. top' = Max({top} \cup {out'[i] : i \in DOMAIN out'})
  <2> DEFINE Q == {top} \cup {out'[i] : i \in DOMAIN out'}
  <2>1. DOMAIN out' = 1 .. Len(out') /\ \A i \in 1 .. Len(out') : out'[i] \in 0 .. top'
    <3> DEFINE Y == 0 .. top'
    <3>1. out' \in Seq(Y)
      BY <1>14
    <3> HIDE DEF Y
    <3>2. DOMAIN out' = 1 .. Len(out') /\ \A i \in 1 .. Len(out') : out'[i] \in Y
      BY <3>1
    <3> QED BY <3>2 DEF Y
  <2>2. Q \subseteq 0 .. top' /\ Q # {} /\ top \in Q
    BY <1>2, <1>10, <2>1
  <2>3. top' \in Q
    <3>1. CASE top' = top
      BY <2>2, <3>1
    <3>2. CASE top' # top
      <4>1. PICK i \in 1 .. n : top' = B[i]
        BY <1>4, <1>9, <3>2
      <4>2. out'[Len(out) + i] = B[i] /\ Len(out) + i \in 1 .. Len(out')
        BY <1>14, <4>1
      <4> QED BY <2>1, <4>1, <4>2
    <3> QED BY <3>1, <3>2
  <2> HIDE DEF Q
  <2>4. Max(Q) \in Q /\ \A y \in Q : y =< Max(Q)
    BY <1>10, <2>2, MaxIs
  <2>5. Max(Q) = top'
    <3>1. Max(Q) \in 0 .. top' /\ top' =< Max(Q)
      BY <2>2, <2>3, <2>4
    <3> QED BY <1>10, <3>1
  <2> QED BY <2>5 DEF Q
<1> QED BY <1>7, <1>10, <1>14, <1>15, <1>16 DEF B

\* The bytes handed over are the next ones.
LEMMA GivesNext ==
  ASSUME RingType, Old, VffInd, HandlerInd, NEW a \in Nat, NEW n \in Nat, Gives(Cells(a, n)),
         NEW t \in Int, top =< t,
         \A i \in 1 .. n : mem[(a + i - 1) % Size] = t + i
  PROVE  /\ n # 0 => top' = t + n
         /\ Cells(a, n) = [i \in 1 .. n |-> t + i]
<1> DEFINE B == Cells(a, n)
           S == {top} \cup {B[i] : i \in DOMAIN B}
<1>1. B = [i \in 1 .. n |-> t + i]
  BY DEF Cells
<1>2. top' = Max(S) /\ top \in Nat
  BY DEF Gives, Old
<1>3. ASSUME n # 0 PROVE top' = t + n
  <2>1. DOMAIN B = 1 .. n /\ \A i \in 1 .. n : B[i] = t + i
    BY <1>1
  <2>2. t \in Nat /\ t + n \in Nat
    BY <1>2
  <2> HIDE DEF B
  <2>3. S \subseteq 0 .. t + n /\ S # {}
    <3>1. \A i \in 1 .. n : t + i \in 0 .. t + n
      BY <2>2
    <3>2. top \in 0 .. t + n
      BY <1>2, <2>2
    <3> QED BY <2>1, <3>1, <3>2
  <2>4. t + n \in S
    <3>1. n \in 1 .. n
      BY <1>3
    <3> QED BY <2>1, <3>1
  <2> HIDE DEF S
  <2>5. Max(S) \in S /\ \A y \in S : y =< Max(S)
    BY <2>2, <2>3, MaxIs
  <2>6. Max(S) \in 0 .. t + n /\ t + n =< Max(S)
    BY <2>3, <2>4, <2>5
  <2> QED BY <1>2, <2>2, <2>6
<1> QED BY <1>1, <1>3

-----------------------------------------------------------------------------
(* Every step keeps the content of the ring. *)

\* Init establishes it.
LEMMA ContentInit == Init => ContentInd
<1> SUFFICES ASSUME Init PROVE ContentInd
  OBVIOUS
<1>1. /\ Size \in Nat \ {0} /\ VffInd /\ HandlerInd /\ RingInd
  BY BtifAssumption, VffInit, HandlerInit, RingInit
<1>2. /\ sent = 0 /\ vff.wpt = 0 /\ vff.rpt = 0 /\ irq.done = 0 /\ irq.pc = "off"
      /\ mem = [i \in 0 .. Size - 1 |-> 0] /\ rd = 0 /\ wr = 0 /\ out = <<>> /\ top = 0
      /\ con.pc = "wait"
  BY DEF Init, NotRunning, Asleep
<1>3. Left = 0
  <2>1. (0 - 0) % Wrap = 0
    BY <1>1, HeldIs
  <2>2. Held(vff) = 0
    BY <1>2, <2>1 DEF Held
  <2> QED BY <1>2, <2>2 DEF Left
<1>4. Copied = 0
  BY <1>2, <1>3 DEF Copied
<1>5. Count = 0
  BY <1>2 DEF Count, CountTo
<1>6. Old
  BY <1>1, <1>2, <1>4 DEF Old, Place
<1>7. Whole
  BY <1>5 DEF Whole
<1>8. Behind
  BY <1>2, <1>4, <1>5 DEF Behind, InRing
<1>9. Given
  BY <1>2 DEF Given
<1> QED BY <1>6, <1>7, <1>8, <1>9 DEF ContentInd

\* A reset ring holds nothing; if btif_rxd is in a pass it is hurt.
LEMMA ContentReset ==
  ASSUME VffInd, HandlerInd, RingInd, ContentInd, ResetRing, UNCHANGED conVars,
         Copied' \in Int, Copied =< Copied'
  PROVE  ContentInd'
<1>1. /\ rd' = 0 /\ wr' = 0 /\ mem' = mem /\ con' = con /\ out' = out /\ top' = top
      /\ hurt' <=> con.pc \in InPass
  BY DEF ResetRing, conVars, InPass
<1>2. Copied \in Int /\ top \in Nat /\ top =< Copied
      /\ \A i \in Place : mem[i] \in Nat /\ mem[i] =< Copied
  BY CopiedIs DEF ContentInd, Old
<1>3. Count' = 0
  BY <1>1 DEF Count, CountTo
<1>4. Old'
  BY <1>1, <1>2 DEF ContentInd, Old
<1>5. Whole'
  BY <1>3 DEF Whole
<1>6. Behind'
  <2>1. ~hurt' => InRing' = 0
    BY <1>1, <1>3 DEF InRing, InPass
  <2> SUFFICES ASSUME ~hurt' PROVE top' =< Copied' - InRing'
    BY DEF Behind
  <2>2. top' = top /\ InRing' = 0
    BY <1>1, <2>1
  <2>3. top =< Copied' - 0
    <3>1. \A a, b, c \in Int : a =< b /\ b =< c => a =< c - 0
      OBVIOUS
    <3>2. top \in Int /\ Copied \in Int /\ top =< Copied /\ Copied =< Copied' /\ Copied' \in Int
      BY <1>2
    <3> QED BY <3>1, <3>2
  <2> QED BY <2>2, <2>3
<1>7. Given'
  BY <1>1 DEF ContentInd, Given, InPass
<1> QED BY <1>4, <1>5, <1>6, <1>7 DEF ContentInd

\* Nothing of the ring and of btif_rxd moves.
LEMMA ContentIdle ==
  ASSUME VffInd, HandlerInd, RingInd, ContentInd, UNCHANGED <<ringVars, conVars, hurt>>,
         Copied' = Copied \/ (Copied' \in Int /\ Copied =< Copied' /\ ~vff'.receiver),
         vff'.receiver => vff.receiver,
         ~hurt /\ con.pc = "advance" /\ cb' => cb,
         wmt' = "opened" => wmt = "opened"
  PROVE  ContentInd'
<1>1. /\ rd' = rd /\ wr' = wr /\ mem' = mem /\ con' = con /\ out' = out /\ top' = top
      /\ hurt' = hurt
  BY DEF ringVars, conVars
<1>2. Copied \in Int /\ top \in Nat /\ top =< Copied
      /\ \A i \in Place : mem[i] \in Nat /\ mem[i] =< Copied
  BY CopiedIs DEF ContentInd, Old
<1>3. Count' = Count /\ InRing' = InRing /\ CountTo(con.wr)' = CountTo(con.wr)
  BY <1>1 DEF Count, CountTo, InRing
<1>4. Copied' \in Int /\ Copied =< Copied'
  BY <1>2
<1>5. Old'
  BY <1>1, <1>2, <1>4 DEF ContentInd, Old
<1>6. Whole'
  BY <1>1, <1>3 DEF ContentInd, Whole
<1>7. Behind'
  <2>1. InRing \in Int
    <3>1. Count \in Int /\ wr \in Int /\ (wr - con.wr) % Size \in Int
      BY CountIs, RingNumbers DEF RingInd, RingType
    <3> QED BY <3>1 DEF InRing
  <2> SUFFICES ASSUME ~hurt' PROVE top' =< Copied' - InRing'
    BY DEF Behind
  <2>2. top =< Copied - InRing
    BY <1>1 DEF ContentInd, Behind
  <2>3. top =< Copied' - InRing
    <3>1. \A a, b, c, d \in Int : a =< b - d /\ b =< c => a =< c - d
      OBVIOUS
    <3>2. top \in Int /\ Copied \in Int /\ Copied =< Copied' /\ Copied' \in Int
      BY <1>2, <1>4
    <3> QED BY <2>1, <2>2, <3>1, <3>2
  <2> QED BY <1>1, <1>3, <2>3
<1>8. Given'
  BY <1>1, <1>3 DEF ContentInd, Given
<1> QED BY <1>5, <1>6, <1>7, <1>8 DEF ContentInd

\* A chunk written: all of it, when the ring is not hurt.
LEMMA WriteEffect ==
  ASSUME VffInd, HandlerInd, RingInd, InFifo, IrqWrite
  PROVE  \E n \in Nat :
           /\ n =< Size - Count - 1 /\ n =< Head(irq.todo)
           /\ wr' = (wr + n) % Size
           /\ mem' = [i \in Place |-> IF (i - wr) % Size < n
                                      THEN Copied + ((i - wr) % Size) + 1 ELSE mem[i]]
           /\ ~hurt => /\ n = Head(irq.todo) /\ vff' = vff
                       /\ Count' = Count + n /\ InRing' = InRing + n
<1> DEFINE c == Head(irq.todo)
           n == IF c =< Free THEN c ELSE Free
<1>1. /\ irq.pc = "write" /\ UNCHANGED <<rd, con, hurt>> /\ wr' = (wr + n) % Size
      /\ mem' = [i \in 0 .. Size - 1 |->
              IF (i - wr) % Size < n
              THEN vff.mem[(vff.rpt + irq.done + ((i - wr) % Size)) % VffSize] ELSE mem[i]]
  BY DEF IrqWrite, conVars
<1>2. /\ Size \in Nat \ {0} /\ rd \in 0 .. Size - 1 /\ wr \in 0 .. Size - 1
      /\ MaxPending \in Nat /\ VffSize \in Nat /\ MaxPending + VffSize =< Size
      /\ Count \in 0 .. Size - 1 /\ RingType
  BY RingNumbers, CountIs DEF RingInd, RingType, Place
<1>3. /\ irq.done \in Nat /\ c \in 1 .. VffSize /\ irq.done + c =< Held(vff)
      /\ Left = Held(vff) - irq.done /\ Held(vff) \in Nat /\ sent \in Nat
      /\ vff.rpt \in Nat /\ irq \in IrqRecord
  BY <1>1, LeftIs, HeldIs, CopiedIs
<1>4. Free = Size - Count - 1
  BY DEF Free
<1>5. n \in Nat /\ n =< Size - Count - 1 /\ n =< c
  BY <1>2, <1>3, <1>4
<1>6. \A k \in 0 .. Held(vff) - 1 :
         vff.mem[(vff.rpt + k) % VffSize] = sent - Held(vff) + k + 1
  BY DEF InFifo
<1>7. ~hurt => n = c /\ Free > 0
  <2>1. ~hurt => Count < MaxPending
    BY <1>1 DEF RingInd, BelowLimit
  <2> QED BY <1>2, <1>3, <1>4, <2>1
<1>8. ASSUME ~hurt PROVE vff' = vff
  BY <1>2, <1>4, <1>7, <1>8 DEF IrqWrite
<1> HIDE DEF n
<1>9. ASSUME NEW i \in 0 .. Size - 1, (i - wr) % Size < n
      PROVE  vff.mem[(vff.rpt + irq.done + ((i - wr) % Size)) % VffSize]
                = Copied + ((i - wr) % Size) + 1
  <2> DEFINE j == (i - wr) % Size
  <2>1. j \in Nat /\ j < n
    BY <1>2, <1>9
  <2> HIDE DEF j
  <2>2. irq.done + j \in 0 .. Held(vff) - 1
    <3> DEFINE h == Held(vff)
    <3>1. h \in Nat /\ irq.done + c =< h
      BY <1>3
    <3> HIDE DEF h, c
    <3> QED BY <1>3, <1>5, <2>1, <3>1 DEF h
  <2>3. vff.mem[(vff.rpt + (irq.done + j)) % VffSize] = sent - Held(vff) + (irq.done + j) + 1
    BY <1>6, <2>2
  <2>4. vff.rpt + (irq.done + j) = vff.rpt + irq.done + j
    BY <1>3, <2>1
  <2>5. sent - Held(vff) + (irq.done + j) + 1 = Copied + j + 1
    BY <1>3, <2>1 DEF Copied
  <2> QED BY <2>3, <2>4, <2>5 DEF j
<1>10. mem' = [i \in Place |-> IF (i - wr) % Size < n
                               THEN Copied + ((i - wr) % Size) + 1 ELSE mem[i]]
  BY <1>1, <1>9 DEF Place
<1>11. wr' = IF wr + n < Size THEN wr + n ELSE wr + n - Size
  <2>1. n \in 0 .. Size - 1
    BY <1>2, <1>5
  <2> QED BY <1>1, <1>2, <2>1, Forth
<1>12. Count' = Count + n
  <2>1. Count = IF wr >= rd THEN wr - rd ELSE Size - (rd - wr)
    BY DEF Count, CountTo
  <2>2. Count' = IF wr' >= rd THEN wr' - rd ELSE Size - (rd - wr')
    BY <1>1 DEF Count, CountTo
  <2> QED BY <1>2, <1>5, <1>11, <2>1, <2>2
<1>13. ASSUME ~hurt PROVE InRing' = InRing + n
  <2>1. CASE con.pc = "rest"
    <3>1. wr < rd /\ con.pc \in InPass
      BY <1>13, <2>1, PassSplit DEF InPass
    <3>2. Count = Size - (rd - wr)
      BY <1>2, <3>1 DEF Count, CountTo
    <3>3. wr' = wr + n
      BY <1>2, <1>5, <1>11, <3>1, <3>2
    <3> QED BY <1>1, <2>1, <3>3 DEF InRing
  <2>2. CASE con.pc = "advance"
    <3>1. /\ CountTo(con.wr) =< Count /\ con.wr \in 0 .. Size - 1
          /\ (wr - con.wr) % Size = Count - CountTo(con.wr)
      BY <1>13, <2>2, PassSplit, RingNumbers DEF InPass, RingInd, RingType, ConRecord, Place
    <3>2. CountTo(con.wr) = IF con.wr >= rd THEN con.wr - rd ELSE Size - (rd - con.wr)
      BY DEF CountTo
    <3>3. wr' \in 0 .. Size - 1
      BY <1>2, <1>5, <1>11
    <3>4. (wr' - con.wr) % Size = IF wr' >= con.wr THEN wr' - con.wr ELSE Size - (con.wr - wr')
      BY <3>1, <3>3, Back
    <3>5. Count' = IF wr' >= rd THEN wr' - rd ELSE Size - (rd - wr')
      BY <1>1 DEF Count, CountTo
    <3>6. (wr' - con.wr) % Size = (Count + n) - CountTo(con.wr)
      <4> DEFINE m == CountTo(con.wr)
                 q == con.wr
                 w == wr'
                 z == Count + n
                 d == (w - q) % Size
      <4>1. /\ rd \in Nat /\ rd < Size /\ w \in Nat /\ w < Size /\ q \in Nat /\ q < Size
            /\ Size \in Nat /\ z \in Nat
        BY <1>2, <1>5, <3>1, <3>3
      <4>2. m = IF q >= rd THEN q - rd ELSE Size - (rd - q)
        BY <3>2
      <4>3. d = IF w >= q THEN w - q ELSE Size - (q - w)
        BY <3>4
      <4>4. z = IF w >= rd THEN w - rd ELSE Size - (rd - w)
        BY <1>12, <3>5
      <4>5. m =< Count /\ m \in Int /\ Count \in Nat /\ n \in Nat /\ z = Count + n
        BY <1>2, <1>5, <3>1, <4>1, <4>2
      <4> HIDE DEF m, q, w, z, d
      <4>6. m =< z
        BY <4>5
      <4>7. d = z - m
        BY <4>1, <4>2, <4>3, <4>4, <4>6
      <4> QED BY <4>7 DEF m, d, z, w, q
    <3>7. (wr' - con.wr) % Size = ((wr - con.wr) % Size) + n
      <4> DEFINE e == (wr' - con.wr) % Size
                 d == (wr - con.wr) % Size
                 m == CountTo(con.wr)
      <4>1. m \in Int /\ d = Count - m /\ e = (Count + n) - m
        BY <1>2, <3>1, <3>2, <3>6
      <4> HIDE DEF e, d, m
      <4>2. e = d + n
        BY <1>2, <1>5, <4>1
      <4> QED BY <4>2 DEF e, d
    <3> QED BY <1>1, <2>2, <3>7 DEF InRing
  <2>3. CASE con.pc \notin {"rest", "advance"}
    BY <1>1, <1>12, <2>3 DEF InRing
  <2> QED BY <2>1, <2>2, <2>3
<1> QED BY <1>1, <1>5, <1>7, <1>8, <1>10, <1>12, <1>13

\* A chunk written follows on what the ring has.
LEMMA ContentWrite ==
  ASSUME VffInd, HandlerInd, RingInd, InFifo, ContentInd, IrqWrite
  PROVE  ContentInd'
<1>1. PICK n \in Nat :
        /\ n =< Size - Count - 1 /\ n =< Head(irq.todo)
        /\ wr' = (wr + n) % Size
        /\ mem' = [i \in Place |-> IF (i - wr) % Size < n
                                   THEN Copied + ((i - wr) % Size) + 1 ELSE mem[i]]
        /\ ~hurt => /\ n = Head(irq.todo) /\ vff' = vff
                    /\ Count' = Count + n /\ InRing' = InRing + n
  BY WriteEffect
<1>2. Copied' = Copied + Head(irq.todo) /\ Copied \in Int /\ Head(irq.todo) \in Nat
  <2>1. irq.pc = "write"
    BY DEF IrqWrite
  <2> QED BY <2>1, CopiedWrite, CopiedIs, LeftIs
<1>3. UNCHANGED <<rd, con, out, top, hurt, cb, wmt>>
  BY DEF IrqWrite, conVars, lifeVars
<1>4. /\ Size \in Nat \ {0} /\ rd \in Place /\ wr \in Place /\ Count \in 0 .. Size - 1 /\ RingType
      /\ \A i \in Place : (i - wr) % Size \in Nat
  <2>1. ASSUME NEW i \in Place PROVE (i - wr) % Size \in Nat
    <3>1. Size \in Nat \ {0} /\ i \in 0 .. Size - 1 /\ wr \in 0 .. Size - 1
      BY RingNumbers DEF RingInd, RingType, Place
    <3>2. (i - wr) % Size = IF i >= wr THEN i - wr ELSE Size - (wr - i)
      BY <3>1, Back
    <3> QED BY <3>1, <3>2
  <2> QED BY <2>1, RingNumbers, CountIs DEF RingInd, RingType
<1>5. /\ mem \in [Place -> Nat] /\ \A i \in Place : mem[i] \in Nat /\ mem[i] =< Copied
      /\ top \in Nat /\ top =< Copied /\ out \in Seq(0 .. top)
  BY DEF ContentInd, Old
<1>6. Copied \in Nat /\ Copied' \in Nat /\ Copied =< Copied'
  <2>1. Copied \in Nat
    BY <1>2, <1>5
  <2> QED BY <1>2, <2>1
<1>7. \A i \in Place : mem'[i] \in Nat /\ mem'[i] =< Copied'
  <2> SUFFICES ASSUME NEW i \in Place PROVE mem'[i] \in Nat /\ mem'[i] =< Copied'
    OBVIOUS
  <2> DEFINE j == (i - wr) % Size
             c == Head(irq.todo)
  <2>1. j \in Nat /\ mem'[i] = IF j < n THEN Copied + j + 1 ELSE mem[i]
    BY <1>1, <1>4
  <2>2. n =< c /\ Copied' = Copied + c /\ c \in Nat
    BY <1>1, <1>2
  <2>3. mem[i] \in Nat /\ mem[i] =< Copied
    BY <1>5
  <2> HIDE DEF j, c
  <2>4. CASE j < n
    <3>1. mem'[i] = Copied + j + 1
      BY <2>1, <2>4
    <3>2. j + 1 =< c
      BY <2>1, <2>2, <2>4
    <3>3. Copied + j + 1 \in Nat /\ Copied + j + 1 =< Copied + c
      BY <1>6, <2>1, <2>2, <3>2
    <3> QED BY <2>2, <3>1, <3>3
  <2>5. CASE ~(j < n)
    <3>1. mem'[i] = mem[i]
      BY <2>1, <2>5
    <3> QED BY <1>6, <2>3, <3>1
  <2> QED BY <2>4, <2>5
<1>8. Old'
  <2>1. mem' \in [Place -> Nat]
    <3>1. mem' = [i \in Place |-> mem'[i]]
      BY <1>1
    <3> QED BY <1>7, <3>1
  <2>2. top' \in Nat /\ top' =< Copied' /\ out' \in Seq(0 .. top')
    <3>1. top =< Copied'
      BY <1>5, <1>6
    <3> QED BY <1>3, <1>5, <3>1
  <2> QED BY <1>7, <2>1, <2>2 DEF Old, Place
<1>9. Whole'
  <2> SUFFICES ASSUME ~hurt', vff'.receiver, NEW k \in 0 .. Count' - 1
               PROVE  mem'[(rd' + k) % Size] = Copied' - Count' + k + 1
    BY DEF Whole
  <2> DEFINE p == (rd + k) % Size
             j == (p - wr) % Size
  <2>1. ~hurt /\ vff.receiver /\ Count' = Count + n /\ Copied' = Copied + n /\ n =< Size - Count - 1
    BY <1>1, <1>2, <1>3
  <2>2. k \in 0 .. Size - 1 /\ k < Count + n /\ k \in Nat
    BY <1>4, <2>1
  <2>3. p \in Place /\ (k >= Count => j = k - Count) /\ (k < Count => j = Size - (Count - k))
    BY <1>4, <2>2, FromWr
  <2>4. mem'[p] = IF j < n THEN Copied + j + 1 ELSE mem[p]
    BY <1>1, <2>3
  <2>5. Copied' - Count' + k + 1 = Copied - Count + k + 1
    BY <1>4, <1>6, <2>1, <2>2
  <2>6. k < Count => mem[p] = Copied - Count + k + 1
    <3>1. \A q \in 0 .. Count - 1 : mem[(rd + q) % Size] = Copied - Count + q + 1
      BY <2>1 DEF ContentInd, Whole
    <3>2. k < Count => k \in 0 .. Count - 1
      BY <1>4, <2>2
    <3> QED BY <3>1, <3>2
  <2> HIDE DEF p, j
  <2>7. CASE k >= Count
    <3>1. j = k - Count /\ j < n
      BY <1>4, <2>2, <2>3, <2>7
    <3>2. mem'[p] = Copied + (k - Count) + 1
      BY <2>4, <3>1
    <3>3. Copied + (k - Count) + 1 = Copied - Count + k + 1
      BY <1>4, <1>6, <2>2
    <3> QED BY <1>3, <2>5, <3>2, <3>3 DEF p
  <2>8. CASE k < Count
    <3>1. ~(j < n)
      BY <1>4, <2>1, <2>2, <2>3, <2>8
    <3> QED BY <1>3, <2>4, <2>5, <2>6, <2>8, <3>1 DEF p
  <2> QED BY <1>4, <2>2, <2>7, <2>8
<1>10. Behind'
  <2> SUFFICES ASSUME ~hurt' PROVE top' =< Copied' - InRing'
    BY DEF Behind
  <2>1. ~hurt /\ InRing' = InRing + n /\ Copied' = Copied + n /\ top' = top
    BY <1>1, <1>2, <1>3
  <2>2. top =< Copied - InRing
    BY <2>1 DEF ContentInd, Behind
  <2>3. InRing \in Int
    <3>1. Count \in Int /\ wr \in Int /\ (wr - con.wr) % Size \in Int
      BY <1>4, CountIs, RingNumbers DEF RingType
    <3> QED BY <3>1 DEF InRing
  <2>4. Copied' - InRing' = Copied - InRing
    BY <1>6, <2>1, <2>3
  <2> QED BY <2>1, <2>2, <2>4
<1>11. Given'
  <2>1. CountTo(con.wr)' = CountTo(con.wr)
    BY <1>3 DEF CountTo
  <2> QED BY <1>3, <2>1 DEF ContentInd, Given
<1> QED BY <1>8, <1>9, <1>10, <1>11 DEF ContentInd

\* btif_rxd wakes up and looks at wr_idx.
LEMMA ContentLook ==
  ASSUME VffInd, HandlerInd, RingInd, ContentInd, Wake \/ Look, Copied' = Copied
  PROVE  ContentInd'
<1>1. /\ UNCHANGED <<mem, rd, wr, out, top, hurt, vff, cb, wmt>>
      /\ con.pc \in {"wait", "look"} /\ con'.pc \in {"look", "hand"}
  <2>1. con \in ConRecord
    BY DEF RingInd, RingType
  <2>2. con'.pc \in {"look", "hand"}
    BY <2>1 DEF Wake, Look, ConRecord
  <2> QED BY <2>2 DEF Wake, Look, ringVars, irqVars, lifeVars
<1>2. Count' = Count /\ InRing = Count /\ InRing' = Count'
  <2>1. Count' = Count
    BY <1>1 DEF Count, CountTo
  <2> QED BY <1>1, <2>1 DEF InRing
<1>3. Old'
  BY <1>1 DEF ContentInd, Old
<1>4. Whole'
  BY <1>1, <1>2 DEF ContentInd, Whole
<1>5. Behind'
  BY <1>1, <1>2 DEF ContentInd, Behind
<1>6. Given'
  BY <1>1 DEF ContentInd, Given
<1> QED BY <1>3, <1>4, <1>5, <1>6 DEF ContentInd

\* With rx_cb set the engine has its receiver.
LEMMA UpHasReceiver ==
  ASSUME VffInd, HandlerInd, Life, cb
  PROVE  vff.receiver /\ wmt = "up" /\ state = "ON" /\ InVff = Left
<1>1. wmt = "up" /\ state = "ON"
  BY DEF Life
<1> QED BY <1>1 DEF HandlerInd, InVff, Left

\* The first call of a pass, or its end.
LEMMA HandEffect ==
  ASSUME VffInd, HandlerInd, Life, RingInd, ContentInd, Hand
  PROVE  /\ con.pc = "hand" /\ out = <<>> /\ UNCHANGED <<lifeVars, sent, irqVars, ringVars, comp>>
         /\ Count' = Count /\ InRing = Count
         /\ \/ /\ CountTo(con.wr) = 0 \/ ~cb
               /\ con'.pc = "wait" /\ con' = Asleep /\ out' = <<>> /\ top' = top
               /\ hurt' \in BOOLEAN /\ (hurt' <=> hurt /\ ~WholeFrom(rd)) /\ InRing' = Count
            \/ /\ cb /\ vff.receiver /\ hurt' = hurt
               /\ \E n \in Nat :
                    /\ n # 0 /\ Gives(Cells(rd, n))
                    /\ con'.pc \in {"rest", "advance"} /\ con'.wr = con.wr
                    /\ con'.pc = "advance" => n = CountTo(con.wr)
                    /\ con'.pc = "rest" => n = con'.tail
                    /\ ~hurt => /\ n =< Count /\ InRing' = Count - n
                                /\ \A i \in 1 .. n : mem[(rd + i - 1) % Size] = Copied - Count + i
<1>1. /\ con.pc = "hand" /\ UNCHANGED <<lifeVars, sent, irqVars, ringVars, comp>>
      /\ rd' = rd /\ wr' = wr
  BY DEF Hand, ringVars
<1>2. out = <<>> /\ InRing = Count /\ Count' = Count
  BY <1>1 DEF ContentInd, Given, InRing, Count, CountTo
<1>3. /\ Size \in Nat \ {0} /\ rd \in Nat /\ wr \in Nat /\ rd < Size /\ wr < Size
      /\ con.wr \in Nat /\ con.wr < Size /\ con \in ConRecord /\ Count \in 0 .. Size - 1
      /\ CountTo(con.wr) = IF con.wr >= rd THEN con.wr - rd ELSE Size - (rd - con.wr)
  BY RingNumbers, CountIs DEF RingInd, CountTo
<1>4. Copied \in Int
  BY CopiedIs
<1>5. ASSUME ~hurt, cb, NEW n \in 1 .. Count
      PROVE  \A i \in 1 .. n : mem[(rd + i - 1) % Size] = Copied - Count + i
  <2> SUFFICES ASSUME NEW i \in 1 .. n PROVE mem[(rd + i - 1) % Size] = Copied - Count + i
    OBVIOUS
  <2>1. \A k \in 0 .. Count - 1 : mem[(rd + k) % Size] = Copied - Count + k + 1
    BY <1>5, UpHasReceiver DEF ContentInd, Whole
  <2>2. i - 1 \in 0 .. Count - 1
    BY <1>3
  <2>3. mem[(rd + (i - 1)) % Size] = Copied - Count + (i - 1) + 1
    BY <2>1, <2>2
  <2>4. rd + (i - 1) = rd + i - 1 /\ Copied - Count + (i - 1) + 1 = Copied - Count + i
    BY <1>3, <1>4
  <2> QED BY <2>3, <2>4
<1>6. ~hurt => CountTo(con.wr) =< Count
  BY <1>1, PassSplit DEF InPass
<1>7. CASE /\ CountTo(con.wr) = 0 \/ ~cb
           /\ con' = Asleep /\ UNCHANGED <<out, top>>
           /\ hurt' = (hurt /\ ~WholeFrom(rd))
  <2>1. con'.pc = "wait"
    BY <1>7 DEF Asleep
  <2>2. InRing' = Count
    BY <1>2, <2>1 DEF InRing
  <2>3. hurt' \in BOOLEAN /\ (hurt' <=> hurt /\ ~WholeFrom(rd))
    BY <1>7
  <2> QED BY <1>1, <1>2, <1>7, <2>1, <2>2, <2>3
<1>8. CASE /\ cb /\ rd < con.wr /\ Gives(Cells(rd, con.wr - rd))
           /\ con' = [con EXCEPT !.pc = "advance"] /\ UNCHANGED hurt
  <2> DEFINE n == con.wr - rd
  <2>1. n \in Nat /\ n # 0 /\ n = CountTo(con.wr)
    BY <1>3, <1>8
  <2>2. con'.pc = "advance" /\ con'.wr = con.wr
    BY <1>3, <1>8 DEF ConRecord
  <2>3. ASSUME ~hurt
        PROVE  /\ n =< Count /\ InRing' = Count - n
               /\ \A i \in 1 .. n : mem[(rd + i - 1) % Size] = Copied - Count + i
    <3>1. n =< Count /\ (wr - con.wr) % Size = Count - n
      BY <1>1, <2>1, <2>3, PassSplit DEF InPass
    <3>2. InRing' = (wr - con.wr) % Size
      BY <1>1, <2>2 DEF InRing
    <3>3. n \in 1 .. Count
      BY <1>3, <2>1, <3>1
    <3> HIDE DEF n
    <3> QED BY <1>5, <1>8, <2>3, <3>1, <3>2, <3>3
  <2>4. vff.receiver
    BY <1>8, UpHasReceiver
  <2> QED BY <1>1, <1>2, <1>8, <2>1, <2>2, <2>3, <2>4
<1>9. CASE /\ cb /\ rd > con.wr /\ Gives(Cells(rd, Size - rd))
           /\ con' = [con EXCEPT !.pc = "rest", !.tail = Size - rd] /\ UNCHANGED hurt
  <2> DEFINE n == Size - rd
  <2>1. n \in Nat /\ n # 0
    BY <1>3
  <2>2. con'.pc = "rest" /\ con'.wr = con.wr /\ con'.tail = n
    BY <1>3, <1>9 DEF ConRecord
  <2>3. ASSUME ~hurt
        PROVE  /\ n =< Count /\ InRing' = Count - n
               /\ \A i \in 1 .. n : mem[(rd + i - 1) % Size] = Copied - Count + i
    <3>1. CountTo(con.wr) =< Count /\ CountTo(con.wr) = n + con.wr
      BY <1>3, <1>6, <1>9, <2>3
    <3>2. Count = IF wr >= rd THEN wr - rd ELSE Size - (rd - wr)
      BY DEF Count, CountTo
    <3>3. n =< Count /\ wr = Count - n
      BY <1>3, <1>9, <3>1, <3>2
    <3>4. InRing' = wr
      BY <1>1, <2>2 DEF InRing
    <3>5. n \in 1 .. Count
      BY <1>3, <2>1, <3>3
    <3> HIDE DEF n
    <3> QED BY <1>5, <1>9, <2>3, <3>3, <3>4, <3>5
  <2>4. vff.receiver
    BY <1>9, UpHasReceiver
  <2> QED BY <1>1, <1>2, <1>9, <2>1, <2>2, <2>3, <2>4
<1> QED BY <1>7, <1>8, <1>9 DEF Hand

\* The second call.
LEMMA RestEffect ==
  ASSUME VffInd, HandlerInd, Life, RingInd, ContentInd, Rest
  PROVE  /\ con.pc = "rest" /\ UNCHANGED <<lifeVars, sent, irqVars, ringVars, comp, hurt>>
         /\ Count' = Count /\ InRing = wr
         /\ \/ hurt /\ con'.pc = "crashed" /\ out' = out /\ top' = top
            \/ /\ ~cb /\ con'.pc = "advance" /\ con'.wr = con.wr /\ out' = out /\ top' = top
               /\ ~hurt => InRing' = InRing - con.wr
            \/ /\ cb /\ vff.receiver
               /\ \E n \in Nat :
                    /\ Gives(Cells(0, n))
                    /\ con'.pc = "advance" /\ con'.wr = con.wr
                    /\ n = CountTo(con.wr) - con.tail
                    /\ ~hurt => /\ n =< InRing /\ InRing' = InRing - n
                                /\ \A i \in 1 .. n : mem[(0 + i - 1) % Size] = Copied - InRing + i
<1> DEFINE n == CountTo(con.wr) - con.tail
<1>1. /\ con.pc = "rest" /\ UNCHANGED <<lifeVars, sent, irqVars, ringVars, comp, hurt>>
      /\ rd' = rd /\ wr' = wr
  BY DEF Rest, ringVars
<1>2. InRing = wr /\ Count' = Count
  BY <1>1 DEF InRing, Count, CountTo
<1>3. /\ Size \in Nat \ {0} /\ rd \in Nat /\ wr \in Nat /\ rd < Size /\ wr < Size
      /\ con.wr \in Nat /\ con.wr < Size /\ con \in ConRecord /\ Count \in 0 .. Size - 1
      /\ CountTo(con.wr) \in Nat /\ con.tail \in Nat
  <2>1. con.tail \in 0 .. Size /\ Size \in Nat
    BY RingNumbers DEF RingInd, RingType, ConRecord
  <2> QED BY <2>1, RingNumbers, CountIs DEF RingInd
<1>4. ASSUME ~hurt
      PROVE  /\ con.tail = Size - rd /\ n = con.wr
             /\ con.wr =< wr /\ wr < rd /\ Count = con.tail + wr
             /\ (wr - con.wr) % Size = wr - con.wr
  BY <1>1, <1>3, <1>4, PassSplit DEF InPass
<1>5. \/ n < 0 /\ con' = [con EXCEPT !.pc = "crashed"] /\ UNCHANGED <<out, top>>
      \/ n >= 0 /\ con' = [con EXCEPT !.pc = "advance"] /\ ~cb /\ UNCHANGED <<out, top>>
      \/ n >= 0 /\ con' = [con EXCEPT !.pc = "advance"] /\ cb /\ Gives(Cells(0, n))
  BY DEF Rest
<1> HIDE DEF n
<1>6. CASE n < 0 /\ con' = [con EXCEPT !.pc = "crashed"] /\ UNCHANGED <<out, top>>
  <2>1. hurt
    BY <1>3, <1>4, <1>6
  <2>2. con'.pc = "crashed"
    BY <1>3, <1>6 DEF ConRecord
  <2> QED BY <1>1, <1>2, <1>6, <2>1, <2>2
<1>7. ASSUME con' = [con EXCEPT !.pc = "advance"]
      PROVE  /\ con'.pc = "advance" /\ con'.wr = con.wr
             /\ ~hurt => InRing' = InRing - con.wr
  <2>1. con'.pc = "advance" /\ con'.wr = con.wr
    BY <1>3, <1>7 DEF ConRecord
  <2>2. InRing' = (wr - con.wr) % Size
    BY <1>1, <2>1 DEF InRing
  <2> QED BY <1>2, <1>4, <2>1, <2>2
<1>8. CASE n >= 0 /\ con' = [con EXCEPT !.pc = "advance"] /\ ~cb /\ UNCHANGED <<out, top>>
  BY <1>1, <1>2, <1>7, <1>8
<1>9. CASE n >= 0 /\ con' = [con EXCEPT !.pc = "advance"] /\ cb /\ Gives(Cells(0, n))
  <2>1. n \in Nat
    BY <1>3, <1>9 DEF n
  <2>2. ASSUME ~hurt, NEW i \in 1 .. n
        PROVE  mem[(0 + i - 1) % Size] = Copied - InRing + i
    <3>1. \A k \in 0 .. Count - 1 : mem[(rd + k) % Size] = Copied - Count + k + 1
      BY <1>9, <2>2, UpHasReceiver DEF ContentInd, Whole
    <3> DEFINE k == Size - rd + (i - 1)
    <3>2. i \in Nat /\ i =< con.wr
      BY <1>4, <2>1, <2>2
    <3>3. k \in 0 .. Count - 1 /\ k \in 0 .. Size - 1 /\ rd + k >= Size /\ rd + k - Size = i - 1
      BY <1>3, <1>4, <2>2, <3>2
    <3>4. Copied \in Int
      BY CopiedIs
    <3>5. Copied - Count + k + 1 = Copied - wr + i
      BY <1>3, <1>4, <2>2, <3>2, <3>4
    <3> HIDE DEF k
    <3>6. (rd + k) % Size = i - 1
      <4>1. rd \in 0 .. Size - 1
        BY <1>3
      <4>2. (rd + k) % Size = IF rd + k < Size THEN rd + k ELSE rd + k - Size
        BY <3>3, <4>1, Forth
      <4> QED BY <1>3, <3>3, <4>2
    <3>7. mem[i - 1] = Copied - wr + i
      BY <3>1, <3>3, <3>5, <3>6
    <3>8. (0 + i - 1) % Size = i - 1
      BY <1>3, <1>4, <2>2, <3>2
    <3> QED BY <1>2, <3>7, <3>8
  <2>3. /\ ~hurt => n =< InRing /\ InRing' = InRing - n
        /\ n = CountTo(con.wr) - con.tail
    BY <1>2, <1>4, <1>7, <1>9 DEF n
  <2>4. vff.receiver
    BY <1>9, UpHasReceiver
  <2> QED BY <1>1, <1>2, <1>7, <1>9, <2>1, <2>2, <2>3, <2>4
<1> QED BY <1>5, <1>6, <1>8, <1>9

\* rd_idx is moved; what is left for STP stays.
LEMMA AdvanceEffect ==
  ASSUME RingInd, Advance
  PROVE  /\ con.pc = "advance" /\ con'.pc = "look" /\ rd' = con.wr
         /\ UNCHANGED <<lifeVars, sent, irqVars, mem, wr, comp, top, early>> /\ out' = <<>>
         /\ hurt' \in BOOLEAN /\ (hurt' <=> hurt /\ ~WholeFrom(con.wr))
         /\ con.wr \in Place
         /\ InRing = (wr - con.wr) % Size /\ Count' = InRing /\ InRing' = InRing
<1>1. /\ con.pc = "advance" /\ rd' = con.wr /\ out' = <<>> /\ con' = [Asleep EXCEPT !.pc = "look"]
      /\ hurt' = (hurt /\ ~WholeFrom(con.wr))
      /\ UNCHANGED <<lifeVars, sent, irqVars, mem, wr, comp, top, early>>
  BY DEF Advance, NewReadIdx
<1>2. con'.pc = "look"
  BY <1>1 DEF Asleep
<1>3. hurt' \in BOOLEAN /\ (hurt' <=> hurt /\ ~WholeFrom(con.wr))
  BY <1>1
<1>4. con.wr \in Place /\ wr \in Place
  BY DEF RingInd, RingType, ConRecord
<1>5. InRing = (wr - con.wr) % Size
  BY <1>1 DEF InRing
<1>6. Count' = IF wr >= con.wr THEN wr - con.wr ELSE Size - (con.wr - wr)
  BY <1>1 DEF Count, CountTo
<1>7. Count' = InRing
  BY <1>4, <1>5, <1>6, Back DEF Place
<1>8. InRing' = Count'
  BY <1>2 DEF InRing
<1> QED BY <1>1, <1>2, <1>3, <1>4, <1>5, <1>7, <1>8

\* The first call of a pass hands over the first part of the content; its end
\* leaves the ring as it is, whole again if it was hurt and looks whole.
LEMMA ContentHand ==
  ASSUME VffInd, HandlerInd, Life, RingInd, ContentInd, Hand, Copied' = Copied
  PROVE  ContentInd'
<1>1. /\ con.pc = "hand" /\ out = <<>> /\ UNCHANGED <<lifeVars, sent, irqVars, ringVars, comp>>
      /\ Count' = Count /\ InRing = Count
  BY HandEffect
<1>2. /\ rd' = rd /\ wr' = wr /\ mem' = mem /\ vff' = vff /\ cb' = cb /\ wmt' = wmt
  BY <1>1 DEF ringVars, irqVars, lifeVars
<1>3. /\ mem \in [Place -> Nat] /\ \A i \in Place : mem[i] =< Copied
      /\ top \in Nat /\ top =< Copied /\ out \in Seq(0 .. top)
      /\ RingType /\ rd \in Place /\ Count \in Nat /\ Copied \in Int
      /\ Count = (wr - rd) % Size
  BY CopiedIs, RingNumbers, CountIs DEF ContentInd, Old, RingInd, RingType
<1>4. CASE /\ con'.pc = "wait" /\ out' = <<>> /\ top' = top
           /\ hurt' \in BOOLEAN /\ (hurt' <=> hurt /\ ~WholeFrom(rd)) /\ InRing' = Count
  <2>1. Old'
    <3>1. out' \in Seq(0 .. top')
      BY <1>4
    <3> QED BY <1>2, <1>3, <1>4, <3>1 DEF Old
  <2>2. ASSUME ~hurt'
        PROVE  /\ vff.receiver =>
                    \A k \in 0 .. Count - 1 : mem[(rd + k) % Size] = Copied - Count + k + 1
               /\ top =< Copied - Count
    <3>1. CASE ~hurt
      BY <1>1, <3>1 DEF ContentInd, Whole, Behind
    <3>2. CASE WholeFrom(rd)
      <4>1. /\ top =< Copied - ((wr - rd) % Size)
            /\ \A k \in 0 .. ((wr - rd) % Size) - 1 :
                 mem[(rd + k) % Size] = Copied - ((wr - rd) % Size) + k + 1
        BY <1>3, <3>2, WholeFromMeans DEF ContentInd
      <4> QED BY <1>3, <4>1
    <3> QED BY <1>4, <2>2, <3>1, <3>2
  <2>3. Whole'
    BY <1>1, <1>2, <2>2 DEF Whole
  <2>4. Behind'
    BY <1>4, <2>2 DEF Behind
  <2>5. Given'
    BY <1>4 DEF Given
  <2> QED BY <2>1, <2>3, <2>4, <2>5 DEF ContentInd
<1>5. CASE /\ cb /\ vff.receiver /\ hurt' = hurt
           /\ \E n \in Nat :
                /\ n # 0 /\ Gives(Cells(rd, n))
                /\ con'.pc \in {"rest", "advance"} /\ con'.wr = con.wr
                /\ con'.pc = "advance" => n = CountTo(con.wr)
                /\ con'.pc = "rest" => n = con'.tail
                /\ ~hurt => /\ n =< Count /\ InRing' = Count - n
                            /\ \A i \in 1 .. n : mem[(rd + i - 1) % Size] = Copied - Count + i
  <2>1. PICK n \in Nat :
          /\ n # 0 /\ Gives(Cells(rd, n))
          /\ con'.pc \in {"rest", "advance"} /\ con'.wr = con.wr
          /\ con'.pc = "advance" => n = CountTo(con.wr)
          /\ con'.pc = "rest" => n = con'.tail
          /\ ~hurt => /\ n =< Count /\ InRing' = Count - n
                      /\ \A i \in 1 .. n : mem[(rd + i - 1) % Size] = Copied - Count + i
    BY <1>5
  <2>2. rd \in Nat
    BY RingNumbers DEF RingInd
  <2>3. /\ top' \in Nat /\ top =< top' /\ top' =< Copied
        /\ out' \in Seq(0 .. top') /\ Len(out') = Len(out) + n
    BY <1>3, <2>1, <2>2, GivesEffect DEF ContentInd
  <2>4. Len(out') = n
    <3>1. Len(out) = 0
      BY <1>1
    <3> QED BY <2>3, <3>1
  <2>5. Old'
    BY <1>2, <1>3, <2>3 DEF Old
  <2>6. Whole'
    BY <1>1, <1>2, <1>5 DEF ContentInd, Whole
  <2>7. Behind'
    <3> SUFFICES ASSUME ~hurt' PROVE top' =< Copied' - InRing'
      BY DEF Behind
    <3>1. ~hurt /\ top =< Copied - Count /\ Copied - Count \in Int
      BY <1>1, <1>3, <1>5 DEF ContentInd, Behind
    <3>2. \A i \in 1 .. n : mem[(rd + i - 1) % Size] = (Copied - Count) + i
      BY <2>1, <3>1
    <3>3. top' = (Copied - Count) + n
      <4> DEFINE t == Copied - Count
      <4>1. t \in Int /\ top =< t /\ n \in Nat /\ n # 0 /\ Gives(Cells(rd, n))
            /\ RingType /\ Old
        BY <1>3, <2>1, <3>1 DEF ContentInd
      <4>2. \A i \in 1 .. n : mem[(rd + i - 1) % Size] = t + i
        BY <3>2
      <4> HIDE DEF t
      <4>3. n # 0 => top' = t + n
        BY <2>2, <4>1, <4>2, GivesNext
      <4> QED BY <4>1, <4>3 DEF t
    <3>4. InRing' = Count - n
      BY <2>1, <3>1
    <3> QED BY <1>3, <3>3, <3>4
  <2>8. Given'
    <3>1. con'.pc = "advance" => CountTo(con.wr)' = n
      BY <1>2, <2>1 DEF CountTo
    <3>2. wmt' # "opened"
      BY <1>2, <1>5, UpHasReceiver
    <3> QED BY <2>1, <2>4, <3>1, <3>2 DEF Given
  <2> QED BY <2>5, <2>6, <2>7, <2>8 DEF ContentInd
<1> QED BY <1>4, <1>5, HandEffect

\* The second call hands over the part at the start of the ring.
LEMMA ContentRest ==
  ASSUME VffInd, HandlerInd, Life, RingInd, ContentInd, Rest, Copied' = Copied
  PROVE  ContentInd'
<1>1. /\ con.pc = "rest" /\ UNCHANGED <<lifeVars, sent, irqVars, ringVars, comp, hurt>>
      /\ Count' = Count /\ InRing = wr
  BY RestEffect
<1>2. /\ rd' = rd /\ wr' = wr /\ mem' = mem /\ vff' = vff /\ cb' = cb /\ wmt' = wmt
      /\ hurt' = hurt
  BY <1>1 DEF ringVars, irqVars, lifeVars
<1>3. /\ mem \in [Place -> Nat] /\ \A i \in Place : mem[i] =< Copied
      /\ top \in Nat /\ top =< Copied /\ out \in Seq(0 .. top)
      /\ RingType /\ wr \in Nat /\ con.wr \in Nat /\ Copied \in Int
  BY CopiedIs, RingNumbers DEF ContentInd, Old, RingInd
<1>4. Whole'
  BY <1>1, <1>2 DEF ContentInd, Whole
<1>5. ~hurt => top =< Copied - InRing
  BY DEF ContentInd, Behind
<1>6. wmt = "opened" => hurt
  BY <1>1 DEF ContentInd, Given
<1>7. CASE hurt /\ con'.pc = "crashed" /\ out' = out /\ top' = top
  <2>1. Old'
    BY <1>2, <1>3, <1>7 DEF Old
  <2>2. Behind' /\ Given'
    BY <1>2, <1>7 DEF Behind, Given
  <2> QED BY <1>4, <2>1, <2>2 DEF ContentInd
<1>8. CASE /\ ~cb /\ con'.pc = "advance" /\ con'.wr = con.wr /\ out' = out /\ top' = top
           /\ ~hurt => InRing' = InRing - con.wr
  <2>1. Old'
    BY <1>2, <1>3, <1>8 DEF Old
  <2>2. Behind'
    <3> SUFFICES ASSUME ~hurt' PROVE top' =< Copied' - InRing'
      BY DEF Behind
    <3>1. InRing' = InRing - con.wr /\ top =< Copied - InRing
      BY <1>2, <1>5, <1>8
    <3> QED BY <1>1, <1>3, <1>8, <3>1
  <2>3. Given'
    BY <1>2, <1>6, <1>8 DEF Given
  <2> QED BY <1>4, <2>1, <2>2, <2>3 DEF ContentInd
<1>9. CASE /\ cb /\ vff.receiver
           /\ \E n \in Nat :
                /\ Gives(Cells(0, n))
                /\ con'.pc = "advance" /\ con'.wr = con.wr
                /\ n = CountTo(con.wr) - con.tail
                /\ ~hurt => /\ n =< InRing /\ InRing' = InRing - n
                            /\ \A i \in 1 .. n : mem[(0 + i - 1) % Size] = Copied - InRing + i
  <2>1. PICK n \in Nat :
          /\ Gives(Cells(0, n))
          /\ con'.pc = "advance" /\ con'.wr = con.wr
          /\ n = CountTo(con.wr) - con.tail
          /\ ~hurt => /\ n =< InRing /\ InRing' = InRing - n
                      /\ \A i \in 1 .. n : mem[(0 + i - 1) % Size] = Copied - InRing + i
    BY <1>9
  <2>2. /\ top' \in Nat /\ top =< top' /\ top' =< Copied /\ (n = 0 => top' = top)
        /\ out' \in Seq(0 .. top') /\ Len(out') = Len(out) + n
    <3>1. 0 \in Nat
      OBVIOUS
    <3> QED BY <1>3, <2>1, <3>1, GivesEffect DEF ContentInd
  <2>3. Old'
    BY <1>2, <1>3, <2>2 DEF Old
  <2>4. Behind'
    <3> SUFFICES ASSUME ~hurt' PROVE top' =< Copied' - InRing'
      BY DEF Behind
    <3>1. /\ ~hurt /\ top =< Copied - InRing /\ Copied - InRing \in Int
          /\ InRing' = InRing - n /\ InRing \in Nat
      BY <1>1, <1>2, <1>3, <1>5, <2>1
    <3>2. \A i \in 1 .. n : mem[(0 + i - 1) % Size] = (Copied - InRing) + i
      BY <2>1, <3>1
    <3>3. n # 0 => top' = (Copied - InRing) + n
      <4> DEFINE t == Copied - InRing
      <4>1. t \in Int /\ top =< t /\ n \in Nat /\ 0 \in Nat /\ Gives(Cells(0, n))
            /\ RingType /\ Old
        BY <1>3, <2>1, <3>1 DEF ContentInd
      <4>2. \A i \in 1 .. n : mem[(0 + i - 1) % Size] = t + i
        BY <3>2
      <4> HIDE DEF t
      <4>3. n # 0 => top' = t + n
        BY <4>1, <4>2, GivesNext
      <4> QED BY <4>3 DEF t
    <3> QED BY <1>3, <2>2, <3>1, <3>3
  <2>5. Given'
    <3>1. CountTo(con.wr)' = CountTo(con.wr)
      BY <1>2, <2>1 DEF CountTo
    <3>2. ~hurt => Len(out) = con.tail
      BY <1>1 DEF ContentInd, Given
    <3>3. CountTo(con.wr) \in Int /\ con.tail \in Int
      <4>1. con.tail \in 0 .. Size /\ Size \in Nat
        BY RingNumbers DEF RingInd, RingType, ConRecord
      <4> QED BY <4>1, RingNumbers DEF RingInd
    <3>4. ~hurt => Len(out') = CountTo(con.wr)
      BY <2>1, <2>2, <3>2, <3>3
    <3>5. wmt' # "opened"
      BY <1>2, <1>9, UpHasReceiver
    <3> QED BY <1>2, <2>1, <3>1, <3>4, <3>5 DEF Given
  <2> QED BY <1>4, <2>3, <2>4, <2>5 DEF ContentInd
<1> QED BY <1>7, <1>8, <1>9, RestEffect

\* The part handed over is left behind.
LEMMA ContentAdvance ==
  ASSUME VffInd, HandlerInd, Life, RingInd, ContentInd, Advance, Copied' = Copied
  PROVE  ContentInd'
<1>1. /\ con.pc = "advance" /\ con'.pc = "look" /\ rd' = con.wr
      /\ UNCHANGED <<lifeVars, sent, irqVars, mem, wr, comp, top, early>> /\ out' = <<>>
      /\ hurt' \in BOOLEAN /\ (hurt' <=> hurt /\ ~WholeFrom(con.wr))
      /\ con.wr \in Place
      /\ InRing = (wr - con.wr) % Size /\ Count' = InRing /\ InRing' = InRing
  BY AdvanceEffect
<1>2. mem' = mem /\ wr' = wr /\ top' = top /\ vff' = vff
  BY <1>1 DEF irqVars
<1>3. /\ mem \in [Place -> Nat] /\ \A i \in Place : mem[i] =< Copied
      /\ top \in Nat /\ top =< Copied /\ Copied \in Int
      /\ RingType /\ Size \in Nat \ {0} /\ rd \in 0 .. Size - 1 /\ Count \in 0 .. Size - 1
      /\ CountTo(con.wr) \in Nat
  BY CopiedIs, RingNumbers, CountIs DEF ContentInd, Old, RingInd, RingType, Place
<1>4. Old'
  <2>1. out' \in Seq(0 .. top')
    BY <1>1
  <2> QED BY <1>2, <1>3, <2>1 DEF Old
<1>5. ASSUME ~hurt'
      PROVE  /\ vff.receiver =>
                  \A k \in 0 .. InRing - 1 : mem[(con.wr + k) % Size] = Copied - InRing + k + 1
             /\ top =< Copied - InRing
  <2>1. CASE WholeFrom(con.wr)
    <3>1. /\ top =< Copied - ((wr - con.wr) % Size)
          /\ \A k \in 0 .. ((wr - con.wr) % Size) - 1 :
               mem[(con.wr + k) % Size] = Copied - ((wr - con.wr) % Size) + k + 1
      BY <1>1, <1>3, <2>1, WholeFromMeans DEF ContentInd
    <3> QED BY <1>1, <3>1
  <2>2. CASE ~hurt
    <3> DEFINE m == CountTo(con.wr)
    <3>1. m \in Nat /\ m =< Count /\ InRing = Count - m /\ con.wr = (rd + m) % Size
      BY <1>1, <1>3, <2>2, PassSplit DEF InPass
    <3>2. top =< Copied - InRing
      BY <2>2 DEF ContentInd, Behind
    <3>3. ASSUME vff.receiver, NEW k \in 0 .. InRing - 1
          PROVE  mem[(con.wr + k) % Size] = Copied - InRing + k + 1
      <4>1. \A q \in 0 .. Count - 1 : mem[(rd + q) % Size] = Copied - Count + q + 1
        BY <2>2, <3>3 DEF ContentInd, Whole
      <4> HIDE DEF m
      <4>2. k \in Nat /\ m + k \in 0 .. Count - 1 /\ k \in 0 .. Size - 1 /\ m \in 0 .. Size - 1
            /\ m + k \in 0 .. Size - 1
        BY <1>3, <3>1, <3>3
      <4>3. mem[(rd + (m + k)) % Size] = Copied - Count + (m + k) + 1
        BY <4>1, <4>2
      <4>4. Copied - Count + (m + k) + 1 = Copied - InRing + k + 1
        BY <1>3, <3>1, <4>2
      <4>5. (con.wr + k) % Size = (rd + (m + k)) % Size
        <5> DEFINE q == con.wr
        <5>1. q = (IF rd + m < Size THEN rd + m ELSE rd + m - Size) /\ q \in 0 .. Size - 1
          BY <1>3, <3>1, <4>2, Forth
        <5> HIDE DEF q
        <5>2. (q + k) % Size = IF q + k < Size THEN q + k ELSE q + k - Size
          BY <4>2, <5>1, Forth
        <5>3. (rd + (m + k)) % Size = IF rd + (m + k) < Size THEN rd + (m + k)
                                      ELSE rd + (m + k) - Size
          BY <1>3, <4>2, Forth
        <5>4. (q + k) % Size = (rd + (m + k)) % Size
          BY <1>3, <3>1, <4>2, <5>1, <5>2, <5>3
        <5> QED BY <5>4 DEF q
      <4> QED BY <4>3, <4>4, <4>5
    <3> QED BY <3>2, <3>3
  <2> QED BY <1>1, <1>5, <2>1, <2>2
<1>6. Whole'
  BY <1>1, <1>2, <1>5 DEF Whole
<1>7. Behind'
  BY <1>1, <1>2, <1>5 DEF Behind
<1>8. Given'
  BY <1>1 DEF Given
<1> QED BY <1>4, <1>6, <1>7, <1>8 DEF ContentInd

\* Every step keeps the content of the ring.
LEMMA ContentStep ==
  VffInd /\ HandlerInd /\ Life /\ RingInd /\ InFifo /\ ContentInd /\ [Next]_vars => ContentInd'
<1> SUFFICES ASSUME VffInd, HandlerInd, Life, RingInd, InFifo, ContentInd, [Next]_vars
             PROVE  ContentInd'
  OBVIOUS
<1>1. /\ Copied \in Int /\ Copied =< sent /\ sent \in Nat
      /\ vff \in VffRecord
  BY CopiedIs, HeldIs
<1>2. CASE IrqWrite
  BY <1>2, ContentWrite
<1>3. CASE Wake \/ Look
  BY <1>3, CopiedSame, ContentLook DEF RxThread
<1>4. CASE Hand
  BY <1>4, CopiedSame, ContentHand DEF RxThread
<1>5. CASE Rest
  BY <1>5, CopiedSame, ContentRest DEF RxThread
<1>6. CASE Advance
  BY <1>6, CopiedSame, ContentAdvance DEF RxThread
<1>7. CASE IrqTake
  <2>1. /\ UNCHANGED <<ringVars, conVars, hurt, lifeVars, sent>>
        /\ \/ vff' = vff /\ Left' = Left
           \/ ~irq.receiver /\ irq.pc = "take" /\ vff'.receiver = vff.receiver
    BY <1>7, IrqTakeEffect
  <2>2. UNCHANGED <<ringVars, conVars, hurt, cb, wmt>>
    BY <2>1 DEF lifeVars
  <2>3. CASE vff' = vff /\ Left' = Left
    <3>1. Copied' = Copied
      BY <2>1, <2>3 DEF Copied
    <3> QED BY <2>2, <2>3, <3>1, ContentIdle
  <2>4. CASE ~irq.receiver /\ irq.pc = "take" /\ vff'.receiver = vff.receiver
    <3>1. wmt = "closing" /\ ~vff.receiver
      BY <2>4 DEF HandlerInd
    <3>2. Copied' = sent
      BY <1>7, <2>4, CopiedAll
    <3> QED BY <1>1, <2>2, <2>4, <3>1, <3>2, ContentIdle
  <2> QED BY <2>1, <2>3, <2>4
<1>8. CASE IrqCheck
  <2>1. UNCHANGED <<conVars, cb, wmt>> /\ Copied' = Copied
    BY <1>8, CopiedSame DEF IrqCheck, lifeVars
  <2>2. ResetRing \/ UNCHANGED <<ringVars, hurt>>
    BY <1>8 DEF IrqCheck
  <2>3. CASE ResetRing
    BY <1>1, <2>1, <2>3, ContentReset
  <2>4. CASE UNCHANGED <<ringVars, hurt>>
    <3>1. vff'.receiver = vff.receiver
      <4>1. irq.pc = "check" /\ ChunkOver
        BY <1>8 DEF IrqCheck
      <4> QED BY <4>1, ChunkOverEffect
    <3> QED BY <2>1, <2>4, <3>1, ContentIdle
  <2> QED BY <2>2, <2>3, <2>4
<1>9. CASE Open \/ WriterSends
  <2>1. /\ UNCHANGED <<cb, sent, irq, conVars>>
        /\ \/ state = "OFF" /\ SetUp
           \/ ResetRing /\ UNCHANGED vff
           \/ UNCHANGED <<wmt, vff, rd, wr, mem, hurt>>
    BY <1>9, OpenEffect
  <2>2. CASE state = "OFF" /\ SetUp
    <3>1. ResetRing /\ Copied' = sent
      BY <2>1, <2>2, SetUpEffect, CopiedAll
    <3> QED BY <1>1, <2>1, <3>1, ContentReset
  <2>3. vff' = vff => Copied' = Copied
    BY <2>1 DEF Copied, Left, Held
  <2>4. CASE ResetRing /\ UNCHANGED vff
    BY <1>1, <2>1, <2>3, <2>4, ContentReset
  <2>5. CASE UNCHANGED <<wmt, vff, rd, wr, mem, hurt>>
    <3>1. UNCHANGED <<ringVars, conVars, hurt>>
      BY <2>1, <2>5 DEF ringVars
    <3> QED BY <2>1, <2>3, <2>5, <3>1, ContentIdle
  <2> QED BY <2>1, <2>2, <2>4, <2>5
<1>10. CASE ChipSends \/ Interrupt \/ IrqEnd \/ WriterFinds \/ UNCHANGED vars
  <2>1. UNCHANGED <<ringVars, conVars, hurt, cb, wmt>> /\ Copied' = Copied
    BY <1>10, CopiedSame DEF ChipSends, Interrupt, IrqEnd, WriterFinds, vars, lifeVars
  <2>2. vff'.receiver = vff.receiver
    <3>1. CASE ChipSends
      BY <1>1, <3>1, VffFields DEF ChipSends
    <3>2. CASE Interrupt \/ IrqEnd \/ WriterFinds \/ UNCHANGED vars
      BY <3>2 DEF Interrupt, IrqEnd, WriterFinds, vars, irqVars
    <3> QED BY <1>10, <3>1, <3>2
  <2> QED BY <2>1, <2>2, ContentIdle
<1>11. CASE RegisterCb
  <2>1. UNCHANGED <<ringVars, conVars, hurt, vff>> /\ Copied' = Copied
    BY <1>11, CopiedSame DEF RegisterCb, irqVars
  <2>2. (wmt = "opened" \/ ~cb') /\ wmt' # "opened"
    BY <1>11 DEF RegisterCb
  <2>3. ~hurt /\ con.pc = "advance" /\ cb' => cb
    BY <2>2 DEF ContentInd, Given
  <2> QED BY <2>1, <2>2, <2>3, ContentIdle
<1>12. CASE Close \/ CloseEnd
  <2>1. UNCHANGED <<ringVars, conVars, hurt>> /\ Copied' = Copied /\ wmt' # "opened"
    BY <1>12, CopiedSame DEF Close, CloseEnd
  <2>2. (cb' => cb) /\ (vff'.receiver => vff.receiver)
    <3>1. CASE Close
      BY <1>1, <3>1, VffFields DEF Close
    <3>2. CASE CloseEnd
      BY <3>2 DEF CloseEnd, irqVars
    <3> QED BY <1>12, <3>1, <3>2
  <2> QED BY <2>1, <2>2, ContentIdle
<1> QED BY <1>2, <1>3, <1>4, <1>5, <1>6, <1>7, <1>8, <1>9, <1>10, <1>11, <1>12
        DEF Next, Handler, RxThread

-----------------------------------------------------------------------------
(* btif_rxd is awake. *)

\* Init leaves the FIFO empty.
LEMMA FifoInit == Init => InFifo
<1> SUFFICES ASSUME Init PROVE InFifo
  OBVIOUS
<1>1. VffInd /\ vff.wpt = 0 /\ vff.rpt = 0
  BY VffInit DEF Init
<1>2. Held(vff) = 0
  BY <1>1, HeldIs
<1> QED BY <1>2 DEF InFifo

\* What the other parts do not type.
Others ==
  /\ opens \in 0 .. MaxOpens /\ user \in BOOLEAN /\ writer \in BOOLEAN
  /\ early \in BOOLEAN /\ comp \in Nat

\* Init establishes it.
LEMMA OthersInit == Init => Others
<1> SUFFICES ASSUME Init PROVE Others
  OBVIOUS
<1>1. opens = 0 /\ user = FALSE /\ writer = FALSE /\ early = FALSE /\ comp = 0
  BY DEF Init
<1>2. MaxOpens \in Nat
  BY BtifAssumption
<1>3. opens \in 0 .. MaxOpens /\ comp \in Nat
  BY <1>1, <1>2
<1>4. user \in BOOLEAN /\ writer \in BOOLEAN /\ early \in BOOLEAN
  BY <1>1, Zenon
<1> QED BY <1>3, <1>4 DEF Others

\* Every step keeps it.
LEMMA OthersStep == Others /\ Life /\ [Next]_vars => Others'
<1> SUFFICES ASSUME Others, Life, [Next]_vars PROVE Others'
  OBVIOUS
<1>1. /\ MaxOpens \in Nat /\ opens \in 0 .. MaxOpens /\ user \in BOOLEAN /\ writer \in BOOLEAN
      /\ early \in BOOLEAN /\ comp \in Nat /\ cb \in BOOLEAN
  BY BtifAssumption DEF Others, Life
<1>2. opens' = opens \/ (opens' = opens + 1 /\ opens < MaxOpens)
  BY DEF Next, Handler, RxThread, ChipSends, Interrupt, IrqTake, IrqWrite, IrqCheck, IrqEnd,
         Wake, Look, Hand, Rest, Advance, Open, RegisterCb, Close, CloseEnd, WriterFinds,
         WriterSends, lifeVars, vars
<1>3. user' \in {user, TRUE, FALSE}
  BY DEF Next, Handler, RxThread, ChipSends, Interrupt, IrqTake, IrqWrite, IrqCheck, IrqEnd,
         Wake, Look, Hand, Rest, Advance, Open, RegisterCb, Close, CloseEnd, WriterFinds,
         WriterSends, lifeVars, vars
<1>4. writer' \in {writer, TRUE, FALSE}
  BY DEF Next, Handler, RxThread, ChipSends, Interrupt, IrqTake, IrqWrite, IrqCheck, IrqEnd,
         Wake, Look, Hand, Rest, Advance, Open, RegisterCb, Close, CloseEnd, WriterFinds,
         WriterSends, lifeVars, vars
<1>5. early' = early \/ early' = ~cb \/ early' = (early \/ ~cb)
  BY DEF Next, Handler, RxThread, ChipSends, Interrupt, IrqTake, IrqWrite, IrqCheck, IrqEnd,
         Wake, Look, Hand, Rest, Advance, Open, RegisterCb, Close, CloseEnd, WriterFinds,
         WriterSends, lifeVars, vars
<1>6. comp' = comp \/ comp' = comp + 1 \/ (comp > 0 /\ comp' = comp - 1)
  BY DEF Next, Handler, RxThread, ChipSends, Interrupt, IrqTake, IrqWrite, IrqCheck, IrqEnd,
         Wake, Look, Hand, Rest, Advance, Open, RegisterCb, Close, CloseEnd, WriterFinds,
         WriterSends, Complete, vars
<1>7. opens' \in 0 .. MaxOpens
  BY <1>1, <1>2
<1>8. comp' \in Nat
  BY <1>1, <1>6
<1>9. early' \in BOOLEAN
  BY <1>1, <1>5
<1> QED BY <1>1, <1>3, <1>4, <1>7, <1>8, <1>9 DEF Others

\* A completion is pending, or an interrupt that will give one is due or runs.
Pending == comp > 0 \/ irq.pc # "off" \/ Held(vff) > 0

\* With nothing pending btif_rxd has seen the last of the ring: it looks again, or
\* looked at the present wr_idx, or sleeps on an empty ring.
Awake ==
  ~Pending =>
    /\ con.pc = "wait" /\ ~early => rd = wr /\ ~hurt
    /\ con.pc = "hand" => con.wr = wr \/ rd = wr

\* Init establishes it.
LEMMA AwakeInit == Init => Awake
BY DEF Init, Awake

\* Nothing of it moves, or what is pending comes to be.
LEMMA AwakeIdle ==
  ASSUME Awake, UNCHANGED <<rd, wr, con, hurt>>, early' = early, Pending => Pending'
  PROVE  Awake'
BY DEF Awake

\* A reset ring is empty.
LEMMA AwakeReset ==
  ASSUME RingInd, ResetRing, UNCHANGED con
  PROVE  Awake'
<1>1. rd' = 0 /\ wr' = 0 /\ (hurt' <=> con.pc \in InPass) /\ con' = con
  BY DEF ResetRing, InPass
<1> QED BY <1>1 DEF Awake, InPass

\* The end of a pass with nothing more to come.
LEMMA AwakeHand ==
  ASSUME VffInd, HandlerInd, Life, RingInd, ContentInd, Awake, Others, Hand
  PROVE  Awake'
<1>1. /\ con.pc = "hand" /\ early' = (early \/ ~cb)
      /\ UNCHANGED <<vff, irq, comp, rd, wr>>
  BY DEF Hand, irqVars, ringVars
<1>2. Pending' = Pending
  BY <1>1 DEF Pending, Held
<1>3. CASE con'.pc \in {"rest", "advance"}
  BY <1>3 DEF Awake
<1>4. CASE Pending
  BY <1>2, <1>4 DEF Awake
<1>5. CASE /\ ~Pending
           /\ CountTo(con.wr) = 0 \/ ~cb
           /\ con'.pc = "wait" /\ (hurt' <=> hurt /\ ~WholeFrom(rd))
  <2> SUFFICES ASSUME ~early' PROVE rd' = wr' /\ ~hurt'
    BY <1>5 DEF Awake
  <2>1. cb /\ ~early
    BY <1>1 DEF Others, Life
  <2>2. CountTo(con.wr) = 0
    BY <1>5, <2>1
  <2>3. rd \in Nat /\ wr \in Nat /\ con.wr \in Nat /\ rd < Size /\ con.wr < Size /\ Size \in Nat
    BY RingNumbers DEF RingInd
  <2>4. con.wr = rd
    BY <2>2, <2>3 DEF CountTo
  <2>5. rd = wr
    BY <1>1, <1>5, <2>4 DEF Awake
  <2>6. WholeFrom(rd)
    <3>1. Held(vff) = 0 /\ irq.pc = "off" /\ comp = 0
      <4>1. Held(vff) \in Nat /\ comp \in Nat /\ ~Pending
        BY <1>5, HeldIs DEF Others
      <4>2. ~(comp > 0) /\ irq.pc = "off" /\ ~(Held(vff) > 0)
        BY <4>1 DEF Pending
      <4> QED BY <4>1, <4>2
    <3>2. Left = 0 /\ Copied = sent /\ sent \in Nat /\ top \in Nat /\ top =< Copied
      BY <3>1, LeftIs, CopiedIs DEF ContentInd, Old
    <3>3. InVff = 0
      BY <2>1, <3>2, UpHasReceiver
    <3>4. (wr - rd) % Size = 0 /\ MaxPending \in Nat \ {0}
      <4>1. Count = (wr - rd) % Size /\ MaxPending \in Nat \ {0}
        BY CountIs, RingNumbers DEF RingInd
      <4>2. Count = 0
        BY <2>3, <2>5 DEF Count, CountTo
      <4> QED BY <4>1, <4>2
    <3>5. Cells(rd, 0) = [i \in 1 .. 0 |-> (sent - 0 - 0) + i]
      <4>1. 1 .. 0 = {}
        OBVIOUS
      <4> QED BY <4>1 DEF Cells
    <3>6. 0 < MaxPending /\ sent - 0 - 0 >= top
      BY <3>2, <3>4
    <3> QED BY <3>3, <3>4, <3>5, <3>6 DEF WholeFrom
  <2> QED BY <1>1, <1>5, <2>5, <2>6
<1> QED BY <1>3, <1>4, <1>5, HandEffect

\* Every step keeps btif_rxd awake.
LEMMA AwakeStep ==
  VffInd /\ HandlerInd /\ Life /\ RingInd /\ ContentInd /\ Others /\ Awake /\ [Next]_vars => Awake'
<1> SUFFICES ASSUME VffInd, HandlerInd, Life, RingInd, ContentInd, Others, Awake, [Next]_vars
             PROVE  Awake'
  OBVIOUS
<1>1. /\ vff \in VffRecord /\ irq \in IrqRecord /\ comp \in Nat
      /\ Held(vff) \in Nat /\ irq.pc \in {"off", "take", "write", "check"}
  BY HeldIs, IrqFields DEF Others
<1>2. CASE ChipSends
  <2>1. /\ VffSize \in Nat \ {0} /\ Wrap = 2 * VffSize
        /\ vff.wpt \in 0 .. Wrap - 1 /\ vff.rpt \in 0 .. Wrap - 1
        /\ Held(vff) = (vff.wpt - vff.rpt) % Wrap /\ Held(vff) < VffSize
        /\ vff'.wpt = (vff.wpt + 1) % Wrap /\ vff'.rpt = vff.rpt
    BY <1>1, <1>2, HeldIs, VffFields DEF ChipSends
  <2>2. Held(vff)' = Held(vff) + 1
    <3> DEFINE w == vff.wpt
               r == vff.rpt
               h == Held(vff)
    <3>1. /\ w \in 0 .. Wrap - 1 /\ r \in 0 .. Wrap - 1 /\ 1 \in 0 .. VffSize
          /\ h = (w - r) % Wrap /\ Held(vff)' = (((w + 1) % Wrap) - r) % Wrap
          /\ h + 1 =< VffSize
      BY <1>1, <2>1 DEF Held
    <3> HIDE DEF w, r, h
    <3>2. h + 1 =< VffSize => (((w + 1) % Wrap) - r) % Wrap = h + 1
      BY <3>1, HeldMoves
    <3> QED BY <3>1, <3>2 DEF h
  <2>3. Pending'
    BY <1>1, <2>2 DEF Pending
  <2> QED BY <2>3 DEF Awake
<1>3. CASE Interrupt
  <2>1. irq'.pc = "take"
    BY <1>1, <1>3, IrqFields DEF Interrupt
  <2>2. Pending'
    BY <2>1 DEF Pending
  <2> QED BY <2>2 DEF Awake
<1>4. CASE IrqTake
  <2>1. irq'.pc \in {"take", "write"}
    BY <1>4, IrqTakeEffect
  <2>2. Pending'
    BY <2>1 DEF Pending
  <2> QED BY <2>2 DEF Awake
<1>5. CASE IrqWrite \/ IrqCheck
  <2>1. irq.pc \in {"write", "check"}
    BY <1>5 DEF IrqWrite, IrqCheck
  <2>2. ChunkOver \/ irq' = [irq EXCEPT !.pc = "check"]
    BY <1>5 DEF IrqWrite, IrqCheck
  <2>3. irq'.pc \in {"write", "take", "check"}
    <3>1. CASE ChunkOver
      BY <2>1, <3>1, ChunkOverEffect
    <3>2. CASE irq' = [irq EXCEPT !.pc = "check"]
      BY <1>1, <3>2, IrqFields
    <3> QED BY <2>2, <3>1, <3>2
  <2>4. Pending'
    BY <2>3 DEF Pending
  <2> QED BY <2>4 DEF Awake
<1>6. CASE IrqEnd
  <2>1. comp' = comp + 1
    BY <1>6 DEF IrqEnd, Complete
  <2>2. Pending'
    BY <1>1, <2>1 DEF Pending
  <2> QED BY <2>2 DEF Awake
<1>7. CASE Wake \/ Advance
  <2>1. con'.pc = "look"
    <3>1. CASE Wake
      BY <3>1 DEF Wake, RingInd, RingType, ConRecord
    <3>2. CASE Advance
      BY <3>2, AdvanceEffect
    <3> QED BY <1>7, <3>1, <3>2
  <2> QED BY <2>1 DEF Awake
<1>8. CASE Look
  <2>1. con' = [con EXCEPT !.pc = "hand", !.wr = wr] /\ con \in ConRecord /\ wr' = wr
    BY <1>8 DEF Look, RingInd, RingType, ringVars
  <2>2. con'.pc = "hand" /\ con'.wr = wr
    BY <2>1 DEF ConRecord
  <2> QED BY <2>1, <2>2 DEF Awake
<1>9. CASE Hand
  BY <1>9, AwakeHand
<1>10. CASE Rest
  <2>1. con'.pc \in {"crashed", "advance"}
    BY <1>10, RestEffect
  <2> QED BY <2>1 DEF Awake
<1>11. CASE Open \/ WriterSends
  <2>1. /\ UNCHANGED <<irq, con, comp, early>>
        /\ \/ ResetRing
           \/ UNCHANGED <<vff, rd, wr, hurt>>
    BY <1>11, OpenEffect DEF SetUp, conVars
  <2>2. CASE UNCHANGED <<vff, rd, wr, hurt>>
    <3>1. Pending' = Pending
      BY <2>1, <2>2 DEF Pending, Held
    <3> QED BY <2>1, <2>2, <3>1, AwakeIdle
  <2> QED BY <2>1, <2>2, AwakeReset
<1>12. CASE RegisterCb \/ Close \/ CloseEnd \/ WriterFinds \/ UNCHANGED vars
  <2>1. /\ UNCHANGED <<irq, con, comp, early, rd, wr, hurt>>
        /\ vff'.wpt = vff.wpt /\ vff'.rpt = vff.rpt
    <3>1. CASE Close
      BY <1>1, <3>1, VffFields DEF Close, ringVars, conVars
    <3> QED BY <1>12, <3>1 DEF RegisterCb, CloseEnd, WriterFinds, vars, ringVars, conVars, irqVars
  <2>2. Pending' = Pending
    BY <2>1 DEF Pending, Held
  <2> QED BY <2>1, <2>2, AwakeIdle
<1> QED BY <1>2, <1>3, <1>4, <1>5, <1>6, <1>7, <1>8, <1>9, <1>10, <1>11, <1>12
        DEF Next, Handler, RxThread

-----------------------------------------------------------------------------
(* Together. *)

\* The inductive invariant of the receive path.
BtifInd ==
  Life /\ VffInd /\ HandlerInd /\ RingInd /\ InFifo /\ ContentInd /\ Others /\ Awake

\* It holds always.
LEMMA BtifAlways == Spec => []BtifInd
<1>1. Init => BtifInd
  BY LifeInit, VffInit, HandlerInit, RingInit, FifoInit, ContentInit, OthersInit, AwakeInit
     DEF BtifInd
<1>2. BtifInd /\ [Next]_vars => BtifInd'
  BY LifeStep, VffStep, HandlerStep, RingStep, FifoStep, ContentStep, OthersStep, AwakeStep
     DEF BtifInd
<1> QED BY <1>1, <1>2, PTL DEF Spec

\* What the ring holds, what STP had and what it works on are bytes.
LEMMA IndBytes ==
  ASSUME BtifInd
  PROVE  mem \in [0 .. Size - 1 -> Bytes] /\ top \in Bytes /\ out \in Seq(Bytes)
<1>1. /\ Copied \in Int /\ Copied =< sent /\ sent \in 0 .. MaxBytes /\ MaxBytes \in Nat
      /\ mem \in [Place -> Nat] /\ \A i \in Place : mem[i] =< Copied
      /\ top \in Nat /\ top =< Copied /\ out \in Seq(0 .. top)
  BY CopiedIs, BtifAssumption DEF BtifInd, VffInd, ContentInd, Old, Bytes
<1>2. \A i \in Place : mem[i] \in 0 .. MaxBytes
  <2> SUFFICES ASSUME NEW i \in Place PROVE mem[i] \in 0 .. MaxBytes
    OBVIOUS
  <2>1. mem[i] \in Nat /\ mem[i] =< Copied
    BY <1>1
  <2> QED BY <1>1, <2>1
<1>3. mem \in [0 .. Size - 1 -> Bytes]
  BY <1>1, <1>2 DEF Place, Bytes
<1>4. top \in Bytes /\ 0 .. top \subseteq Bytes
  BY <1>1 DEF Bytes
<1>5. out \in Seq(Bytes)
  <2> DEFINE X == 0 .. top
  <2>1. out \in Seq(X) /\ X \subseteq Bytes
    BY <1>1, <1>4
  <2> HIDE DEF X
  <2>2. Len(out) \in Nat /\ out \in [1 .. Len(out) -> X]
    BY <2>1
  <2>3. out \in [1 .. Len(out) -> Bytes]
    BY <2>1, <2>2
  <2> QED BY <2>2, <2>3
<1> QED BY <1>3, <1>4, <1>5

\* It says what is wanted.
LEMMA IndRing == BtifInd => RingInv
<1> SUFFICES ASSUME BtifInd PROVE RingInv
  OBVIOUS
<1>1. TypeOK
  <2>1. /\ wmt \in {"closed", "opened", "up", "down", "closing"}
        /\ enable \in BOOLEAN /\ state \in {"OFF", "ON"} /\ cb \in BOOLEAN /\ revived \in BOOLEAN
    BY DEF BtifInd, Life
  <2>2. user \in BOOLEAN /\ writer \in BOOLEAN /\ opens \in 0 .. MaxOpens /\ comp \in Nat
        /\ early \in BOOLEAN
    BY DEF BtifInd, Others
  <2>3. /\ sent \in Bytes /\ last \in {0, 1}
        /\ vff \in [mem : [0 .. VffSize - 1 -> Bytes], wpt : 0 .. Wrap - 1,
                    rpt : 0 .. Wrap - 1, receiver : BOOLEAN]
        /\ irq \in [pc : {"off", "take", "write", "check"}, todo : Seq(1 .. VffSize),
                    done : 0 .. VffSize, receiver : BOOLEAN]
    BY DEF BtifInd, VffInd, VffRecord, IrqRecord
  <2>4. /\ rd \in 0 .. Size - 1 /\ wr \in 0 .. Size - 1 /\ hurt \in BOOLEAN
        /\ con \in [pc : {"wait", "look", "hand", "rest", "advance", "crashed"},
                    wr : 0 .. Size - 1, tail : 0 .. Size]
    BY DEF BtifInd, RingInd, RingType, ConRecord, Place
  <2>5. mem \in [0 .. Size - 1 -> Bytes] /\ top \in Bytes /\ out \in Seq(Bytes)
    BY IndBytes
  <2> QED BY <2>1, <2>2, <2>3, <2>4, <2>5 DEF TypeOK
<1>2. RingSound
  BY IndSound DEF BtifInd
<1>3. NoLostWakeup
  <2> SUFFICES ASSUME con.pc = "wait", comp = 0, irq.pc = "off", Held(vff) = 0, cb, ~early
               PROVE  InRing = 0 /\ ~hurt
    BY DEF NoLostWakeup
  <2>1. ~Pending
    BY DEF Pending
  <2>2. rd = wr /\ ~hurt
    BY <2>1 DEF BtifInd, Awake
  <2>3. Count = 0
    BY <2>2, RingNumbers DEF BtifInd, RingInd, Count, CountTo
  <2> QED BY <2>2, <2>3 DEF InRing
<1> QED BY <1>1, <1>2, <1>3 DEF RingInv

\* The receive path keeps its ring and never sleeps on data for STP.
THEOREM RingAlways == Spec => []RingInv
BY BtifAlways, IndRing, PTL

-----------------------------------------------------------------------------
(* BTIF is the pipe. *)

\* The last byte handed over or given up, and when bytes may be given up.
Taken == IF hurt THEN top ELSE sent - Waiting
Lossy == ~cb \/ (sent - Taken) + Len(out) >= MaxPending

\* What waits, and the place of what was taken between top and what was sent.
Numbers ==
  /\ InRing \in Nat /\ InVff \in Nat /\ InVff =< Left /\ sent \in Nat /\ top \in Nat
  /\ state = "ON" => InVff = Left
  /\ Taken \in top .. sent
  /\ hurt => Taken = top
  /\ ~hurt => Taken = sent - InRing - InVff

\* The invariant gives them.
LEMMA IndNumbers == BtifInd => Numbers
<1> SUFFICES ASSUME BtifInd PROVE Numbers
  OBVIOUS
<1>1. /\ Left \in Nat /\ Copied \in Int /\ Copied =< sent /\ sent \in Nat /\ Copied = sent - Left
      /\ top \in Nat /\ top =< Copied /\ hurt \in BOOLEAN
  BY CopiedIs DEF BtifInd, ContentInd, Old, RingInd, RingType
<1>2. InVff = IF state = "OFF" THEN 0 ELSE Left
  BY DEF InVff, Left
<1>3. InRing \in Nat
  <2>1. Count \in Nat /\ wr \in Nat /\ (wr - con.wr) % Size \in Nat
    BY CountIs, RingNumbers DEF BtifInd, RingInd, RingType, ConRecord
  <2> QED BY <2>1 DEF InRing
<1>4. ~hurt => top =< Copied - InRing
  BY DEF BtifInd, ContentInd, Behind
<1>5. InVff \in Nat /\ InVff =< Left
  BY <1>1, <1>2
<1>6. ~hurt => Taken = sent - InRing - InVff
  BY <1>1, <1>3, <1>5 DEF Taken, Waiting
<1>7. Taken \in top .. sent
  BY <1>1, <1>3, <1>4, <1>5, <1>6 DEF Taken
<1> QED BY <1>1, <1>2, <1>3, <1>5, <1>6, <1>7 DEF Numbers, Taken

\* In the next state too.
LEMMA IndNumbersNext == BtifInd' => Numbers'
BY IndNumbers, PTL

\* A step of the pipe, or none.
PipeStep == P!PipeNext \/ UNCHANGED P!pipeVars

\* What a step of the receive path comes to that hands nothing over: nothing is
\* given up unless it may be, or the pipe has recovered.
LEMMA PipeQuiet ==
  ASSUME Numbers, Numbers', hurt \in BOOLEAN, hurt' \in BOOLEAN, UNCHANGED <<sent, top, out, cb>>,
         ~hurt /\ hurt' => Lossy,
         ~hurt /\ ~hurt' => \/ InRing' = InRing /\ InVff' = InVff
                            \/ InRing' =< InRing /\ InVff' =< InVff /\ Lossy
  PROVE  PipeStep
<1>1. /\ sent \in Nat /\ top \in Nat /\ Taken \in top .. sent /\ Taken' \in top .. sent
      /\ InRing \in Nat /\ InVff \in Nat /\ InRing' \in Nat /\ InVff' \in Nat
  BY DEF Numbers
<1>2. CASE hurt /\ hurt'
  <2>1. Taken' = Taken /\ hurt' = hurt
    BY <1>2 DEF Numbers
  <2> QED BY <2>1 DEF PipeStep, P!pipeVars, Taken
<1>3. CASE hurt /\ ~hurt'
  <2>1. P!PipeRecover
    BY <1>1, <1>3 DEF P!PipeRecover, Taken
  <2> QED BY <2>1 DEF PipeStep, P!PipeNext
<1>4. CASE ~hurt /\ hurt'
  <2>1. P!PipeDrop
    BY <1>1, <1>4 DEF P!PipeDrop, Taken, Lossy
  <2> QED BY <2>1 DEF PipeStep, P!PipeNext
<1>5. CASE ~hurt /\ ~hurt'
  <2>1. Taken = sent - InRing - InVff /\ Taken' = sent - InRing' - InVff'
    BY <1>5 DEF Numbers
  <2>2. CASE InRing' = InRing /\ InVff' = InVff
    <3>1. Taken' = Taken /\ hurt' = hurt
      BY <1>5, <2>1, <2>2
    <3> QED BY <3>1 DEF PipeStep, P!pipeVars, Taken
  <2>3. CASE InRing' =< InRing /\ InVff' =< InVff /\ Lossy
    <3>1. Taken' >= Taken
      <4>1. \A s, a, b, c, d \in Int : c =< a /\ d =< b => s - c - d >= s - a - b
        OBVIOUS
      <4>2. /\ sent \in Int /\ InRing \in Int /\ InVff \in Int /\ InRing' \in Int /\ InVff' \in Int
            /\ InRing' =< InRing /\ InVff' =< InVff
        BY <1>1, <2>3
      <4>3. sent - InRing' - InVff' >= sent - InRing - InVff
        BY <4>1, <4>2
      <4> QED BY <2>1, <4>3
    <3>2. P!PipeDrop
      BY <1>1, <1>5, <2>3, <3>1 DEF P!PipeDrop, Taken, Lossy
    <3> QED BY <3>2 DEF PipeStep, P!PipeNext
  <2> QED BY <1>5, <2>2, <2>3
<1> QED BY <1>2, <1>3, <1>4, <1>5

\* What is left and what is copied, here and in the next state.
LEMMA CopiedHere == VffInd /\ HandlerInd => Left \in Nat /\ Copied = sent - Left
BY CopiedIs

\* The next state's.
LEMMA CopiedThere == (VffInd /\ HandlerInd)' => (Left \in Nat /\ Copied = sent - Left)'
BY CopiedHere, PTL

\* The next state's, from the whole invariant.
LEMMA CopiedNext ==
  ASSUME BtifInd'
  PROVE  Left' \in Nat /\ Copied' = sent' - Left'
BY CopiedThere DEF BtifInd

\* A byte received waits.
LEMMA PipeChipSends ==
  ASSUME BtifInd, BtifInd', ChipSends
  PROVE  PipeStep
<1>1. /\ sent' = sent + 1 /\ UNCHANGED <<lifeVars, irq, ringVars, con, out, top, hurt>>
      /\ state = "ON"
  BY DEF ChipSends, conVars
<1>2. UNCHANGED <<cb, state, wr>>
  BY <1>1 DEF lifeVars, ringVars
<1>3. /\ Left \in Nat /\ sent \in Nat /\ Copied = sent - Left /\ Copied' = Copied
      /\ Left' \in Nat /\ Copied' = sent' - Left'
  BY CopiedNext, CopiedIs, CopiedSame DEF BtifInd
<1>4. Left' = Left + 1
  <2> DEFINE a == Left
             b == Left'
             s == sent
             x == Copied
  <2>1. a \in Nat /\ b \in Nat /\ s \in Nat /\ x = s - a /\ x = (s + 1) - b
    BY <1>1, <1>3
  <2> HIDE DEF a, b, s, x
  <2>2. b = a + 1
    BY <2>1
  <2> QED BY <2>2 DEF a, b
<1>5. InRing' = InRing
  BY <1>1 DEF InRing, Count, CountTo, ringVars
<1>6. Taken' = Taken
  <2>1. CASE hurt
    BY <1>1, <2>1 DEF Taken
  <2>2. CASE ~hurt
    <3>1. Taken = sent - InRing - Left /\ Taken' = sent' - InRing' - Left' /\ InRing \in Nat
      BY <1>1, <1>2, <2>2, IndNumbers, IndNumbersNext DEF Numbers
    <3> QED BY <1>1, <1>3, <1>4, <1>5, <3>1
  <2> QED BY <2>1, <2>2
<1>7. P!PipeReceive
  BY <1>1, <1>2, <1>6 DEF P!PipeReceive, Taken
<1> QED BY <1>7 DEF PipeStep, P!PipeNext

\* A chunk of the FIFO that becomes one of the ring still waits.
LEMMA PipeIrqWrite ==
  ASSUME BtifInd, BtifInd', IrqWrite
  PROVE  PipeStep
<1>1. /\ irq.pc = "write" /\ UNCHANGED <<cb, state, sent, hurt, out, top>>
  BY DEF IrqWrite, lifeVars, conVars
<1>2. hurt \in BOOLEAN /\ hurt' \in BOOLEAN /\ state = "ON"
  BY <1>1 DEF BtifInd, RingInd, RingType, VffInd
<1>3. /\ Left \in Nat /\ sent \in Nat /\ Copied = sent - Left
      /\ Copied' = Copied + Head(irq.todo) /\ Head(irq.todo) \in Nat
  BY <1>1, CopiedIs, CopiedWrite, LeftIs DEF BtifInd
<1>4. Numbers /\ Numbers' /\ Left' \in Nat /\ Copied' = sent' - Left'
  BY IndNumbers, IndNumbersNext, CopiedNext
<1>5. Left' = Left - Head(irq.todo)
  <2> DEFINE a == Left
             b == Left'
             c == Head(irq.todo)
             s == sent
             x == Copied
  <2>1. a \in Nat /\ b \in Nat /\ c \in Nat /\ s \in Nat /\ x = s - a /\ x + c = s - b
    BY <1>1, <1>3, <1>4
  <2> HIDE DEF a, b, c, s, x
  <2>2. b = a - c
    BY <2>1
  <2> QED BY <2>2 DEF a, b, c
<1>6. CASE hurt
  BY <1>1, <1>2, <1>4, <1>6, PipeQuiet
<1>7. CASE ~hurt
  <2>1. InRing' = InRing + Head(irq.todo)
    <3>1. \E n \in Nat : ~hurt => n = Head(irq.todo) /\ InRing' = InRing + n
      BY WriteEffect DEF BtifInd
    <3> QED BY <1>7, <3>1
  <2>2. Taken = sent - InRing - Left /\ Taken' = sent - InRing' - Left' /\ InRing \in Nat
    BY <1>1, <1>2, <1>4, <1>7 DEF Numbers
  <2>3. Taken' = Taken
    BY <1>3, <1>5, <2>1, <2>2
  <2> QED BY <1>1, <2>3 DEF PipeStep, P!pipeVars, Taken
<1> QED BY <1>6, <1>7

\* A full ring that is emptied had as much for STP as it may.
LEMMA FullIsLossy ==
  ASSUME BtifInd, ~hurt, TooMuch
  PROVE  Lossy
<1> SUFFICES ASSUME cb PROVE (sent - Taken) + Len(out) >= MaxPending
  BY DEF Lossy
<1>1. Count >= MaxPending /\ MaxPending \in Nat /\ Count \in Nat
  BY RingNumbers DEF TooMuch, BtifInd, RingInd
<1>2. /\ Taken = sent - InRing - InVff /\ InRing \in Nat /\ InVff \in Nat /\ sent \in Nat
  BY IndNumbers DEF Numbers
<1>3. Len(out) \in Nat
  BY IndBytes
<1>4. InRing + Len(out) >= Count
  <2>1. CASE con.pc = "rest"
    <3>1. Len(out) = con.tail /\ InRing = wr
      BY <2>1 DEF BtifInd, ContentInd, Given, InRing
    <3>2. Count = con.tail + wr
      BY <2>1, PassSplit DEF BtifInd, InPass
    <3>3. con.tail \in Int /\ wr \in Int
      <4>1. con.tail \in 0 .. Size /\ wr \in 0 .. Size - 1 /\ Size \in Nat
        BY RingNumbers DEF BtifInd, RingInd, RingType, ConRecord, Place
      <4> QED BY <4>1
    <3> QED BY <3>1, <3>2, <3>3
  <2>2. CASE con.pc = "advance"
    <3>1. Len(out) = CountTo(con.wr) /\ InRing = (wr - con.wr) % Size
      BY <2>2 DEF BtifInd, ContentInd, Given, InRing
    <3>2. InRing = Count - CountTo(con.wr)
      BY <2>2, <3>1, PassSplit DEF BtifInd, InPass
    <3> QED BY <1>1, <1>3, <3>1, <3>2
  <2>3. CASE con.pc \notin {"rest", "advance"}
    <3>1. InRing = Count
      BY <2>3 DEF InRing
    <3> QED BY <1>1, <1>3, <3>1
  <2> QED BY <2>1, <2>2, <2>3
<1> QED BY <1>1, <1>2, <1>3, <1>4

\* A reset ring outside a pass holds nothing.
LEMMA ResetIsEmpty ==
  ASSUME ResetRing, UNCHANGED con
  PROVE  hurt' \in BOOLEAN /\ (~hurt' => InRing' = 0)
<1>1. rd' = 0 /\ wr' = 0 /\ (hurt' <=> con.pc \in InPass) /\ con' = con
  BY DEF ResetRing, InPass
<1>2. hurt' \in BOOLEAN
  <2>1. hurt' = (con.pc \in InPass)
    BY Zenon DEF ResetRing, InPass
  <2> QED BY <2>1
<1>3. Count' = 0
  BY <1>1 DEF Count, CountTo
<1> QED BY <1>1, <1>2, <1>3 DEF InRing, InPass

\* The handler's other steps.
LEMMA PipeIrq ==
  ASSUME BtifInd, BtifInd', Interrupt \/ IrqTake \/ IrqCheck \/ IrqEnd
  PROVE  PipeStep
<1>1. /\ UNCHANGED <<cb, state, sent, out, top, con>> /\ hurt \in BOOLEAN /\ hurt' \in BOOLEAN
  BY DEF Interrupt, IrqTake, IrqCheck, IrqEnd, lifeVars, conVars, BtifInd, RingInd, RingType
<1>2. Numbers /\ Numbers' /\ Left \in Nat /\ Left' \in Nat
  BY IndNumbers, IndNumbersNext, CopiedNext, CopiedIs DEF BtifInd
<1>3. ASSUME Left' = Left PROVE InVff' = InVff
  BY <1>1, <1>3 DEF InVff, Left
<1>4. ASSUME UNCHANGED ringVars PROVE InRing' = InRing
  BY <1>1, <1>4 DEF InRing, Count, CountTo, ringVars
<1>5. CASE Interrupt \/ IrqEnd \/ IrqCheck
  <2>1. Left' = Left
    <3>1. Copied' = Copied /\ Copied = sent - Left /\ Copied' = sent' - Left' /\ sent \in Nat
      BY <1>5, CopiedSame, CopiedIs, CopiedNext DEF BtifInd
    <3> DEFINE a == Left
               b == Left'
               s == sent
               x == Copied
    <3>2. a \in Nat /\ b \in Nat /\ s \in Nat /\ x = s - a /\ x = s - b
      BY <1>1, <1>2, <3>1
    <3> HIDE DEF a, b, s, x
    <3>3. b = a
      BY <3>2
    <3> QED BY <3>3 DEF a, b
  <2>2. \/ UNCHANGED <<ringVars, hurt>>
        \/ TooMuch /\ ResetRing
    BY <1>5 DEF Interrupt, IrqEnd, IrqCheck
  <2>3. CASE UNCHANGED <<ringVars, hurt>>
    <3>1. InRing' = InRing /\ hurt' = hurt
      BY <1>4, <2>3
    <3> QED BY <1>1, <1>2, <1>3, <2>1, <3>1, PipeQuiet
  <2>4. CASE TooMuch /\ ResetRing
    <3>1. ~hurt => Lossy
      BY <2>4, FullIsLossy
    <3>2. ~hurt' => InRing' = 0
      BY <1>1, <2>4, ResetIsEmpty
    <3>3. InVff' = InVff /\ InVff \in Nat /\ InRing \in Nat
      BY <1>2, <1>3, <2>1 DEF Numbers
    <3>4. ~hurt' => InRing' =< InRing /\ InVff' =< InVff
      BY <3>2, <3>3
    <3> QED BY <1>1, <1>2, <3>1, <3>4, PipeQuiet
  <2> QED BY <2>2, <2>3, <2>4
<1>6. CASE IrqTake
  <2>1. /\ UNCHANGED <<ringVars, hurt>>
        /\ \/ Left' = Left
           \/ irq.pc = "take" /\ ~irq.receiver /\ Left' = 0
    BY <1>6, IrqTakeEffect DEF BtifInd
  <2>2. InRing' = InRing /\ hurt' = hurt
    BY <1>4, <2>1
  <2>3. CASE Left' = Left
    BY <1>1, <1>2, <1>3, <2>2, <2>3, PipeQuiet
  <2>4. CASE irq.pc = "take" /\ ~irq.receiver /\ Left' = 0
    <3>1. wmt = "closing"
      BY <2>4 DEF BtifInd, HandlerInd
    <3>2. ~cb
      BY <3>1 DEF BtifInd, Life
    <3>3. InVff' =< InVff /\ InRing' =< InRing
      <4>1. InVff' \in Nat /\ InVff' =< Left' /\ InVff \in Nat /\ InRing \in Nat
        BY <1>2 DEF Numbers
      <4> QED BY <2>2, <2>4, <4>1
    <3> QED BY <1>1, <1>2, <2>2, <3>2, <3>3, PipeQuiet DEF Lossy
  <2> QED BY <2>1, <2>3, <2>4
<1> QED BY <1>5, <1>6

\* btif_rxd's steps that hand nothing over.
LEMMA PipeLook ==
  ASSUME BtifInd, BtifInd', Wake \/ Look
  PROVE  PipeStep
<1>1. /\ UNCHANGED <<lifeVars, sent, irqVars, ringVars, out, top, hurt>>
      /\ con.pc \in {"wait", "look"} /\ con'.pc \in {"look", "hand"}
  BY DEF Wake, Look, BtifInd, RingInd, RingType, ConRecord
<1>2. InRing' = InRing /\ InVff' = InVff
  BY <1>1 DEF InRing, InVff, Count, CountTo, lifeVars, irqVars, ringVars
<1>3. Numbers /\ Numbers' /\ hurt \in BOOLEAN /\ hurt' = hurt /\ cb' = cb
  BY <1>1, IndNumbers, IndNumbersNext DEF lifeVars, BtifInd, RingInd, RingType
<1> QED BY <1>1, <1>2, <1>3, PipeQuiet

\* What is handed over are the next bytes, or, hurt, rubbish.
LEMMA PipeGives ==
  ASSUME BtifInd, BtifInd', cb, UNCHANGED <<lifeVars, sent, irqVars, hurt>>,
         NEW a \in Nat, NEW n \in Nat, Gives(Cells(a, n)), NEW c \in Int,
         ~hurt => /\ c = InRing /\ InRing' = c - n
                  /\ \A i \in 1 .. n : mem[(a + i - 1) % Size] = Copied - c + i
  PROVE  PipeStep
<1>1. /\ top' \in Nat /\ top =< top' /\ top' =< Copied /\ (n = 0 => top' = top)
      /\ out' = out \o Cells(a, n) /\ out' \in Seq(0 .. top') /\ Len(out') = Len(out) + n
      /\ top' = Max({top} \cup {out'[i] : i \in DOMAIN out'})
  BY GivesEffect DEF BtifInd, RingInd, ContentInd
<1>2. /\ Numbers /\ Numbers' /\ InVff = Left /\ Copied \in Int /\ Copied =< sent /\ sent \in Nat
      /\ Copied = sent - Left /\ Left \in Nat
  BY IndNumbers, IndNumbersNext, UpHasReceiver, CopiedIs DEF BtifInd
<1>3. cb' = cb /\ hurt' = hurt /\ sent' = sent /\ InVff' = InVff /\ hurt \in BOOLEAN
  BY DEF lifeVars, irqVars, InVff, Held, BtifInd, RingInd, RingType
<1>4. CASE hurt
  <2>1. out' \in Seq(0 .. sent)
    <3> DEFINE X == 0 .. top'
               Y == 0 .. sent
    <3>1. out' \in Seq(X) /\ X \subseteq Y
      <4>1. top' \in Nat /\ Copied \in Int /\ sent \in Nat /\ top' =< Copied /\ Copied =< sent
        BY <1>1, <1>2
      <4>2. top' =< sent
        BY <4>1
      <4>3. X \subseteq Y
        BY <4>1, <4>2
      <4> HIDE DEF Y
      <4> QED BY <1>1, <4>3
    <3> HIDE DEF X, Y
    <3>2. Len(out') \in Nat /\ out' \in [1 .. Len(out') -> X]
      BY <3>1
    <3>3. out' \in [1 .. Len(out') -> Y]
      BY <3>1, <3>2
    <3>4. out' \in Seq(Y)
      BY <3>2, <3>3
    <3> QED BY <3>4 DEF Y
  <2>2. Taken' = top' /\ Taken' \in top' .. sent
    BY <1>2, <1>3, <1>4 DEF Numbers
  <2>3. top' = P!Max({top} \cup {out'[i] : i \in DOMAIN out'})
    BY <1>1 DEF Max, P!Max
  <2>4. P!PipeRubbish
    <3>1. (IF hurt THEN top ELSE sent - Waiting)' \in top' .. sent
      BY <2>2 DEF Taken
    <3> QED BY <1>3, <1>4, <2>1, <2>3, <3>1, Zenon DEF P!PipeRubbish
  <2> QED BY <2>4 DEF PipeStep, P!PipeNext
<1>5. CASE ~hurt
  <2> DEFINE t == Copied - InRing
  <2>1. /\ t \in Int /\ top =< t /\ Taken = t /\ Taken \in top .. sent /\ InRing' = InRing - n
        /\ RingType /\ Old /\ InRing \in Nat
    <3>1. top =< Copied - InRing /\ RingType /\ Old
      BY <1>5 DEF BtifInd, RingInd, ContentInd, Behind
    <3>2. Taken = sent - InRing - Left /\ InRing \in Nat /\ Taken \in top .. sent
      BY <1>2, <1>5 DEF Numbers
    <3>3. Taken = Copied - InRing
      BY <1>2, <3>2
    <3> QED BY <1>2, <1>5, <3>1, <3>2, <3>3
  <2>2. \A i \in 1 .. n : mem[(a + i - 1) % Size] = t + i
    BY <1>5
  <2>3. Taken' = t + n /\ Taken' \in top' .. sent
    <3>1. Taken' = sent - InRing' - InVff' /\ Taken' \in top' .. sent'
      BY <1>2, <1>3, <1>5 DEF Numbers
    <3> QED BY <1>2, <1>3, <2>1, <3>1
  <2> HIDE DEF t
  <2>4. /\ n # 0 => top' = t + n
        /\ Cells(a, n) = [i \in 1 .. n |-> t + i]
    <3>1. VffInd /\ HandlerInd
      BY DEF BtifInd
    <3>2. RingType /\ Old /\ t \in Int /\ top =< t
      BY <2>1
    <3>3. a \in Nat /\ n \in Nat /\ Gives(Cells(a, n))
      OBVIOUS
    <3> QED BY ONLY <2>2, <3>1, <3>2, <3>3, GivesNext
  <2>5. CASE n = 0
    <3>1. out' = out /\ top' = top
      <4>1. Cells(a, n) = << >>
        BY <2>5 DEF Cells
      <4>2. out \in Seq(Bytes)
        BY IndBytes
      <4>3. out \o << >> = out
        BY <4>2
      <4> QED BY <1>1, <2>5, <4>1, <4>3
    <3>2. Taken' = Taken
      BY <2>1, <2>3, <2>5
    <3> QED BY <1>3, <3>1, <3>2 DEF PipeStep, P!pipeVars, Taken
  <2>6. CASE n # 0
    <3>1. t + n \in Taken + 1 .. sent
      BY <2>1, <2>3, <2>6
    <3>2. (t + n) - Taken = n
      BY <2>1
    <3>3. out' = out \o [i \in 1 .. (t + n) - Taken |-> Taken + i]
      BY <1>1, <2>1, <2>4, <3>2
    <3>4. Taken' = t + n /\ top' = t + n
      BY <2>3, <2>4, <2>6
    <3>5. P!PipeHand
      BY <1>3, <1>5, <3>1, <3>3, <3>4 DEF P!PipeHand, Taken
    <3> QED BY <3>5 DEF PipeStep, P!PipeNext
  <2> QED BY <2>5, <2>6
<1> QED BY <1>3, <1>4, <1>5

\* The first call of a pass, or its end.
LEMMA PipeFirst ==
  ASSUME BtifInd, BtifInd', Hand
  PROVE  PipeStep
<1>1. /\ out = <<>> /\ UNCHANGED <<lifeVars, sent, irqVars>> /\ InRing = Count /\ Count \in Nat
      /\ rd \in Nat
  BY HandEffect, RingNumbers DEF BtifInd, RingInd
<1>2. InVff' = InVff /\ cb' = cb
  BY <1>1 DEF lifeVars, irqVars, InVff, Held
<1>3. Numbers /\ Numbers' /\ hurt \in BOOLEAN
  BY IndNumbers, IndNumbersNext DEF BtifInd, RingInd, RingType
<1>4. CASE out' = <<>> /\ top' = top /\ hurt' \in BOOLEAN /\ (hurt' => hurt) /\ InRing' = Count
  BY <1>1, <1>2, <1>3, <1>4, PipeQuiet
<1>5. CASE /\ cb /\ hurt' = hurt
           /\ \E n \in Nat :
                /\ n # 0 /\ Gives(Cells(rd, n))
                /\ ~hurt => /\ InRing' = Count - n
                            /\ \A i \in 1 .. n : mem[(rd + i - 1) % Size] = Copied - Count + i
  <2>1. PICK n \in Nat :
          /\ Gives(Cells(rd, n))
          /\ ~hurt => /\ InRing' = Count - n
                      /\ \A i \in 1 .. n : mem[(rd + i - 1) % Size] = Copied - Count + i
    BY <1>5
  <2>2. Count \in Int /\ n \in Nat
    BY <1>1
  <2> QED BY <1>1, <1>5, <2>1, <2>2, PipeGives
<1>6. \/ out' = <<>> /\ top' = top /\ hurt' \in BOOLEAN /\ (hurt' => hurt) /\ InRing' = Count
      \/ /\ cb /\ hurt' = hurt
         /\ \E n \in Nat :
              /\ n # 0 /\ Gives(Cells(rd, n))
              /\ ~hurt => /\ InRing' = Count - n
                          /\ \A i \in 1 .. n : mem[(rd + i - 1) % Size] = Copied - Count + i
  BY HandEffect DEF BtifInd
<1> QED BY <1>4, <1>5, <1>6

\* The second call.
LEMMA PipeSecond ==
  ASSUME BtifInd, BtifInd', Rest
  PROVE  PipeStep
<1>1. UNCHANGED <<lifeVars, sent, irqVars, hurt>> /\ 0 \in Nat
  BY RestEffect DEF BtifInd
<1>2. InVff' = InVff /\ cb' = cb /\ hurt' = hurt
  BY <1>1 DEF lifeVars, irqVars, InVff, Held
<1>3. Numbers /\ Numbers' /\ hurt \in BOOLEAN /\ InRing \in Int /\ InVff \in Int
  BY IndNumbers, IndNumbersNext DEF BtifInd, RingInd, RingType, Numbers
<1>4. CASE hurt /\ out' = out /\ top' = top
  BY <1>1, <1>2, <1>3, <1>4, PipeQuiet
<1>5. CASE ~cb /\ out' = out /\ top' = top /\ (~hurt => InRing' = InRing - con.wr)
  <2>1. con.wr \in Nat
    BY RingNumbers DEF BtifInd, RingInd
  <2>2. ~hurt => InRing' =< InRing /\ InVff' =< InVff
    BY <1>2, <1>3, <1>5, <2>1
  <2> QED BY <1>1, <1>2, <1>3, <1>5, <2>2, PipeQuiet DEF Lossy
<1>6. CASE /\ cb
           /\ \E n \in Nat :
                /\ Gives(Cells(0, n))
                /\ ~hurt => /\ InRing' = InRing - n
                            /\ \A i \in 1 .. n : mem[(0 + i - 1) % Size] = Copied - InRing + i
  <2>1. PICK n \in Nat :
          /\ Gives(Cells(0, n))
          /\ ~hurt => /\ InRing' = InRing - n
                      /\ \A i \in 1 .. n : mem[(0 + i - 1) % Size] = Copied - InRing + i
    BY <1>6
  <2>2. InRing \in Int /\ n \in Nat
    BY <1>3
  <2> QED BY <1>1, <1>6, <2>1, <2>2, PipeGives
<1>7. \/ hurt /\ out' = out /\ top' = top
      \/ ~cb /\ out' = out /\ top' = top /\ (~hurt => InRing' = InRing - con.wr)
      \/ /\ cb
         /\ \E n \in Nat :
              /\ Gives(Cells(0, n))
              /\ ~hurt => /\ InRing' = InRing - n
                          /\ \A i \in 1 .. n : mem[(0 + i - 1) % Size] = Copied - InRing + i
  BY RestEffect DEF BtifInd
<1> QED BY <1>4, <1>5, <1>6, <1>7

\* STP is done with what it was given; the pipe may have recovered.
LEMMA PipeAdvance ==
  ASSUME BtifInd, BtifInd', Advance
  PROVE  PipeStep
<1>1. /\ UNCHANGED <<lifeVars, sent, irqVars, top>> /\ out' = <<>>
      /\ hurt' \in BOOLEAN /\ (hurt' => hurt) /\ InRing' = InRing
  BY AdvanceEffect DEF BtifInd, irqVars
<1>2. InVff' = InVff /\ cb' = cb /\ hurt \in BOOLEAN
  BY <1>1 DEF lifeVars, irqVars, InVff, Held, BtifInd, RingInd, RingType
<1>3. Numbers /\ Numbers'
  BY IndNumbers, IndNumbersNext
<1>4. CASE hurt' = hurt
  <2>1. Taken' = Taken
    BY <1>1, <1>2, <1>3, <1>4 DEF Numbers
  <2>2. P!PipeDone
    BY <1>1, <1>2, <1>4, <2>1 DEF P!PipeDone, Taken
  <2> QED BY <2>2 DEF PipeStep, P!PipeNext
<1>5. CASE hurt /\ ~hurt'
  <2>1. Taken' \in top .. sent
    BY <1>1, <1>3 DEF Numbers
  <2>2. P!PipeRecover
    BY <1>1, <1>2, <1>5, <2>1 DEF P!PipeRecover, Taken
  <2> QED BY <2>2 DEF PipeStep, P!PipeNext
<1> QED BY <1>1, <1>2, <1>4, <1>5

\* Open, close and write: nothing is lost but without rx_cb.
LEMMA PipeLife ==
  ASSUME BtifInd, BtifInd', Open \/ WriterSends \/ Close \/ CloseEnd \/ WriterFinds
  PROVE  PipeStep
<1>1. Numbers /\ Numbers' /\ InRing \in Nat /\ InVff \in Nat
  BY IndNumbers, IndNumbersNext DEF Numbers
<1>2. hurt \in BOOLEAN /\ state \in {"OFF", "ON"}
  BY DEF BtifInd, RingInd, RingType, Life
<1>3. CASE Open \/ WriterSends
  <2>1. /\ UNCHANGED <<cb, sent, irq, con, out, top>>
        /\ \/ state = "OFF" /\ SetUp /\ ~cb
           \/ ResetRing /\ ~cb /\ UNCHANGED <<state, vff>>
           \/ UNCHANGED <<state, vff, rd, wr, hurt>>
    BY <1>3, OpenEffect DEF conVars, BtifInd
  <2>2. CASE state = "OFF" /\ SetUp /\ ~cb
    <3>1. ResetRing /\ Left' = 0
      BY <2>1, <2>2, SetUpEffect DEF BtifInd
    <3>2. InVff' \in Nat /\ InVff' =< Left'
      BY <1>1 DEF Numbers
    <3>3. hurt' \in BOOLEAN /\ (~hurt' => InRing' = 0)
      BY <2>1, <3>1, ResetIsEmpty
    <3>4. ~hurt' => InRing' =< InRing /\ InVff' =< InVff
      BY <1>1, <3>1, <3>2, <3>3
    <3> QED BY <1>1, <1>2, <2>1, <2>2, <3>3, <3>4, PipeQuiet DEF Lossy
  <2>3. CASE ResetRing /\ ~cb /\ UNCHANGED <<state, vff>>
    <3>1. InVff' = InVff
      BY <2>1, <2>3 DEF InVff, Held
    <3>2. hurt' \in BOOLEAN /\ (~hurt' => InRing' = 0)
      BY <2>1, <2>3, ResetIsEmpty
    <3>3. ~hurt' => InRing' =< InRing /\ InVff' =< InVff
      BY <1>1, <3>1, <3>2
    <3> QED BY <1>1, <1>2, <2>1, <2>3, <3>2, <3>3, PipeQuiet DEF Lossy
  <2>4. CASE UNCHANGED <<state, vff, rd, wr, hurt>>
    <3>1. InVff' = InVff /\ InRing' = InRing /\ hurt' = hurt
      BY <2>1, <2>4 DEF InVff, Held, InRing, Count, CountTo
    <3> QED BY <1>1, <1>2, <2>1, <3>1, PipeQuiet
  <2> QED BY <2>1, <2>2, <2>3, <2>4
<1>4. CASE Close
  <2>1. /\ vff' = [vff EXCEPT !.receiver = FALSE] /\ vff \in VffRecord
        /\ UNCHANGED <<state, cb, sent, irq, rd, wr, con, out, top, hurt>>
    BY <1>4, HeldIs DEF Close, ringVars, conVars, BtifInd
  <2>2. vff'.wpt = vff.wpt /\ vff'.rpt = vff.rpt
    BY <2>1, VffFields
  <2>3. InVff' = InVff /\ InRing' = InRing
    BY <2>1, <2>2 DEF InVff, Held, InRing, Count, CountTo
  <2> QED BY <1>1, <1>2, <2>1, <2>3, PipeQuiet
<1>5. CASE CloseEnd
  <2>1. /\ UNCHANGED <<sent, rd, wr, con, out, top, hurt>> /\ ~cb /\ ~cb'
        /\ state' = "OFF"
    BY <1>5 DEF CloseEnd, StateAfterClose, ringVars, conVars, BtifInd, Life
  <2>2. InVff' = 0 /\ InRing' = InRing
    BY <2>1 DEF InVff, InRing, Count, CountTo
  <2>3. cb' = cb
    BY <1>5, <2>1 DEF CloseEnd, BtifInd, Life
  <2>4. InRing' =< InRing /\ InVff' =< InVff
    BY <1>1, <2>2
  <2> QED BY <1>1, <1>2, <2>1, <2>3, <2>4, PipeQuiet DEF Lossy
<1>6. CASE WriterFinds
  <2>1. UNCHANGED <<cb, state, vff, irq, sent, rd, wr, con, out, top, hurt>>
    BY <1>6 DEF WriterFinds, irqVars, ringVars, conVars
  <2>2. InVff' = InVff /\ InRing' = InRing
    BY <2>1 DEF InVff, Held, InRing, Count, CountTo
  <2> QED BY <1>1, <1>2, <2>1, <2>2, PipeQuiet
<1> QED BY <1>3, <1>4, <1>5, <1>6

\* rx_cb is set or taken away.
LEMMA PipeRegister ==
  ASSUME BtifInd, BtifInd', RegisterCb
  PROVE  PipeStep
<1>1. UNCHANGED <<state, vff, irq, sent, rd, wr, con, out, top, hurt>>
  BY DEF RegisterCb, irqVars, ringVars, conVars
<1>2. InVff' = InVff /\ InRing' = InRing
  BY <1>1 DEF InVff, Held, InRing, Count, CountTo
<1>3. Taken' = Taken
  BY <1>1, <1>2 DEF Taken, Waiting
<1>4. cb' = ~cb
  <2>1. cb \in BOOLEAN /\ (cb <=> wmt = "up")
    BY DEF BtifInd, Life
  <2>2. \/ wmt = "opened" /\ cb' = TRUE
        \/ wmt = "up" /\ cb' = FALSE
    BY DEF RegisterCb
  <2> QED BY <2>1, <2>2
<1>5. P!PipeConnect
  BY <1>1, <1>3, <1>4 DEF P!PipeConnect, Taken
<1> QED BY <1>5 DEF PipeStep, P!PipeNext

\* Every step of the receive path is a step of the pipe, or none.
LEMMA PipeSteps == BtifInd /\ BtifInd' /\ [Next]_vars => [P!PipeNext]_(P!pipeVars)
<1> SUFFICES ASSUME BtifInd, BtifInd', [Next]_vars PROVE PipeStep
  BY DEF PipeStep
<1>1. CASE UNCHANGED vars
  <2>1. UNCHANGED <<sent, Taken, top, out, cb, hurt>>
    BY <1>1 DEF vars, lifeVars, irqVars, ringVars, conVars, Taken, Waiting, InVff, Held, InRing,
                Count, CountTo
  <2> QED BY <2>1 DEF PipeStep, P!pipeVars, Taken
<1>2. CASE Next
  BY <1>2, PipeChipSends, PipeIrqWrite, PipeIrq, PipeLook, PipeFirst, PipeSecond, PipeAdvance,
     PipeLife, PipeRegister DEF Next, Handler, RxThread
<1> QED BY <1>1, <1>2

\* It begins as one.
LEMMA PipeBegins == Init => P!PipeInit
<1> SUFFICES ASSUME Init PROVE P!PipeInit
  OBVIOUS
<1>1. /\ sent = 0 /\ top = 0 /\ out = <<>> /\ cb = FALSE /\ hurt = FALSE
      /\ state = "OFF" /\ rd = 0 /\ wr = 0 /\ con.pc = "wait"
  BY DEF Init, Asleep
<1>2. Waiting = 0
  BY <1>1 DEF Waiting, InRing, InVff, Count, CountTo
<1>3. Taken = 0
  BY <1>1, <1>2 DEF Taken
<1> QED BY <1>1, <1>3 DEF P!PipeInit, Taken

\* BTIF is the pipe it promises STP to be.
THEOREM BtifIsPipe == Spec => IsPipe
<1>1. Init => P!PipeInit
  BY PipeBegins
<1>2. BtifInd /\ BtifInd' /\ [Next]_vars => [P!PipeNext]_(P!pipeVars)
  BY PipeSteps
<1>3. Spec => []BtifInd
  BY BtifAlways
<1> QED BY <1>1, <1>2, <1>3, PTL DEF Spec, IsPipe, P!Pipe

=============================================================================
