--------------------------------- MODULE Btif ---------------------------------
(***************************************************************************)
(* The receive path of BTIF (mtk_btif.c, btif_dma_plat.c, mtk_btif_exp.c)   *)
(* and its life cycle.  The DMA engine puts what the chip sends into a      *)
(* virtual FIFO; the RX interrupt handler copies it into the ring btif_buf; *)
(* the thread btif_rxd hands the ring's content to STP's parser.  wmtd      *)
(* opens and closes BTIF, other threads write.  The handler and the thread  *)
(* run on different CPUs and share the ring without a lock.                 *)
(* An offset of the virtual FIFO is kept together with its wrap bit, as a   *)
(* number below 2 * VffSize.                                                *)
(***************************************************************************)
EXTENDS Integers, Sequences, FiniteSetsExt

CONSTANTS
  Size,        \* BTIF_RX_BUFFER_SIZE
  MaxPending,  \* g_max_pding_data_size, 3/4 of it
  VffSize,     \* size of the virtual FIFO, 1/4 of it
  MaxBytes,    \* bound: bytes the chip sends
  MaxOpens     \* bound: times BTIF is opened

ASSUME BtifAssumption ==
  /\ Size \in Nat /\ MaxPending \in Nat \ {0} /\ VffSize \in Nat \ {0}
  /\ MaxPending + VffSize =< Size
  /\ MaxBytes \in Nat /\ MaxOpens \in Nat

VARIABLES
  wmt,      \* where wmtd is between wmt_ctrl_stp_open() and _close()
  enable, state,  \* p_btif->enable and ->state (DPIDLE and SUSPEND are not reached)
  user,     \* STP is in user_list
  cb,       \* rx_cb is set
  writer,   \* a writer has found its user and not yet taken the state mutex
  revived,  \* a write has set up BTIF after it was closed
  opens,
  sent,     \* external: bytes the chip has sent
  vff,      \* the DMA engine: memory, WPT, RPT; receiver: rx_cb of the DMA
  last,     \* last_wpt_wrap
  irq,      \* the interrupt handler
  mem, rd, wr,  \* btif_buf
  comp,     \* rx_comp
  con,      \* btif_rx_data_consummer(): place, wr_idx as read, len_tail
  out,      \* the bytes STP's parser was given in this pass
  top, hurt, early  \* for the properties: the highest byte STP had; the ring
            \* was reset under btif_rxd and is not whole again; the last byte
            \* came, or btif_rxd looked at it, without rx_cb

lifeVars == <<wmt, enable, state, user, cb, writer, revived, opens>>
irqVars == <<vff, last, irq>>
ringVars == <<mem, rd, wr>>
conVars == <<con, out, top>>
vars == <<lifeVars, sent, irqVars, ringVars, comp, conVars, hurt, early>>

Wrap == 2 * VffSize
Bytes == 0..MaxBytes   \* 0: never written

TypeOK ==
  /\ wmt \in {"closed", "opened", "up", "down", "closing"}
  /\ enable \in BOOLEAN /\ state \in {"OFF", "ON"} /\ user \in BOOLEAN
  /\ cb \in BOOLEAN /\ writer \in BOOLEAN /\ revived \in BOOLEAN
  /\ opens \in 0..MaxOpens /\ sent \in Bytes
  /\ vff \in [mem : [0..VffSize - 1 -> Bytes], wpt : 0..Wrap - 1,
              rpt : 0..Wrap - 1, receiver : BOOLEAN]
  /\ last \in {0, 1}
  /\ irq \in [pc : {"off", "take", "write", "check"}, todo : Seq(1..VffSize),
              done : 0..VffSize, receiver : BOOLEAN]
  /\ mem \in [0..Size - 1 -> Bytes] /\ rd \in 0..Size - 1 /\ wr \in 0..Size - 1
  /\ comp \in Nat
  /\ con \in [pc : {"wait", "look", "hand", "rest", "advance", "crashed"},
              wr : 0..Size - 1, tail : 0..Size]
  /\ out \in Seq(Bytes) /\ top \in Bytes
  /\ hurt \in BOOLEAN /\ early \in BOOLEAN

NotRunning == [pc |-> "off", todo |-> <<>>, done |-> 0, receiver |-> FALSE]
Asleep == [pc |-> "wait", wr |-> 0, tail |-> 0]

-----------------------------------------------------------------------------
(* The ring. *)

\* BBS_COUNT_CUR
CountTo(w) == IF w >= rd THEN w - rd ELSE Size - (rd - w)
Count == CountTo(wr)
Free == Size - Count - 1   \* ava_len

\* The bytes of the ring from a, n of them.
Cells(a, n) == [i \in 1..n |-> mem[(a + i - 1) % Size]]

\* BBS_INIT.  If btif_rxd stands between its look at wr_idx and its write of
\* rd_idx, it will write a stale one.
ResetRing ==
  /\ rd' = 0 /\ wr' = 0 /\ UNCHANGED mem
  /\ hurt' = (con.pc \in {"hand", "rest", "advance"})

\* What the DMA engine holds, and what of it the handler has not yet copied.
Held(v) == (v.wpt - v.rpt) % Wrap
InVff ==
  IF state = "OFF" THEN 0
  ELSE Held(vff) - irq.done - (IF irq.pc = "check" THEN Head(irq.todo) ELSE 0)

\* From a on the ring holds the last bytes copied, none of which STP had, and
\* no more than it may.
WholeFrom(a) ==
  LET n == (wr - a) % Size
      before == sent - InVff - n
  IN  n < MaxPending /\ before >= top /\ Cells(a, n) = [i \in 1..n |-> before + i]

-----------------------------------------------------------------------------
(* The DMA engine and its interrupt. *)

ChipSends ==
  /\ state = "ON" /\ sent < MaxBytes /\ Held(vff) < VffSize
  /\ sent' = sent + 1 /\ early' = ~cb
  /\ vff' = [vff EXCEPT !.mem[vff.wpt % VffSize] = sent + 1, !.wpt = (@ + 1) % Wrap]
  /\ UNCHANGED <<lifeVars, last, irq, ringVars, comp, conVars, hurt>>

Interrupt ==
  /\ state = "ON" /\ irq.pc = "off" /\ Held(vff) > 0
  /\ irq' = [irq EXCEPT !.pc = "take", !.receiver = vff.receiver]
  /\ UNCHANGED <<lifeVars, sent, vff, last, ringVars, comp, conVars, hurt, early>>

\* Mutant: last_wpt_wrap was never recorded.
RealLenNoLast ==
  LET w == (vff.wpt % VffSize)
      r == (vff.rpt % VffSize)
  IN  IF vff.wpt \div VffSize # 0 THEN w + VffSize - r ELSE w - r
RealLen ==
  LET w == (vff.wpt % VffSize)
      r == (vff.rpt % VffSize)
  IN  IF vff.wpt \div VffSize # last THEN w + VffSize - r ELSE w - r

\* What rx_cb is called with: once, or twice at the end of the FIFO.
Chunks(n) ==
  LET tail == VffSize - (vff.rpt % VffSize)
  IN  IF tail >= n THEN <<n>> ELSE <<tail, n - tail>>

\* One pass of the handler's loop begins.
IrqTake ==
  /\ irq.pc = "take" /\ vff.rpt # vff.wpt
  /\ last' = vff.wpt \div VffSize
  /\ \/ /\ irq.receiver /\ UNCHANGED vff
        /\ irq' = [irq EXCEPT !.pc = "write", !.todo = Chunks(RealLen), !.done = 0]
     \/ /\ ~irq.receiver /\ UNCHANGED irq
        /\ vff' = [vff EXCEPT !.rpt = (@ + RealLen) % Wrap]
  /\ UNCHANGED <<lifeVars, sent, ringVars, comp, conVars, hurt, early>>

\* The chunk is dealt with; after the last one RPT is written.
ChunkOver ==
  LET done == irq.done + Head(irq.todo)
  IN  IF Len(irq.todo) > 1
      THEN /\ irq' = [irq EXCEPT !.pc = "write", !.todo = Tail(@), !.done = done]
           /\ UNCHANGED vff
      ELSE /\ irq' = [irq EXCEPT !.pc = "take", !.todo = <<>>, !.done = 0]
           /\ vff' = [vff EXCEPT !.rpt = (@ + done) % Wrap]

\* btif_bbs_write(), up to the new wr_idx
IrqWrite ==
  /\ irq.pc = "write"
  /\ LET n == IF Head(irq.todo) =< Free THEN Head(irq.todo) ELSE Free   \* wr_len
     IN  /\ mem' = [i \in 0..Size - 1 |->
              IF (i - wr) % Size < n
              THEN vff.mem[(vff.rpt + irq.done + ((i - wr) % Size)) % VffSize] ELSE mem[i]]
         /\ wr' = (wr + n) % Size
  /\ \/ Free = 0 /\ ChunkOver
     \/ Free > 0 /\ irq' = [irq EXCEPT !.pc = "check"] /\ UNCHANGED vff
  /\ UNCHANGED <<lifeVars, sent, last, rd, comp, conVars, hurt, early>>

\* Mutant: one byte more may be pending.
TooMuchPlus == Count > MaxPending
TooMuch == Count >= MaxPending

\* Its end: too much is pending.
IrqCheck ==
  /\ irq.pc = "check" /\ ChunkOver
  /\ \/ TooMuch /\ ResetRing
     \/ ~TooMuch /\ UNCHANGED <<ringVars, hurt>>
  /\ UNCHANGED <<lifeVars, sent, last, comp, conVars, early>>

\* Mutant: complete() only for a thread that waits.
CompleteIfWaiting == IF con.pc = "wait" THEN 1 ELSE comp
Complete == comp + 1

\* _btif_rx_btm_sched()
IrqEnd ==
  /\ irq.pc = "take" /\ vff.rpt = vff.wpt
  /\ irq' = NotRunning /\ comp' = Complete
  /\ UNCHANGED <<lifeVars, sent, vff, last, ringVars, conVars, hurt, early>>

-----------------------------------------------------------------------------
(* btif_rxd *)

Wake ==
  /\ con.pc = "wait" /\ comp > 0
  /\ comp' = comp - 1 /\ con' = [con EXCEPT !.pc = "look"]
  /\ UNCHANGED <<lifeVars, sent, irqVars, ringVars, out, top, hurt, early>>

Look ==
  /\ con.pc = "look" /\ con' = [con EXCEPT !.pc = "hand", !.wr = wr]
  /\ UNCHANGED <<lifeVars, sent, irqVars, ringVars, comp, out, top, hurt, early>>

\* rx_cb(buf, len)
Gives(bytes) ==
  /\ out' = out \o bytes
  /\ top' = Max({top} \cup {bytes[i] : i \in DOMAIN bytes})

\* The first test and call of a pass.  It ends with nothing to hand over, or
\* with nobody to hand it to.
Hand ==
  /\ con.pc = "hand"
  /\ \/ /\ CountTo(con.wr) = 0 \/ ~cb
        /\ con' = Asleep /\ UNCHANGED <<out, top>>
        /\ hurt' = (hurt /\ ~WholeFrom(rd))
     \/ /\ cb /\ rd < con.wr
        /\ Gives(Cells(rd, con.wr - rd))
        /\ con' = [con EXCEPT !.pc = "advance"] /\ UNCHANGED hurt
     \/ /\ cb /\ rd > con.wr
        /\ Gives(Cells(rd, Size - rd))
        /\ con' = [con EXCEPT !.pc = "rest", !.tail = Size - rd] /\ UNCHANGED hurt
  /\ early' = (early \/ ~cb)
  /\ UNCHANGED <<lifeVars, sent, irqVars, ringVars, comp>>

\* The second call, from the start of the ring.  A length below zero is one of
\* nearly 2^32: the parser runs off the buffer.
Rest ==
  /\ con.pc = "rest"
  /\ LET n == CountTo(con.wr) - con.tail
     IN  \/ /\ n >= 0 /\ con' = [con EXCEPT !.pc = "advance"]
            /\ \/ cb /\ Gives(Cells(0, n))
               \/ ~cb /\ UNCHANGED <<out, top>>
         \/ /\ n < 0 /\ con' = [con EXCEPT !.pc = "crashed"]
            /\ UNCHANGED <<out, top>>
  /\ UNCHANGED <<lifeVars, sent, irqVars, ringVars, comp, hurt, early>>

\* Mutant: rd_idx is set to the wr_idx of now.
NewReadIdxNow == wr
NewReadIdx == con.wr

Advance ==
  /\ con.pc = "advance"
  /\ rd' = NewReadIdx /\ out' = <<>> /\ con' = [Asleep EXCEPT !.pc = "look"]
  /\ hurt' = (hurt /\ ~WholeFrom(NewReadIdx))
  /\ UNCHANGED <<lifeVars, sent, irqVars, mem, wr, comp, top, early>>

-----------------------------------------------------------------------------
(* Open, close and write. *)

\* _btif_init(): the ring, the virtual FIFO and the DMA engine; interrupts.
SetUp ==
  /\ ResetRing /\ last' = 0
  /\ vff' = [vff EXCEPT !.wpt = 0, !.rpt = 0, !.receiver = TRUE]
  /\ state' = "ON"

\* mtk_wcn_btif_open().  With its interrupts still requested BTIF is not set up
\* a second time, and the open fails.
Open ==
  /\ wmt = "closed" /\ opens < MaxOpens /\ opens' = opens + 1
  /\ \/ /\ state = "OFF" /\ SetUp
        /\ enable' = TRUE /\ user' = TRUE /\ wmt' = "opened"
     \/ /\ state = "ON" /\ ResetRing
        /\ UNCHANGED <<state, vff, last, enable, user, wmt>>
  /\ UNCHANGED <<cb, writer, revived, sent, irq, comp, conVars, early>>

\* wmt_ctrl_stp_open() and _close() set rx_cb.
RegisterCb ==
  /\ \/ wmt = "opened" /\ wmt' = "up" /\ cb' = TRUE
     \/ wmt = "up" /\ wmt' = "down" /\ cb' = FALSE
  /\ UNCHANGED <<enable, state, user, writer, revived, opens, sent, irqVars,
                 ringVars, comp, conVars, hurt, early>>

\* btif_close() up to free_irq(), which waits for a running handler.
Close ==
  /\ wmt = "down" /\ wmt' = "closing"
  /\ user' = FALSE /\ enable' = FALSE /\ vff' = [vff EXCEPT !.receiver = FALSE]
  /\ UNCHANGED <<state, cb, writer, revived, opens, sent, last, irq, ringVars,
                 comp, conVars, hurt, early>>

\* Mutant: the interrupts are left requested.
StateAfterCloseOn == "ON"
StateAfterClose == "OFF"

CloseEnd ==
  /\ wmt = "closing" /\ irq.pc = "off"
  /\ wmt' = "closed" /\ cb' = FALSE /\ state' = StateAfterClose
  /\ UNCHANGED <<enable, user, writer, revived, opens, sent, irqVars, ringVars,
                 comp, conVars, hurt, early>>

\* mtk_wcn_btif_write(): btif_exp_srh_id() finds the user.
WriterFinds ==
  /\ user /\ ~writer /\ writer' = TRUE
  /\ UNCHANGED <<wmt, enable, state, user, cb, revived, opens, sent, irqVars,
                 ringVars, comp, conVars, hurt, early>>

\* _btif_send_data() gets the state mutex, which a close holds to its end; in
\* OFF _btif_exit_dpidle() sets BTIF up.
WriterSends ==
  /\ writer /\ writer' = FALSE /\ wmt # "closing"
  /\ \/ /\ state = "ON" /\ UNCHANGED <<state, vff, last, rd, wr, mem, hurt, revived>>
     \/ /\ state = "OFF" /\ SetUp /\ revived' = TRUE
  /\ UNCHANGED <<wmt, enable, user, cb, opens, sent, irq, comp, conVars, early>>

-----------------------------------------------------------------------------

Init ==
  /\ wmt = "closed" /\ enable = FALSE /\ state = "OFF" /\ user = FALSE
  /\ cb = FALSE /\ writer = FALSE /\ revived = FALSE /\ opens = 0 /\ sent = 0
  /\ vff = [mem |-> [i \in 0..VffSize - 1 |-> 0], wpt |-> 0, rpt |-> 0, receiver |-> FALSE]
  /\ last = 0 /\ irq = NotRunning
  /\ mem = [i \in 0..Size - 1 |-> 0] /\ rd = 0 /\ wr = 0 /\ comp = 0
  /\ con = Asleep /\ out = <<>>
  /\ top = 0 /\ hurt = FALSE /\ early = FALSE

Handler == Interrupt \/ IrqTake \/ IrqWrite \/ IrqCheck \/ IrqEnd
RxThread == Wake \/ Look \/ Hand \/ Rest \/ Advance
Next ==
  ChipSends \/ Handler \/ RxThread
  \/ Open \/ RegisterCb \/ Close \/ CloseEnd \/ WriterFinds \/ WriterSends

Spec == Init /\ [][Next]_vars

-----------------------------------------------------------------------------
(* Properties. *)

\* A closed BTIF has given back its interrupts and its DMA engine, so that the
\* next open succeeds; an open one is set up.  The exception is a write that
\* found its user before the close and gets the state mutex after it.
LifeInv ==
  /\ enable => state = "ON"
  /\ wmt = "closed" /\ ~revived => state = "OFF"
  /\ cb => enable

\* What waits for STP: in the ring, behind what this pass has handed over, and
\* in the virtual FIFO, behind what the handler has copied.
InRing ==
  CASE con.pc = "rest" -> wr
    [] con.pc = "advance" -> (wr - con.wr) % Size
    [] OTHER -> Count
Waiting == InRing + InVff

\* The ring holds what the handler gives it: a chunk fits whatever btif_rxd has
\* left in it (btif_bbs_write() does not cut it), and the second call of a pass
\* gets the bytes up to the wr_idx read before and no length below zero - as
\* long as the ring was not reset under btif_rxd.
ChunkFits == irq.pc = "write" => Head(irq.todo) =< Free
RestInRing == con.pc = "rest" => CountTo(con.wr) = con.tail + con.wr
RingSound == ~hurt => ChunkFits /\ RestInRing

\* btif_rxd never sleeps on data for STP: when it waits, no completion is pending
\* and no interrupt that will give one is due or runs, the ring is empty and as
\* the handler left it - unless STP was not there when the last byte came or was
\* looked at: those bytes wait for the next interrupt.
NoLostWakeup ==
  con.pc = "wait" /\ comp = 0 /\ irq.pc = "off" /\ Held(vff) = 0 /\ cb /\ ~early
    => InRing = 0 /\ ~hurt

RingInv == TypeOK /\ RingSound /\ NoLostWakeup

\* BTIF is the pipe of RxPipe: STP gets the bytes in order, each once, none left
\* out, and loses some only at the limit of the ring or without rx_cb.
P == INSTANCE RxPipe WITH
  received <- sent, taken <- IF hurt THEN top ELSE sent - Waiting,
  up <- cb, dirty <- hurt
IsPipe == P!Pipe
=============================================================================
