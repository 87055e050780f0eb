----------------------------- MODULE WmtOpProofs -----------------------------
(***************************************************************************)
(* Theorems about WmtOp for every number of ops, callers, calls, tries and *)
(* resets: the pool, the answers, and what a single resetter may rely on.  *)
(***************************************************************************)
EXTENDS WmtOp, SequenceTheorems, TLAPS

-----------------------------------------------------------------------------
(* The active queue as a set.                                              *)

Queued == ToSet(active)
Distinct(s) == \A i, j \in 1..Len(s) : s[i] = s[j] => i = j

LEMMA AppendQueued ==
  ASSUME NEW S, NEW s \in Seq(S), NEW e \in S
  PROVE  /\ Append(s, e) \in Seq(S)
         /\ ToSet(Append(s, e)) = ToSet(s) \cup {e}
         /\ Distinct(s) /\ e \notin ToSet(s) => Distinct(Append(s, e))
<1> DEFINE n == Len(s)  a == Append(s, e)
<1>1. n \in Nat /\ DOMAIN s = 1..n /\ a \in Seq(S) /\ Len(a) = n + 1
      /\ (\A i \in 1..n : a[i] = s[i]) /\ a[n + 1] = e
  BY AppendProperties, LenProperties
<1>2. DOMAIN a = 1..(n + 1)
  BY <1>1, LenProperties
<1> HIDE DEF n, a
<1>3. ToSet(s) = {s[i] : i \in 1..n} /\ ToSet(a) = {a[i] : i \in 1..(n + 1)}
  BY <1>1, <1>2 DEF ToSet
<1>4. ToSet(a) = ToSet(s) \cup {e}
  BY <1>1, <1>3
<1>5. Distinct(s) /\ e \notin ToSet(s) => Distinct(a)
  BY <1>1, <1>3 DEF Distinct, n
<1> QED  BY <1>1, <1>4, <1>5 DEF a

LEMMA TailQueued ==
  ASSUME NEW S, NEW s \in Seq(S), s # <<>>
  PROVE  /\ Head(s) \in S /\ Head(s) \in ToSet(s) /\ Tail(s) \in Seq(S)
         /\ ToSet(Tail(s)) \subseteq ToSet(s)
         /\ ToSet(s) = ToSet(Tail(s)) \cup {Head(s)}
         /\ Distinct(s) => Distinct(Tail(s)) /\ Head(s) \notin ToSet(Tail(s))
<1> DEFINE n == Len(s)  r == Tail(s)
<1>1. n \in Nat \ {0} /\ DOMAIN s = 1..n
  BY EmptySeq, LenProperties
<1>2. Head(s) = s[1] /\ Head(s) \in S /\ r \in Seq(S) /\ Len(r) = n - 1
      /\ \A i \in 1..(n - 1) : r[i] = s[i + 1]
  BY HeadTailProperties
<1>3. DOMAIN r = 1..(n - 1)
  BY <1>2, LenProperties
<1> HIDE DEF n, r
<1>4. ToSet(s) = {s[i] : i \in 1..n} /\ ToSet(r) = {r[i] : i \in 1..(n - 1)}
  BY <1>1, <1>3 DEF ToSet
<1>5. ToSet(r) \subseteq ToSet(s) /\ s[1] \in ToSet(s)
  BY <1>1, <1>2, <1>4
<1>6. ASSUME NEW x \in ToSet(s), x # s[1] PROVE x \in ToSet(r)
  <2>1. PICK i \in 1..n : x = s[i]
    BY <1>4
  <2>2. i - 1 \in 1..(n - 1) /\ r[i - 1] = s[i]
    BY <1>1, <1>2, <1>6, <2>1
  <2> QED  BY <1>4, <2>1, <2>2
<1>7. Distinct(s) => Distinct(r) /\ s[1] \notin ToSet(r)
  BY <1>1, <1>2, <1>4 DEF Distinct, n
<1> QED  BY <1>2, <1>5, <1>6, <1>7 DEF r

LEMMA NextOpUsable == ASSUME Usable # {} PROVE NextOp \in Usable
  BY DEF NextOp

LEMMA EmptyQueued == ToSet(<<>>) = {} /\ Distinct(<<>>) /\ <<>> \in Seq(Ops)
  BY DEF ToSet, Distinct
-----------------------------------------------------------------------------
(* The pool: the inductive invariant PoolInd.                              *)

\* In the active queue or with wmtd.
InFlight(o) == o \in Queued \/ wmtd.op = o

QueueType == active \in Seq(Ops)
FreeType == free \in [Ops -> Nat]
OpType ==
  /\ id \in [Ops -> Ids] /\ res \in [Ops -> {"ok", "fail", "none"}]
  /\ waits \in [Ops -> BOOLEAN] /\ sig \in [Ops -> BOOLEAN] /\ did \in [Ops -> BOOLEAN]
ThreadType == pc \in [Threads -> Stages] /\ has \in [Threads -> Ops \cup {NoOp}]
TriesType == try \in [Resetters -> 0..Retries] /\ peek \in [Resetters -> Ops \cup {NoOp}]
WmtdType ==
  /\ wmtd \in [at : {"idle", "took", "set", "run", "answer"}, op : Ops \cup {NoOp}, ok : BOOLEAN]
  /\ cur \in Ops \cup {NoOp}
RstType ==
  /\ rstOn \in BOOLEAN /\ coredump \in BOOLEAN /\ ready \in BOOLEAN
  /\ chip \in {"", "HW_RST", "SW_RST"} /\ before \subseteq Callers
CountType == calls \in 0..MaxCalls /\ resets \in 0..MaxResets
Types ==
  /\ FreeType /\ QueueType /\ OpType /\ ThreadType /\ TriesType /\ WmtdType /\ RstType
  /\ CountType

\* A thread has an op exactly in the stages that use one.
Stage ==
  /\ \A t \in Callers : pc[t] \in {"idle", "got", "wait"} /\ (has[t] # NoOp <=> pc[t] # "idle")
  /\ \A t \in Resetters : pc[t] \notin {"got", "wait"} /\ (has[t] # NoOp => pc[t] \in ResetOps)
\* A resetter inside has tries left.
Trying == {"peek", "raise", "drain_hw", "drain_sw"} \cup ResetOps
TryLeft == \A t \in Resetters : pc[t] \in Trying => try[t] > 0
WmtdBusy == wmtd.op = NoOp <=> wmtd.at = "idle"

\* An op is in flight once: nobody takes it again while it is.
Once == Distinct(active) /\ wmtd.op \notin Queued
GotFresh == \A t \in Callers : pc[t] = "got" => ~InFlight(has[t])

Alone == \A t, u \in Threads : has[t] # NoOp /\ has[t] = has[u] => t = u
OwnedNotFree == \A t \in Threads : has[t] # NoOp => free[has[t]] = 0
FreeOnce == \A o \in Ops : free[o] \in {0, 1}
NotLost ==
  \A o \in Ops : free[o] = 1 \/ (\E t \in Threads : has[t] = o) \/ (~waits[o] /\ InFlight(o))
\* Only wmtd and the drains give back an op nobody waits for.
Unattended ==
  \A o \in Ops : InFlight(o) /\ ~waits[o] => free[o] = 0 /\ \A t \in Threads : has[t] # o

PoolInd ==
  /\ Types /\ Stage /\ TryLeft /\ WmtdBusy /\ Once /\ GotFresh
  /\ Alone /\ OwnedNotFree /\ FreeOnce /\ NotLost /\ Unattended

-----------------------------------------------------------------------------
(* The answers: AnswerInd, on top of PoolInd.                              *)

Waiting(t) == has[t] # NoOp /\ pc[t] # "got"
Pending(o) == o \in Queued \/ (wmtd.op = o /\ wmtd.at # "answer")

\* A waiting thread's op has no success yet while it is in flight, and has one
\* only from wmtd's success.
AnswerNotEarly == \A t \in Threads : Waiting(t) /\ InFlight(has[t]) => res[has[t]] # "ok"
AnswerTrue == \A t \in Threads : Waiting(t) /\ res[has[t]] = "ok" => did[has[t]]
ReportTrue ==
  /\ wmtd.ok => wmtd.at = "answer"
  /\ \A t \in Threads : Waiting(t) /\ wmtd.op = has[t] /\ wmtd.ok => did[has[t]]
\* Whoever waits is in flight or has a signal.
Attended ==
  \A t \in Threads : Waiting(t) => waits[has[t]] /\ (sig[has[t]] \/ InFlight(has[t]))
\* did is about the op's present use.
DidOwned ==
  \A o \in Ops : did[o] => ~Pending(o) /\ \E t \in Threads : Waiting(t) /\ has[t] = o

AnswerInd == AnswerNotEarly /\ AnswerTrue /\ ReportTrue /\ Attended /\ DidOwned

-----------------------------------------------------------------------------
(* One resetter at a time.                                                 *)

OneResetter == \A t, u \in Resetters : t = u
Active(t) == pc[t] \in Trying \cup {"end"}

\* WMT_STAT_RST_ON says whether the resetter is inside.
RstOn == \A t \in Resetters : Active(t) <=> rstOn
OwnId == \A t \in Resetters : has[t] # NoOp => id[has[t]] = pc[t]

\* Once HW_RST was executed in this reset wmtd has only its ops.
OnlyReset == rstOn /\ chip # "" /\ wmtd.at \in {"set", "run"} => id[wmtd.op] \in ResetOps

HwSw == {"HW_RST", "SW_RST"}
Quiet == \A o \in Ops : Pending(o) => id[o] \notin HwSw
QueueBut(x) == \A o \in Queued : id[o] \in HwSw => o = x
PendBut(x) == \A o \in Ops : Pending(o) /\ id[o] \in HwSw => o = x

\* The HW_RST and SW_RST of earlier tries are out of the way of this one's.
Tries ==
  \A t \in Resetters :
    /\ pc[t] \in {"GPIO", "HW_RST"} => QueueBut(has[t])
    /\ pc[t] = "HW_RST" /\ has[t] # NoOp /\ did[has[t]] => Quiet /\ chip = "HW_RST"
    /\ pc[t] = "drain_sw" => Quiet /\ chip = "HW_RST"
    /\ pc[t] = "SW_RST" /\ has[t] = NoOp => Quiet /\ chip = "HW_RST"
    /\ pc[t] = "SW_RST" /\ has[t] # NoOp =>
         /\ PendBut(has[t])
         /\ Pending(has[t]) => chip = "HW_RST"
         /\ did[has[t]] => chip = "SW_RST"
    /\ pc[t] = "end" /\ try[t] > 0 => Quiet /\ chip = "SW_RST"

\* Callers from before the reset: drained or with wmtd, then answered.
Before ==
  /\ \A c \in before : pc[c] = "wait"
  /\ \A t \in Resetters :
       /\ pc[t] \in ResetOps \cup {"drain_sw", "end"} => \A c \in before : has[c] \notin Queued
       /\ pc[t] = "HW_RST" /\ has[t] # NoOp /\ has[t] \notin Queued =>
            \A c \in before : wmtd.op # has[c]
       /\ HwDone(t) => \A c \in before : ~InFlight(has[c])

ResetInd == RstOn /\ OwnId /\ OnlyReset /\ Tries /\ Before
AllInd == PoolInd /\ AnswerInd /\ ResetInd
-----------------------------------------------------------------------------
(* Types, in parts.                                                        *)

\* What the assumption on the constants gives the proofs.
LEMMA Consts ==
  /\ NoOp \notin Ops /\ Callers \cap Resetters = {} /\ Retries \in Nat \ {0}
  /\ Callers \subseteq Threads /\ Resetters \subseteq Threads
  /\ MaxCalls \in Nat /\ MaxResets \in Nat
  BY WmtOpAssumption DEF WmtOpAssumption, Threads

LEMMA StageNames ==
  /\ Trying \subseteq Stages \ {"got", "wait"}
  /\ {"claim", "idle", "end", "leave"} \subseteq Stages \ {"got", "wait"}
  /\ "claim" \notin Trying /\ "idle" \notin Trying /\ "end" \notin Trying
  /\ "leave" \notin Trying /\ "peek" \in Trying
  BY DEF Trying, ResetOps, Stages

LEMMA TypeParts == TypeOK <=> Types
  BY DEF TypeOK, Types, FreeType, QueueType, OpType, ThreadType, TriesType, WmtdType,
         RstType, CountType

LEMMA TypeInit == Init => Types
<1> SUFFICES ASSUME Init PROVE Types
  OBVIOUS
<1>1. QueueType
  BY EmptyQueued DEF Init, QueueType
<1>2. FreeType /\ OpType
  BY DEF Init, FreeType, OpType, Ids
<1>3. ThreadType /\ RstType
  BY DEF Init, ThreadType, Stages, RstType
<1>4. TriesType /\ CountType
  <2>1. 0 \in 0..Retries /\ 0 \in 0..MaxCalls /\ 0 \in 0..MaxResets
    BY Consts
  <2> QED  BY <2>1 DEF Init, TriesType, CountType
<1>5. WmtdType
  BY DEF Init, WmtdType
<1> QED  BY <1>1, <1>2, <1>3, <1>4, <1>5 DEF Types

LEMMA EnqueueType ==
  ASSUME OpType, QueueType, NEW o \in Ops, NEW i \in Ids, NEW w \in BOOLEAN, Enqueue(o, i, w)
  PROVE  QueueType' /\ OpType'
<1>1. QueueType'
  BY AppendProperties DEF Enqueue, QueueType
<1> QED  BY <1>1 DEF Enqueue, Fresh, OpType

LEMMA AnswerType ==
  ASSUME OpType, NEW o \in Ops, NEW r \in {"ok", "fail"}, Answer(o, r), UNCHANGED <<id, waits, did>>
  PROVE  OpType'
  BY DEF Answer, OpType

\* The wait ends: what Answered, Expired and GiveBack do together.
WaitEnds(t) ==
  /\ GiveBack(t) /\ Forget(t)
  /\ \/ sig[has[t]] /\ sig' = [sig EXCEPT ![has[t]] = FALSE]
     \/ ~sig[has[t]] /\ sig' = sig

LEMMA WaitOver == ASSUME NEW t, Answered(t) \/ Expired(t) PROVE WaitEnds(t)
  BY DEF Answered, Expired, WaitEnds

LEMMA BackType ==
  ASSUME FreeType, NEW o \in Ops
  PROVE  /\ Back(free, o) \in [Ops -> Nat] /\ Back(free, o)[o] = free[o] + 1
         /\ \A p \in Ops \ {o} : Back(free, o)[p] = free[p]
  BY DEF Back, FreeType

LEMMA OutType ==
  ASSUME FreeType, NEW o \in Ops, free[o] > 0
  PROVE  /\ Out(free, o) \in [Ops -> Nat] /\ Out(free, o)[o] = free[o] - 1
         /\ \A p \in Ops \ {o} : Out(free, o)[p] = free[p]
<1>1. free[o] \in Nat /\ free[o] - 1 \in Nat
  BY DEF FreeType
<1> QED  BY <1>1 DEF Out, FreeType

LEMMA WaitEndsType ==
  ASSUME FreeType, OpType, ThreadType, NEW t \in Threads, has[t] # NoOp, WaitEnds(t)
  PROVE  FreeType' /\ OpType' /\ has' \in [Threads -> Ops \cup {NoOp}]
<1>1. has[t] \in Ops
  BY DEF ThreadType
<1>2. FreeType' /\ has' \in [Threads -> Ops \cup {NoOp}]
  BY <1>1, BackType DEF WaitEnds, GiveBack, FreeType, ThreadType
<1>3. OpType'
  BY <1>1 DEF WaitEnds, Forget, OpType
<1> QED  BY <1>2, <1>3

LEMMA TakeFreeType ==
  ASSUME FreeType, ThreadType, Usable # {}
  PROVE  /\ NextOp \in Ops /\ free[NextOp] > 0 /\ ~Held(NextOp)
         /\ Out(free, NextOp) \in [Ops -> Nat]
         /\ \A t \in Threads : [has EXCEPT ![t] = NextOp] \in [Threads -> Ops \cup {NoOp}]
<1>1. NextOp \in Ops /\ free[NextOp] > 0 /\ ~Held(NextOp)
  BY NextOpUsable DEF Usable, Available
<1> HIDE DEF NextOp
<1>2. Out(free, NextOp) \in [Ops -> Nat]
  BY <1>1, OutType
<1> QED  BY <1>1, <1>2 DEF ThreadType

\* A thread goes to a stage.
LEMMA GotoType ==
  ASSUME ThreadType, NEW t \in Threads, NEW s \in Stages, pc' = [pc EXCEPT ![t] = s],
         has' \in [Threads -> Ops \cup {NoOp}]
  PROVE  ThreadType'
  BY DEF ThreadType

LEMMA FinishedType ==
  ASSUME ThreadType, TriesType, NEW t \in Resetters, NEW ok \in BOOLEAN, pc[t] \in ResetOps,
         try[t] > 0, Finished(t, ok)
  PROVE  pc' \in [Threads -> Stages] /\ try' \in [Resetters -> 0..Retries]
<1>1. t \in Threads /\ NextTry(try[t]) \in 0..Retries
  BY Consts DEF NextTry, TriesType
<1>2. PICK s \in Stages : pc' = [pc EXCEPT ![t] = s]
  BY DEF Finished, Goto, Stages
<1>3. try' = try \/ try' = [try EXCEPT ![t] = NextTry(@)]
  BY DEF Finished, ResetOps
<1> QED  BY <1>1, <1>2, <1>3 DEF ThreadType, TriesType

\* A finished op of a reset leads to the next stage, the next try or the end.
LEMMA FinishedEffect ==
  ASSUME ThreadType, TriesType, NEW t \in Resetters, NEW ok \in BOOLEAN, pc[t] \in ResetOps,
         try[t] > 0, Finished(t, ok)
  PROVE  /\ \A u \in Threads : u # t => pc'[u] = pc[u]
         /\ pc'[t] \in Trying \cup {"end"}
         /\ pc'[t] \in Trying => try'[t] > 0
         /\ \A u \in Resetters : u # t => try'[u] = try[u]
<1>1. t \in Threads /\ try[t] \in Nat
  BY Consts DEF TriesType
<1>2. PICK s \in Trying \cup {"end"} : pc' = [pc EXCEPT ![t] = s]
  BY DEF Finished, Goto, Trying, ResetOps
<1>3. \/ try' = try
      \/ try' = [try EXCEPT ![t] = NextTry(@)] /\ (s \in Trying => MoreTries(NextTry(try[t])))
  BY <1>1, <1>2 DEF Finished, Goto, MayGoOn, ThreadType, Trying, ResetOps
<1> QED  BY <1>1, <1>2, <1>3 DEF ThreadType, TriesType, MoreTries
-----------------------------------------------------------------------------
(* Every step keeps PoolInd: one lemma per action.                         *)

LEMMA PoolStarts == Init => PoolInd
<1> SUFFICES ASSUME Init PROVE PoolInd
  OBVIOUS
<1>1. Types
  BY TypeInit
<1>2. Queued = {} /\ Distinct(active)
  BY EmptyQueued DEF Init, Queued
<1>3. Stage /\ WmtdBusy /\ Once /\ GotFresh
  BY <1>2, Consts DEF Init, Stage, WmtdBusy, Once, GotFresh
<1>4. Alone /\ OwnedNotFree /\ FreeOnce /\ NotLost /\ TryLeft
  BY Consts DEF Init, Alone, OwnedNotFree, FreeOnce, NotLost, TryLeft, Trying, ResetOps
<1>5. Unattended
  BY <1>2, Consts DEF Init, Unattended, InFlight
<1> QED  BY <1>1, <1>3, <1>4, <1>5 DEF PoolInd

\* Steps that move no op.
LEMMA PoolFrame ==
  ASSUME PoolInd, Types', Stage', TryLeft', WmtdBusy', UNCHANGED <<free, active, waits, has>>,
         wmtd'.op = wmtd.op, \A t \in Callers : pc'[t] = pc[t]
  PROVE  PoolInd'
<1>1. Queued' = Queued /\ \A o : InFlight(o)' <=> InFlight(o)
  BY DEF Queued, InFlight
<1>2. Once' /\ GotFresh'
  BY <1>1 DEF PoolInd, Once, GotFresh
<1>3. Alone' /\ OwnedNotFree' /\ FreeOnce' /\ NotLost' /\ Unattended'
  BY <1>1 DEF PoolInd, Alone, OwnedNotFree, FreeOnce, NotLost, Unattended
<1> QED  BY <1>2, <1>3 DEF PoolInd

\* What a fresh op is: in the free queue and nowhere else.
LEMMA FreshOp ==
  ASSUME PoolInd, Usable # {}
  PROVE  /\ NextOp \in Ops /\ free[NextOp] = 1 /\ ~InFlight(NextOp)
         /\ \A t \in Threads : has[t] # NextOp
         /\ \A t \in Resetters : peek[t] # NextOp
<1>1. NextOp \in Ops /\ free[NextOp] > 0 /\ ~Held(NextOp)
  BY TakeFreeType DEF PoolInd, Types
<1> HIDE DEF NextOp
<1>2. free[NextOp] = 1
  BY <1>1 DEF PoolInd, FreeOnce
<1>3. ~InFlight(NextOp) /\ \A t \in Resetters : peek[t] # NextOp
  BY <1>1 DEF Held, InFlight, Queued
<1>4. \A t \in Threads : has[t] # NextOp
  BY <1>1, <1>2, Consts DEF PoolInd, OwnedNotFree
<1> QED  BY <1>1, <1>2, <1>3, <1>4

\* A thread takes a fresh op out of the pool.
Acquires(t, o) == free' = Out(free, o) /\ has' = [has EXCEPT ![t] = o]

LEMMA Acquire ==
  ASSUME PoolInd, NEW t \in Threads, has[t] = NoOp, Usable # {}, Acquires(t, NextOp)
  PROVE  /\ Alone' /\ OwnedNotFree' /\ FreeOnce' /\ FreeType'
         /\ has' \in [Threads -> Ops \cup {NoOp}]
         /\ has'[t] = NextOp /\ (\A u \in Threads : u # t => has'[u] = has[u])
         /\ free'[NextOp] = 0 /\ (\A p \in Ops : p # NextOp => free'[p] = free[p])
<1> DEFINE o == NextOp
<1>1. o \in Ops /\ free[o] = 1 /\ (\A u \in Threads : has[u] # o)
  BY FreshOp
<1>2. free' \in [Ops -> Nat] /\ has' \in [Threads -> Ops \cup {NoOp}]
  BY TakeFreeType DEF Acquires, PoolInd, Types
<1> HIDE DEF o
<1>3. free'[o] = 0 /\ \A p \in Ops : p # o => free'[p] = free[p]
  BY <1>1, OutType DEF Acquires, PoolInd, Types, o
<1>4. has'[t] = o /\ \A u \in Threads : u # t => has'[u] = has[u]
  BY DEF Acquires, PoolInd, Types, ThreadType, o
<1>5. Alone'
  BY <1>1, <1>4 DEF PoolInd, Alone
<1>6. OwnedNotFree'
  <2> SUFFICES ASSUME NEW u \in Threads, has'[u] # NoOp PROVE free'[has'[u]] = 0
    BY DEF OwnedNotFree
  <2>1. CASE u = t
    BY <1>3, <1>4, <2>1
  <2>2. CASE u # t
    BY <1>1, <1>2, <1>3, <1>4, <2>2 DEF PoolInd, OwnedNotFree
  <2> QED  BY <2>1, <2>2
<1>7. FreeOnce'
  BY <1>3 DEF PoolInd, FreeOnce
<1> QED  BY <1>2, <1>3, <1>4, <1>5, <1>6, <1>7 DEF FreeType, o

\* A thread gives its op back.
LEMMA Release ==
  ASSUME PoolInd, NEW t \in Threads, has[t] # NoOp, GiveBack(t)
  PROVE  /\ has[t] \in Ops /\ Alone' /\ OwnedNotFree' /\ FreeOnce' /\ FreeType'
         /\ has' \in [Threads -> Ops \cup {NoOp}]
         /\ has'[t] = NoOp /\ (\A u \in Threads : u # t => has'[u] = has[u])
         /\ free'[has[t]] = 1 /\ (\A p \in Ops : p # has[t] => free'[p] = free[p])
<1> DEFINE o == has[t]
<1>1. o \in Ops /\ free[o] = 0
  BY DEF PoolInd, Types, ThreadType, OwnedNotFree
<1>2. has' \in [Threads -> Ops \cup {NoOp}]
  BY DEF GiveBack, PoolInd, Types, ThreadType
<1>3. has'[t] = NoOp /\ \A u \in Threads : u # t => has'[u] = has[u]
  BY DEF GiveBack, PoolInd, Types, ThreadType
<1>4. \A u \in Threads : u # t => has[u] # o
  BY DEF PoolInd, Alone
<1> HIDE DEF o
<1>5. free' \in [Ops -> Nat] /\ free'[o] = 1 /\ \A p \in Ops : p # o => free'[p] = free[p]
  BY <1>1, BackType DEF GiveBack, PoolInd, Types, o
<1>6. Alone'
  BY <1>3 DEF PoolInd, Alone
<1>7. OwnedNotFree'
  <2> SUFFICES ASSUME NEW u \in Threads, has'[u] # NoOp PROVE free'[has'[u]] = 0
    BY DEF OwnedNotFree
  <2>1. u # t /\ has'[u] = has[u] /\ has[u] # o /\ has[u] \in Ops
    BY <1>2, <1>3, <1>4
  <2> QED  BY <1>5, <2>1 DEF PoolInd, OwnedNotFree
<1>8. FreeOnce'
  BY <1>5 DEF PoolInd, FreeOnce
<1> QED  BY <1>1, <1>2, <1>3, <1>5, <1>6, <1>7, <1>8 DEF FreeType, o

LEMMA GetPool == ASSUME PoolInd, NEW t \in Callers, Get(t) PROVE PoolInd'
<1> DEFINE o == NextOp
<1>1. /\ o \in Ops /\ free[o] = 1 /\ ~InFlight(o) /\ (\A u \in Threads : has[u] # o)
      /\ pc[t] = "idle" /\ pc' = [pc EXCEPT ![t] = "got"]
      /\ active' = active /\ waits' = waits /\ wmtd' = wmtd /\ try' = try
  BY FreshOp DEF Get, opVars, ctxVars
<1>2. t \in Threads /\ has[t] = NoOp
  BY <1>1, Consts DEF PoolInd, Stage
<1>3. /\ Alone' /\ OwnedNotFree' /\ FreeOnce' /\ FreeType'
      /\ has' \in [Threads -> Ops \cup {NoOp}]
      /\ has'[t] = o /\ (\A u \in Threads : u # t => has'[u] = has[u])
      /\ free'[o] = 0 /\ (\A p \in Ops : p # o => free'[p] = free[p])
  BY <1>2, Acquire DEF Get, Acquires
<1>4. CountType'
  BY Consts DEF Get, PoolInd, Types, CountType, ctxVars
<1> HIDE DEF o
<1>5. Types'
  <2>1. ThreadType'
    BY <1>1, <1>2, <1>3, GotoType DEF PoolInd, Types, Stages
  <2>2. QueueType' /\ OpType' /\ TriesType' /\ WmtdType' /\ RstType'
    BY DEF Get, PoolInd, Types, QueueType, OpType, TriesType, WmtdType, RstType,
           opVars, ctxVars, rstVars
  <2> QED  BY <1>3, <1>4, <2>1, <2>2 DEF Types
<1>6. pc'[t] = "got" /\ \A u \in Threads : u # t => pc'[u] = pc[u]
  BY <1>1, <1>2 DEF PoolInd, Types, ThreadType
<1>7. Stage' /\ TryLeft'
  BY <1>1, <1>3, <1>6, Consts DEF PoolInd, Stage, TryLeft
<1>8. Queued' = Queued /\ \A p : InFlight(p)' <=> InFlight(p)
  BY <1>1 DEF Queued, InFlight
<1>9. WmtdBusy' /\ Once' /\ GotFresh'
  BY <1>1, <1>3, <1>6, <1>8, Consts DEF PoolInd, WmtdBusy, Once, GotFresh
<1>10. NotLost'
  BY <1>1, <1>2, <1>3, <1>8, Consts DEF PoolInd, NotLost
<1>11. Unattended'
  BY <1>1, <1>3, <1>8 DEF PoolInd, Unattended
<1> QED  BY <1>3, <1>5, <1>7, <1>9, <1>10, <1>11 DEF PoolInd

LEMMA GiveUpPool == ASSUME PoolInd, NEW t \in Callers, GiveUp(t) PROVE PoolInd'
<1> DEFINE o == has[t]
<1>1. /\ t \in Threads /\ pc[t] = "got" /\ pc' = [pc EXCEPT ![t] = "idle"]
      /\ active' = active /\ waits' = waits /\ wmtd' = wmtd /\ try' = try
      /\ o # NoOp /\ ~InFlight(o)
  BY Consts DEF GiveUp, opVars, ctxVars, PoolInd, Stage, GotFresh
<1>2. /\ o \in Ops /\ Alone' /\ OwnedNotFree' /\ FreeOnce' /\ FreeType'
      /\ has' \in [Threads -> Ops \cup {NoOp}]
      /\ has'[t] = NoOp /\ (\A u \in Threads : u # t => has'[u] = has[u])
      /\ free'[o] = 1 /\ (\A p \in Ops : p # o => free'[p] = free[p])
  BY <1>1, Release DEF GiveUp
<1> HIDE DEF o
<1>3. Types'
  <2>1. ThreadType'
    BY <1>1, <1>2, GotoType DEF PoolInd, Types, Stages
  <2>2. QueueType' /\ OpType' /\ TriesType' /\ WmtdType' /\ RstType' /\ CountType'
    BY DEF GiveUp, PoolInd, Types, QueueType, OpType, TriesType, WmtdType, RstType,
           CountType, opVars, ctxVars, rstVars
  <2> QED  BY <1>2, <2>1, <2>2 DEF Types
<1>4. pc'[t] = "idle" /\ \A u \in Threads : u # t => pc'[u] = pc[u]
  BY <1>1 DEF PoolInd, Types, ThreadType
<1>5. Stage' /\ TryLeft'
  BY <1>1, <1>2, <1>4, Consts DEF PoolInd, Stage, TryLeft
<1>6. Queued' = Queued /\ \A p : InFlight(p)' <=> InFlight(p)
  BY <1>1 DEF Queued, InFlight
<1>7. WmtdBusy' /\ Once' /\ GotFresh'
  BY <1>1, <1>2, <1>4, <1>6, Consts DEF PoolInd, WmtdBusy, Once, GotFresh
<1>8. NotLost'
  BY <1>1, <1>2, <1>6 DEF PoolInd, NotLost, o
<1>9. Unattended'
  BY <1>1, <1>2, <1>6, Consts DEF PoolInd, Unattended
<1> QED  BY <1>2, <1>3, <1>5, <1>7, <1>8, <1>9 DEF PoolInd

\* A thread queues a fresh op, its own or (psmd) nobody's.
LEMMA Queues ==
  ASSUME PoolInd, NEW o \in Ops, ~InFlight(o), active' = Append(active, o), wmtd' = wmtd
  PROVE  /\ QueueType' /\ Once' /\ WmtdBusy' /\ (\A p : InFlight(p)' <=> InFlight(p) \/ p = o)
         /\ Queued' = Queued \cup {o}
<1>1. QueueType' /\ Queued' = Queued \cup {o} /\ Distinct(active')
  BY AppendQueued DEF PoolInd, Types, QueueType, Once, InFlight, Queued
<1>2. WmtdBusy' /\ wmtd'.op = wmtd.op
  BY DEF PoolInd, WmtdBusy
<1>3. \A p : InFlight(p)' <=> InFlight(p) \/ p = o
  BY <1>1, <1>2 DEF InFlight
<1>4. Once'
  BY <1>1, <1>2 DEF PoolInd, Once, InFlight
<1> QED  BY <1>1, <1>2, <1>3, <1>4

LEMMA PutPool == ASSUME PoolInd, NEW t \in Callers, Put(t) PROVE PoolInd'
<1> DEFINE o == has[t]
<1>1. /\ t \in Threads /\ o \in Ops /\ ~InFlight(o) /\ Enqueue(o, "FUNC", TRUE)
      /\ pc[t] = "got" /\ pc' = [pc EXCEPT ![t] = "wait"]
      /\ free' = free /\ has' = has /\ try' = try /\ wmtd' = wmtd
  BY Consts DEF Put, PoolInd, Types, ThreadType, Stage, GotFresh, ctxVars
<1>2. QueueType' /\ Once' /\ WmtdBusy' /\ \A p : InFlight(p)' <=> InFlight(p) \/ p = o
  BY <1>1, Queues DEF Enqueue
<1>3. waits'[o] /\ \A p \in Ops : p # o => (waits'[p] <=> waits[p])
  BY <1>1 DEF Enqueue, PoolInd, Types, OpType
<1>4. Types'
  <2>1. OpType'
    BY <1>1, EnqueueType DEF PoolInd, Types, Ids
  <2>2. ThreadType'
    BY <1>1, GotoType DEF PoolInd, Types, Stages, ThreadType
  <2>3. FreeType' /\ TriesType' /\ WmtdType' /\ RstType' /\ CountType'
    BY DEF Put, PoolInd, Types, FreeType, TriesType, WmtdType, RstType,
           CountType, ctxVars, rstVars
  <2> QED  BY <1>2, <2>1, <2>2, <2>3 DEF Types
<1>5. pc'[t] = "wait" /\ \A u \in Threads : u # t => pc'[u] = pc[u]
  BY <1>1 DEF PoolInd, Types, ThreadType
<1>6. Stage' /\ TryLeft'
  BY <1>1, <1>5, Consts DEF PoolInd, Stage, TryLeft
<1>7. GotFresh'
  <2> SUFFICES ASSUME NEW u \in Callers, pc'[u] = "got" PROVE ~InFlight(has[u])'
    BY DEF GotFresh
  <2>1. u # t /\ pc[u] = "got" /\ has'[u] = has[u] /\ u \in Threads
    BY <1>1, <1>5, Consts
  <2>2. has[u] # NoOp /\ has[u] # o /\ ~InFlight(has[u])
    BY <1>1, <2>1 DEF PoolInd, Stage, GotFresh, Alone
  <2> QED  BY <1>2, <2>1, <2>2
<1>8. Alone' /\ OwnedNotFree' /\ FreeOnce'
  BY <1>1 DEF PoolInd, Alone, OwnedNotFree, FreeOnce
<1>9. NotLost' /\ Unattended'
  BY <1>1, <1>2, <1>3 DEF PoolInd, NotLost, Unattended
<1> QED  BY <1>2, <1>4, <1>6, <1>7, <1>8, <1>9 DEF PoolInd

LEMMA PsmdPutPool == ASSUME PoolInd, PsmdPut PROVE PoolInd'
<1> DEFINE o == NextOp
<1>1. /\ o \in Ops /\ free[o] = 1 /\ ~InFlight(o) /\ (\A u \in Threads : has[u] # o)
      /\ Enqueue(o, "PWR_SV", FALSE) /\ free' = Out(free, o)
      /\ has' = has /\ pc' = pc /\ try' = try /\ wmtd' = wmtd
  BY FreshOp DEF PsmdPut, ctxVars
<1>2. free' \in [Ops -> Nat]
  BY TakeFreeType DEF PsmdPut, PoolInd, Types
<1> HIDE DEF o
<1>3. QueueType' /\ Once' /\ WmtdBusy' /\ \A p : InFlight(p)' <=> InFlight(p) \/ p = o
  BY <1>1, Queues DEF Enqueue
<1>4. ~waits'[o] /\ \A p \in Ops : p # o => (waits'[p] <=> waits[p])
  BY <1>1 DEF Enqueue, PoolInd, Types, OpType
<1>5. free'[o] = 0 /\ \A p \in Ops : p # o => free'[p] = free[p]
  BY <1>1, OutType DEF PoolInd, Types
<1>6. Types'
  <2>1. OpType'
    BY <1>1, EnqueueType DEF PoolInd, Types, Ids
  <2>2. CountType'
    BY Consts DEF PsmdPut, PoolInd, Types, CountType, ctxVars
  <2>3. ThreadType' /\ TriesType' /\ WmtdType' /\ RstType'
    BY DEF PsmdPut, PoolInd, Types, ThreadType, TriesType, WmtdType, RstType,
           ctxVars, rstVars
  <2> QED  BY <1>2, <1>3, <2>1, <2>2, <2>3 DEF Types, FreeType
<1>7. Stage' /\ TryLeft'
  BY <1>1 DEF PoolInd, Stage, TryLeft
<1>8. GotFresh'
  BY <1>1, <1>3, Consts DEF PoolInd, GotFresh
<1>9. Alone' /\ OwnedNotFree' /\ FreeOnce'
  <2>1. \A u \in Threads : has[u] \in Ops \cup {NoOp}
    BY DEF PoolInd, Types, ThreadType
  <2> QED  BY <1>1, <1>5, <2>1 DEF PoolInd, Alone, OwnedNotFree, FreeOnce
<1>10. NotLost' /\ Unattended'
  BY <1>1, <1>3, <1>4, <1>5 DEF PoolInd, NotLost, Unattended
<1> QED  BY <1>3, <1>6, <1>7, <1>8, <1>9, <1>10 DEF PoolInd

\* A wait ends, whoever waited.
LEMMA WaitEndsPool ==
  ASSUME PoolInd, NEW t \in Threads, has[t] # NoOp, pc[t] # "got", WaitEnds(t),
         active' = active, wmtd' = wmtd, Types', Stage', TryLeft',
         \A u \in Threads : u # t => pc'[u] = pc[u], pc'[t] # "got"
  PROVE  PoolInd'
<1> DEFINE o == has[t]
<1>1. /\ o \in Ops /\ Alone' /\ OwnedNotFree' /\ FreeOnce' /\ FreeType'
      /\ has' \in [Threads -> Ops \cup {NoOp}]
      /\ has'[t] = NoOp /\ (\A u \in Threads : u # t => has'[u] = has[u])
      /\ free'[o] = 1 /\ (\A p \in Ops : p # o => free'[p] = free[p])
      /\ waits' = waits
  BY Release DEF WaitEnds, Forget
<1>2. Queued' = Queued /\ \A p : InFlight(p)' <=> InFlight(p)
  BY DEF Queued, InFlight
<1>3. WmtdBusy' /\ Once' /\ GotFresh'
  BY <1>1, <1>2, Consts DEF PoolInd, WmtdBusy, Once, GotFresh
<1>4. NotLost'
  BY <1>1, <1>2 DEF PoolInd, NotLost
<1>5. Unattended'
  BY <1>1, <1>2, Consts DEF PoolInd, Unattended
<1> QED  BY <1>1, <1>3, <1>4, <1>5 DEF PoolInd

LEMMA ReturnPool == ASSUME PoolInd, NEW t \in Callers, Return(t) PROVE PoolInd'
<1>1. /\ t \in Threads /\ t \notin Resetters /\ has[t] # NoOp /\ pc[t] # "got" /\ WaitEnds(t)
      /\ active' = active /\ wmtd' = wmtd /\ try' = try /\ pc' = [pc EXCEPT ![t] = "idle"]
  BY WaitOver, Consts DEF Return, PoolInd, Stage, ctxVars
<1>2. pc'[t] = "idle" /\ \A u \in Threads : u # t => pc'[u] = pc[u]
  BY <1>1 DEF PoolInd, Types, ThreadType
<1>3. has' \in [Threads -> Ops \cup {NoOp}]
      /\ has'[t] = NoOp /\ (\A u \in Threads : u # t => has'[u] = has[u])
  BY <1>1, Release DEF WaitEnds
<1>4. Types'
  <2>1. FreeType' /\ OpType'
    BY <1>1, WaitEndsType DEF PoolInd, Types
  <2>2. ThreadType'
    BY <1>1, <1>3, GotoType DEF PoolInd, Types, Stages
  <2>3. QueueType' /\ TriesType' /\ WmtdType' /\ RstType' /\ CountType'
    BY DEF Return, PoolInd, Types, QueueType, TriesType, WmtdType, RstType, CountType, ctxVars
  <2> QED  BY <2>1, <2>2, <2>3 DEF Types
<1>5. Stage' /\ TryLeft'
  BY <1>1, <1>2, <1>3, Consts DEF PoolInd, Stage, TryLeft
<1> QED  BY <1>1, <1>2, <1>4, <1>5, WaitEndsPool

LEMMA TakePool == ASSUME PoolInd, Take PROVE PoolInd'
<1> DEFINE o == Head(active)
<1>1. /\ wmtd.at = "idle" /\ active # <<>> /\ active \in Seq(Ops) /\ active' = Tail(active)
      /\ wmtd' = [at |-> "took", op |-> o, ok |-> FALSE]
      /\ free' = free /\ has' = has /\ pc' = pc /\ try' = try /\ waits' = waits
  BY DEF Take, PoolInd, Types, QueueType, opVars, ctxVars
<1>2. /\ o \in Ops /\ QueueType' /\ Queued = Queued' \cup {o} /\ o \in Queued
      /\ Distinct(active') /\ o \notin Queued'
  BY <1>1, TailQueued DEF PoolInd, Once, Queued, QueueType
<1> HIDE DEF o
<1>3. wmtd.op = NoOp /\ wmtd'.op = o /\ wmtd'.at = "took" /\ wmtd'.ok = FALSE
  BY <1>1 DEF PoolInd, WmtdBusy
<1>4. \A p \in Ops : InFlight(p)' <=> InFlight(p)
  BY <1>2, <1>3, Consts DEF InFlight
<1>5. Types'
  <2>1. WmtdType'
    BY <1>1, <1>2 DEF Take, PoolInd, Types, WmtdType
  <2>2. FreeType' /\ OpType' /\ ThreadType' /\ TriesType' /\ RstType' /\ CountType'
    BY DEF Take, PoolInd, Types, FreeType, OpType, ThreadType, TriesType, RstType, CountType,
           opVars, ctxVars, rstVars
  <2> QED  BY <1>2, <2>1, <2>2 DEF Types
<1>6. WmtdBusy' /\ Once'
  BY <1>2, <1>3, Consts DEF WmtdBusy, Once
<1>7. Stage' /\ TryLeft' /\ Alone' /\ OwnedNotFree' /\ FreeOnce'
  BY <1>1 DEF PoolInd, Stage, TryLeft, Alone, OwnedNotFree, FreeOnce
<1>8. GotFresh'
  <2> SUFFICES ASSUME NEW u \in Callers, pc[u] = "got" PROVE ~InFlight(has[u])'
    BY <1>1 DEF GotFresh
  <2>1. has[u] \in Ops /\ ~InFlight(has[u])
    BY Consts DEF PoolInd, Types, ThreadType, Stage, GotFresh
  <2> QED  BY <1>1, <1>4, <2>1
<1>9. NotLost' /\ Unattended'
  BY <1>1, <1>4 DEF PoolInd, NotLost, Unattended
<1> QED  BY <1>5, <1>6, <1>7, <1>8, <1>9 DEF PoolInd

\* An op leaves its flight: with an answer, or back to the pool if nobody waits.
LEMMA Lands ==
  ASSUME PoolInd, NEW o \in Ops, InFlight(o),
         free' = IF waits[o] THEN free ELSE Back(free, o),
         has' = has, waits' = waits, pc' = pc, try' = try,
         \A p \in Ops : InFlight(p)' <=> InFlight(p) /\ p # o,
         Types', WmtdBusy', Once'
  PROVE  PoolInd'
<1>1. free' \in [Ops -> Nat] /\ (\A p \in Ops : p # o => free'[p] = free[p])
      /\ free'[o] = IF waits[o] THEN free[o] ELSE free[o] + 1
  BY BackType DEF PoolInd, Types, FreeType
<1>2. ~waits[o] => free[o] = 0 /\ \A t \in Threads : has[t] # o
  BY DEF PoolInd, Unattended
<1>3. \A t \in Threads : has[t] \in Ops \cup {NoOp}
  BY DEF PoolInd, Types, ThreadType
<1>4. Stage' /\ TryLeft' /\ Alone'
  BY DEF PoolInd, Stage, TryLeft, Alone
<1>5. OwnedNotFree' /\ FreeOnce'
  BY <1>1, <1>2, <1>3 DEF PoolInd, OwnedNotFree, FreeOnce
<1>6. GotFresh'
  <2> SUFFICES ASSUME NEW u \in Callers, pc[u] = "got" PROVE ~InFlight(has[u])'
    BY DEF GotFresh
  <2>1. has[u] \in Ops /\ ~InFlight(has[u])
    BY Consts DEF PoolInd, Types, ThreadType, Stage, GotFresh
  <2> QED  BY <2>1
<1>7. NotLost' /\ Unattended'
  BY <1>1, <1>2 DEF PoolInd, NotLost, Unattended
<1> QED  BY <1>4, <1>5, <1>6, <1>7 DEF PoolInd

LEMMA ReportPool == ASSUME PoolInd, Report PROVE PoolInd'
<1> DEFINE o == wmtd.op
<1>1. /\ o \in Ops /\ InFlight(o)
      /\ wmtd' = [at |-> "idle", op |-> NoOp, ok |-> FALSE]
      /\ has' = has /\ pc' = pc /\ try' = try /\ waits' = waits /\ active' = active
      /\ id' = id /\ did' = did
  BY DEF Report, PoolInd, Types, WmtdType, WmtdBusy, InFlight, ctxVars
<1>2. free' = IF waits[o] THEN free ELSE Back(free, o)
  BY DEF Report, FreedByWmtd
<1>3. OpType'
  <2>1. CASE waits[o]
    BY <1>1, <2>1, AnswerType DEF Report, PoolInd, Types
  <2>2. CASE ~waits[o]
    BY <1>1, <2>2 DEF Report, PoolInd, Types, OpType
  <2> QED  BY <2>1, <2>2
<1>4. wmtd'.op = NoOp /\ wmtd'.at = "idle" /\ Queued' = Queued
  BY <1>1 DEF Queued
<1>5. \A p \in Ops : InFlight(p)' <=> InFlight(p) /\ p # o
  BY <1>4, Consts DEF InFlight, PoolInd, Once
<1>6. Types'
  <2>1. FreeType'
    BY <1>1, <1>2, BackType DEF FreeType, PoolInd, Types
  <2>2. WmtdType'
    BY <1>1 DEF Report, PoolInd, Types, WmtdType
  <2>3. QueueType' /\ ThreadType' /\ TriesType' /\ RstType' /\ CountType'
    BY DEF Report, PoolInd, Types, QueueType, ThreadType, TriesType, RstType, CountType,
           ctxVars, rstVars
  <2> QED  BY <1>3, <2>1, <2>2, <2>3 DEF Types
<1>7. WmtdBusy' /\ Once'
  <2>1. NoOp \notin Queued
    BY Consts, ElementOfSeq, LenProperties DEF Queued, ToSet, PoolInd, Types, QueueType
  <2> QED  BY <1>1, <1>4, <2>1 DEF WmtdBusy, Once, PoolInd
<1> QED  BY <1>1, <1>2, <1>5, <1>6, <1>7, Lands

LEMMA DrainPool == ASSUME PoolInd, NEW t \in Resetters, Drain(t) PROVE PoolInd'
<1> DEFINE o == Head(active)
<1>1. /\ active # <<>> /\ active \in Seq(Ops) /\ active' = Tail(active)
      /\ wmtd' = wmtd /\ has' = has /\ pc' = pc /\ try' = try /\ waits' = waits
      /\ id' = id /\ did' = did
  BY DEF Drain, PoolInd, Types, QueueType, ctxVars
<1>2. /\ o \in Ops /\ QueueType' /\ Queued = Queued' \cup {o} /\ o \in Queued
      /\ Distinct(active') /\ o \notin Queued'
  BY <1>1, TailQueued DEF PoolInd, Once, Queued, QueueType
<1>3. free' = IF waits[o] THEN free ELSE Back(free, o)
  BY DEF Drain
<1>4. OpType'
  <2>1. CASE waits[o]
    BY <1>1, <1>2, <2>1, AnswerType DEF Drain, DrainAnswer, PoolInd, Types
  <2>2. CASE ~waits[o]
    BY <1>1, <2>2 DEF Drain, PoolInd, Types, OpType
  <2> QED  BY <2>1, <2>2
<1> HIDE DEF o
<1>5. \A p \in Ops : InFlight(p)' <=> InFlight(p) /\ p # o
  BY <1>1, <1>2 DEF InFlight, PoolInd, Once
<1>6. Types'
  <2>1. FreeType'
    BY <1>2, <1>3, BackType DEF FreeType, PoolInd, Types
  <2>2. WmtdType' /\ ThreadType' /\ TriesType' /\ RstType' /\ CountType'
    BY DEF Drain, PoolInd, Types, WmtdType, ThreadType, TriesType, RstType, CountType,
           ctxVars, rstVars
  <2> QED  BY <1>2, <1>4, <2>1, <2>2 DEF Types
<1>7. WmtdBusy' /\ Once'
  BY <1>1, <1>2 DEF WmtdBusy, Once, PoolInd
<1> QED  BY <1>1, <1>2, <1>3, <1>5, <1>6, <1>7, Lands DEF InFlight

LEMMA RstReturnPool == ASSUME PoolInd, NEW t \in Resetters, RstReturn(t) PROVE PoolInd'
<1>1. /\ t \in Threads /\ t \notin Callers /\ pc[t] \in ResetOps /\ has[t] # NoOp
      /\ WaitEnds(t) /\ Finished(t, Succeeded(t)) /\ Succeeded(t) \in BOOLEAN /\ try[t] > 0
      /\ active' = active /\ wmtd' = wmtd /\ pc[t] # "got"
  BY WaitOver, Consts
     DEF RstReturn, Succeeded, PoolInd, TryLeft, Trying, Stage
<1>2. pc' \in [Threads -> Stages] /\ try' \in [Resetters -> 0..Retries]
  BY <1>1, FinishedType DEF PoolInd, Types
<1>3. has' \in [Threads -> Ops \cup {NoOp}]
      /\ has'[t] = NoOp /\ (\A u \in Threads : u # t => has'[u] = has[u])
  BY <1>1, Release DEF WaitEnds
<1>4. Types'
  <2>1. FreeType' /\ OpType'
    BY <1>1, WaitEndsType DEF PoolInd, Types
  <2>2. ThreadType' /\ TriesType'
    BY <1>2, <1>3 DEF RstReturn, PoolInd, Types, ThreadType, TriesType
  <2>3. QueueType' /\ WmtdType' /\ RstType' /\ CountType'
    BY DEF RstReturn, PoolInd, Types, QueueType, WmtdType, RstType, CountType, rstVars
  <2> QED  BY <2>1, <2>2, <2>3 DEF Types
<1>5. /\ \A u \in Threads : u # t => pc'[u] = pc[u]
      /\ pc'[t] \in Trying \cup {"end"}
      /\ pc'[t] \in Trying => try'[t] > 0
      /\ \A u \in Resetters : u # t => try'[u] = try[u]
  BY <1>1, FinishedEffect DEF PoolInd, Types
<1>6. Stage' /\ TryLeft'
  BY <1>1, <1>3, <1>5, Consts DEF PoolInd, Stage, TryLeft, Trying, ResetOps
<1> QED  BY <1>1, <1>4, <1>5, <1>6, WaitEndsPool DEF Trying, ResetOps

LEMMA RstPutPool == ASSUME PoolInd, NEW t \in Resetters, RstPut(t) PROVE PoolInd'
<1>1. /\ t \in Threads /\ t \notin Callers /\ pc[t] \in ResetOps /\ has[t] = NoOp
      /\ wmtd' = wmtd /\ try[t] > 0
  BY Consts DEF RstPut, PoolInd, TryLeft, Trying
<1>2. ASSUME Usable # {}, Acquires(t, NextOp), Enqueue(NextOp, pc[t], TRUE),
             pc' = pc, try' = try
      PROVE  PoolInd'
  <2> DEFINE o == NextOp
  <2>1. o \in Ops /\ ~InFlight(o)
    BY <1>2, FreshOp
  <2>2. /\ Alone' /\ OwnedNotFree' /\ FreeOnce' /\ FreeType'
        /\ has' \in [Threads -> Ops \cup {NoOp}]
        /\ has'[t] = o /\ (\A u \in Threads : u # t => has'[u] = has[u])
        /\ free'[o] = 0 /\ (\A p \in Ops : p # o => free'[p] = free[p])
    BY <1>1, <1>2, Acquire
  <2> HIDE DEF o
  <2>3. QueueType' /\ Once' /\ WmtdBusy' /\ \A p : InFlight(p)' <=> InFlight(p) \/ p = o
    BY <1>1, <1>2, <2>1, Queues DEF Enqueue, o
  <2>4. waits'[o] /\ \A p \in Ops : p # o => (waits'[p] <=> waits[p])
    BY <1>2, <2>1 DEF Enqueue, PoolInd, Types, OpType, o
  <2>5. Types'
    <3>1. OpType'
      BY <1>1, <1>2, <2>1, EnqueueType DEF PoolInd, Types, Ids, o
    <3>2. ThreadType' /\ TriesType' /\ WmtdType' /\ RstType' /\ CountType'
      BY <1>2, <2>2 DEF RstPut, PoolInd, Types, ThreadType, TriesType, WmtdType, RstType,
             CountType, rstVars
    <3> QED  BY <2>2, <2>3, <3>1, <3>2 DEF Types
  <2>6. Stage' /\ TryLeft'
    BY <1>1, <1>2, <2>2, Consts DEF PoolInd, Stage, TryLeft
  <2>7. GotFresh'
    <3> SUFFICES ASSUME NEW u \in Callers, pc[u] = "got" PROVE ~InFlight(has[u])'
      BY <1>2 DEF GotFresh
    <3>1. u # t /\ has'[u] = has[u] /\ ~InFlight(has[u]) /\ u \in Threads /\ has[u] # NoOp
      BY <1>1, <2>2, Consts DEF PoolInd, Stage, GotFresh
    <3>2. has[u] # o
      BY <1>2, <3>1, FreshOp DEF o
    <3> QED  BY <2>3, <3>1, <3>2
  <2>8. NotLost' /\ Unattended'
    BY <1>1, <2>2, <2>3, <2>4, Consts DEF PoolInd, NotLost, Unattended
  <2> QED  BY <2>2, <2>3, <2>5, <2>6, <2>7, <2>8 DEF PoolInd
<1>3. ASSUME Finished(t, FALSE), UNCHANGED <<free, active, opVars, has>>
      PROVE  PoolInd'
  <2>1. pc' \in [Threads -> Stages] /\ try' \in [Resetters -> 0..Retries]
    BY <1>1, <1>3, FinishedType DEF PoolInd, Types
  <2>2. /\ \A u \in Threads : u # t => pc'[u] = pc[u]
        /\ pc'[t] \in Trying \cup {"end"}
        /\ pc'[t] \in Trying => try'[t] > 0
        /\ \A u \in Resetters : u # t => try'[u] = try[u]
    BY <1>1, <1>3, FinishedEffect DEF PoolInd, Types
  <2>3. Types'
    BY <1>3, <2>1 DEF RstPut, PoolInd, Types, FreeType, QueueType, OpType, ThreadType,
       TriesType, WmtdType, RstType, CountType, opVars, rstVars
  <2>4. Stage' /\ TryLeft' /\ WmtdBusy'
    BY <1>1, <1>3, <2>2, Consts
       DEF PoolInd, Stage, TryLeft, WmtdBusy, Trying, ResetOps
  <2>5. \A u \in Callers : pc'[u] = pc[u]
    BY <1>1, <2>2, Consts
  <2> QED  BY <1>1, <1>3, <2>3, <2>4, <2>5, PoolFrame DEF opVars
<1> QED  BY <1>2, <1>3 DEF RstPut, Acquires

\* The steps that move no op.
LEMMA WmtdPool ==
  ASSUME PoolInd, Test \/ SetCurrent \/ Unready \/ ChipAsserts \/ \E ok \in BOOLEAN : Execute(ok)
  PROVE  PoolInd'
<1>1. /\ UNCHANGED <<free, active, id, waits, res, sig, pc, has, try, peek, calls, resets, before>>
      /\ wmtd'.op = wmtd.op /\ (wmtd.at = "idle" <=> wmtd'.at = "idle")
      /\ WmtdType'
  <2> USE DEF PoolInd, Types, WmtdType, opVars, ctxVars, rstVars
  <2>1. CASE Test
    BY <2>1 DEF Test
  <2>2. CASE SetCurrent
    BY <2>2 DEF SetCurrent
  <2>3. CASE Unready \/ ChipAsserts
    BY <2>3 DEF Unready, ChipAsserts
  <2>4. CASE \E ok \in BOOLEAN : Execute(ok)
    BY <2>4 DEF Execute
  <2> QED  BY <2>1, <2>2, <2>3, <2>4
<1>2. OpType'
  <2>1. did' \in [Ops -> BOOLEAN]
    BY DEF Test, SetCurrent, Unready, ChipAsserts, Execute, opVars, PoolInd, Types, OpType
  <2> QED  BY <1>1, <2>1 DEF PoolInd, Types, OpType
<1>3. RstType'
  <2>1. CASE Test \/ SetCurrent \/ Unready \/ ChipAsserts
    BY <2>1 DEF Test, SetCurrent, Unready, ChipAsserts, rstVars, PoolInd, Types, RstType
  <2>2. CASE \E ok \in BOOLEAN : Execute(ok)
    BY <2>2 DEF Execute, PoolInd, Types, RstType
  <2> QED  BY <2>1, <2>2
<1>4. FreeType' /\ QueueType' /\ ThreadType' /\ TriesType' /\ CountType'
  BY <1>1 DEF PoolInd, Types, FreeType, QueueType, ThreadType, TriesType, CountType
<1>5. Stage' /\ TryLeft' /\ WmtdBusy'
  BY <1>1 DEF PoolInd, Stage, TryLeft, WmtdBusy
<1> QED  BY <1>1, <1>2, <1>3, <1>4, <1>5, PoolFrame DEF Types

LEMMA ResetterPool ==
  ASSUME PoolInd, NEW t \in Resetters,
         \/ RstEnter(t) \/ RstClaim(t) \/ RstPeek(t) \/ RstRaise(t) \/ Drained(t)
         \/ RstEnd(t) \/ RstLeave(t)
  PROVE  PoolInd'
<1>1. /\ UNCHANGED <<free, active, id, waits, did, has, wmtd, cur, calls>>
      /\ t \in Threads /\ has[t] = NoOp
  BY Consts DEF RstEnter, RstClaim, RstPeek, RstRaise, Drained, RstEnd, RstLeave,
     opVars, ctxVars, rstVars, PoolInd, Stage, ResetOps
<1>2. PICK s \in Stages \ {"got", "wait"} :
        /\ pc' = [pc EXCEPT ![t] = s]
        /\ try' \in [Resetters -> 0..Retries] /\ (\A u \in Resetters : u # t => try'[u] = try[u])
        /\ s \in Trying => try'[t] > 0
  <2>1. CASE RstEnter(t)
    <3>1. pc' = [pc EXCEPT ![t] = "claim"] /\ try' = try
      BY <2>1 DEF RstEnter, Goto
    <3> QED  BY <3>1, StageNames DEF PoolInd, Types, TriesType
  <2>2. CASE RstClaim(t) /\ rstOn
    <3>1. pc' = [pc EXCEPT ![t] = "leave"] /\ try' = try
      BY <2>2 DEF RstClaim, Goto
    <3> QED  BY <3>1, StageNames DEF PoolInd, Types, TriesType
  <2>3. CASE RstClaim(t) /\ ~rstOn
    <3>1. pc' = [pc EXCEPT ![t] = "peek"] /\ try' = [try EXCEPT ![t] = Retries]
      BY <2>3 DEF RstClaim, Goto
    <3>2. Retries \in 0..Retries /\ Retries > 0
      BY Consts
    <3> QED  BY <3>1, <3>2, StageNames DEF PoolInd, Types, TriesType
  <2>4. CASE RstPeek(t) \/ RstRaise(t) \/ Drained(t)
    <3>1. PICK s \in Trying : pc' = [pc EXCEPT ![t] = s] /\ try' = try /\ pc[t] \in Trying
      BY <2>4 DEF RstPeek, RstRaise, Drained, Goto, Trying, ResetOps, ctxVars
    <3> QED  BY <3>1, StageNames DEF PoolInd, Types, TriesType, TryLeft
  <2>5. CASE RstEnd(t)
    <3>1. pc' = [pc EXCEPT ![t] = "leave"] /\ try' = try
      BY <2>5 DEF RstEnd, Goto, ctxVars
    <3> QED  BY <3>1, StageNames DEF PoolInd, Types, TriesType
  <2>6. CASE RstLeave(t)
    <3>1. pc' = [pc EXCEPT ![t] = "idle"] /\ try' = [try EXCEPT ![t] = 0]
      BY <2>6 DEF RstLeave, Goto
    <3>2. 0 \in 0..Retries
      BY Consts
    <3> QED  BY <3>1, <3>2, StageNames DEF PoolInd, Types, TriesType
  <2> QED  BY <2>1, <2>2, <2>3, <2>4, <2>5, <2>6
<1>3. pc'[t] = s /\ \A u \in Threads : u # t => pc'[u] = pc[u]
  BY <1>1, <1>2 DEF PoolInd, Types, ThreadType
<1>4. Types'
  <2>1. OpType'
    <3>1. CASE RstRaise(t) /\ peek[t] # NoOp /\ waits[peek[t]]
      BY <1>1, <3>1, AnswerType DEF RstRaise, PoolInd, Types, TriesType
    <3>2. CASE UNCHANGED <<res, sig>>
      BY <1>1, <3>2 DEF PoolInd, Types, OpType
    <3> QED  BY <3>1, <3>2 DEF RstEnter, RstClaim, RstPeek, RstRaise, Drained, RstEnd,
                RstLeave, opVars
  <2>2. TriesType'
    <3>1. peek' \in [Resetters -> Ops \cup {NoOp}]
      BY DEF RstEnter, RstClaim, RstPeek, RstRaise, Drained, RstEnd, RstLeave, ctxVars,
             PoolInd, Types, TriesType, WmtdType
    <3> QED  BY <1>2, <3>1 DEF TriesType
  <2>3. RstType'
    BY DEF RstEnter, RstClaim, RstPeek, RstRaise, Drained, RstEnd, RstLeave, rstVars,
           PoolInd, Types, RstType
  <2>4. CountType'
    <3>1. UNCHANGED calls /\ (UNCHANGED resets \/ (resets < MaxResets /\ resets' = resets + 1))
      BY DEF RstEnter, RstClaim, RstPeek, RstRaise, Drained, RstEnd, RstLeave, ctxVars
    <3> QED  BY <3>1, Consts DEF PoolInd, Types, CountType
  <2>5. FreeType' /\ QueueType' /\ ThreadType' /\ WmtdType'
    BY <1>1, <1>2, GotoType DEF PoolInd, Types, FreeType, QueueType, WmtdType, ThreadType
  <2> QED  BY <2>1, <2>2, <2>3, <2>4, <2>5 DEF Types
<1>5. Stage' /\ TryLeft' /\ WmtdBusy' /\ \A u \in Callers : pc'[u] = pc[u]
  BY <1>1, <1>2, <1>3, Consts DEF PoolInd, Stage, TryLeft, WmtdBusy
<1> QED  BY <1>1, <1>4, <1>5, PoolFrame

LEMMA PoolStutters == ASSUME PoolInd, UNCHANGED vars PROVE PoolInd'
<1>1. Types' /\ Stage' /\ TryLeft' /\ WmtdBusy'
  BY DEF vars, opVars, ctxVars, rstVars, PoolInd, Types, FreeType, QueueType, OpType,
     ThreadType, TriesType, WmtdType, RstType, CountType, Stage, TryLeft, WmtdBusy
<1> QED  BY <1>1, PoolFrame DEF vars, opVars

LEMMA PoolSteps == PoolInd /\ [Next]_vars => PoolInd'
  BY PoolStutters, GetPool, GiveUpPool, PutPool, ReturnPool, PsmdPutPool, TakePool,
     ReportPool, DrainPool, RstPutPool, RstReturnPool, WmtdPool, ResetterPool
     DEF Next, CallerStep, WmtdStep, RstStep

LEMMA PoolAlways == Spec => []PoolInd
  BY PoolStarts, PoolSteps, PTL DEF Spec

\* Every op of the pool is in the free queue, with one thread, or on its way
\* without a waiting caller, whoever answered, timed out, drained or freed it.
THEOREM PoolKept == Spec => []PoolInv
<1>1. PoolInd => PoolInv
  <2> SUFFICES ASSUME PoolInd PROVE PoolInv
    OBVIOUS
  <2>1. TypeOK
    BY TypeParts DEF PoolInd
  <2>2. PoolConserved
    <3> SUFFICES ASSUME NEW o \in Ops
                 PROVE  \/ free[o] = 1 /\ Owners(o) = {}
                        \/ free[o] = 0 /\ \E t \in Threads : Owners(o) = {t}
                        \/ Owners(o) = {} /\ Travels(o)
      BY DEF PoolConserved
    <3>1. CASE \E t \in Threads : has[t] = o
      <4>1. PICK t \in Threads : has[t] = o
        BY <3>1
      <4>2. free[o] = 0 /\ Owners(o) = {t}
        BY <4>1, Consts DEF PoolInd, OwnedNotFree, Alone, Owners
      <4> QED  BY <4>2
    <3>2. CASE ~\E t \in Threads : has[t] = o
      <4>1. Owners(o) = {}
        BY <3>2 DEF Owners
      <4>2. free[o] = 1 \/ Travels(o)
        BY <3>2 DEF PoolInd, NotLost, Unattended, Travels, InFlight, Queued
      <4> QED  BY <4>1, <4>2
    <3> QED  BY <3>1, <3>2
  <2> QED  BY <2>1, <2>2 DEF PoolInv
<1> QED  BY <1>1, PoolAlways, PTL
-----------------------------------------------------------------------------
(* Every step keeps AnswerInd.                                             *)

LEMMA AnswerStarts == Init => AnswerInd
<1> SUFFICES ASSUME Init PROVE AnswerInd
  OBVIOUS
<1>1. \A t \in Threads : ~Waiting(t)
  BY DEF Init, Waiting
<1>2. AnswerNotEarly /\ AnswerTrue /\ Attended
  BY <1>1 DEF AnswerNotEarly, AnswerTrue, Attended
<1>3. ReportTrue
  BY <1>1 DEF Init, ReportTrue
<1>4. DidOwned
  BY DEF Init, DidOwned
<1> QED  BY <1>2, <1>3, <1>4 DEF AnswerInd

LEMMA FlightNames ==
  ASSUME UNCHANGED <<active, wmtd>>
  PROVE  \A p : (InFlight(p)' <=> InFlight(p)) /\ (Pending(p)' <=> Pending(p))
  BY DEF InFlight, Pending, Queued

\* Steps that leave the ops and who waits for them alone.
LEMMA AnswerFrame ==
  ASSUME AnswerInd, UNCHANGED <<waits, res, sig, did, has>>,
         \A t \in Threads : Waiting(t)' <=> Waiting(t),
         \A p \in Ops : (InFlight(p)' <=> InFlight(p)) /\ (Pending(p)' => Pending(p)),
         ThreadType,
         wmtd'.ok => wmtd.ok /\ wmtd'.at = wmtd.at /\ wmtd'.op = wmtd.op
  PROVE  AnswerInd'
<1>1. \A t \in Threads : Waiting(t) => has[t] \in Ops
  BY DEF Waiting, ThreadType
<1>2. AnswerNotEarly' /\ AnswerTrue'
  BY <1>1 DEF AnswerInd, AnswerNotEarly, AnswerTrue
<1>3. ReportTrue'
  BY DEF AnswerInd, ReportTrue
<1>4. Attended'
  BY <1>1 DEF AnswerInd, Attended
<1>5. DidOwned'
  BY DEF AnswerInd, DidOwned
<1> QED  BY <1>2, <1>3, <1>4, <1>5 DEF AnswerInd

LEMMA GetAnswer == ASSUME PoolInd, AnswerInd, NEW t \in Callers, Get(t) PROVE AnswerInd'
<1>1. /\ t \in Threads /\ has[t] = NoOp /\ UNCHANGED <<active, wmtd, waits, res, sig, did>>
      /\ has' = [has EXCEPT ![t] = NextOp] /\ pc' = [pc EXCEPT ![t] = "got"]
  BY Consts DEF Get, PoolInd, Stage, opVars
<1>2. /\ has' \in [Threads -> Ops \cup {NoOp}]
      /\ pc'[t] = "got" /\ \A u \in Threads : u # t => has'[u] = has[u] /\ pc'[u] = pc[u]
  BY <1>1, TakeFreeType DEF Get, PoolInd, Types, ThreadType
<1>3. ~Waiting(t) /\ ~Waiting(t)' /\ \A u \in Threads : u # t => (Waiting(u)' <=> Waiting(u))
  BY <1>1, <1>2 DEF Waiting
<1>4. AnswerNotEarly' /\ AnswerTrue' /\ Attended'
  BY <1>1, <1>2, <1>3, FlightNames DEF AnswerInd, AnswerNotEarly, AnswerTrue, Attended
<1>5. ReportTrue'
  BY <1>1, <1>2, <1>3 DEF AnswerInd, ReportTrue
<1>6. DidOwned'
  BY <1>1, <1>2, <1>3, FlightNames DEF AnswerInd, DidOwned
<1> QED  BY <1>4, <1>5, <1>6 DEF AnswerInd

LEMMA GiveUpAnswer == ASSUME PoolInd, AnswerInd, NEW t \in Callers, GiveUp(t) PROVE AnswerInd'
<1>1. /\ t \in Threads /\ pc[t] = "got" /\ UNCHANGED <<active, wmtd, waits, res, sig, did>>
      /\ has' = [has EXCEPT ![t] = NoOp] /\ pc' = [pc EXCEPT ![t] = "idle"]
  BY Consts DEF GiveUp, GiveBack, opVars
<1>2. /\ has'[t] = NoOp
      /\ \A u \in Threads : u # t => has'[u] = has[u] /\ pc'[u] = pc[u]
  BY <1>1 DEF PoolInd, Types, ThreadType
<1>3. ~Waiting(t) /\ ~Waiting(t)' /\ \A u \in Threads : u # t => (Waiting(u)' <=> Waiting(u))
  BY <1>1, <1>2 DEF Waiting
<1>4. AnswerNotEarly' /\ AnswerTrue' /\ Attended'
  BY <1>1, <1>2, <1>3, FlightNames DEF AnswerInd, AnswerNotEarly, AnswerTrue, Attended
<1>5. ReportTrue'
  BY <1>1, <1>2, <1>3 DEF AnswerInd, ReportTrue
<1>6. DidOwned'
  BY <1>1, <1>2, <1>3, FlightNames DEF AnswerInd, DidOwned
<1> QED  BY <1>4, <1>5, <1>6 DEF AnswerInd

\* A thread's op is queued: nothing of an earlier use is left in it.
LEMMA QueueAnswer ==
  ASSUME PoolInd, PoolInd', AnswerInd, NEW t \in Threads, NEW o \in Ops, NEW i,
         ~InFlight(o), ~Waiting(t), has'[t] = o, Waiting(t)', Enqueue(o, i, TRUE),
         UNCHANGED wmtd, \A u \in Threads : has[u] = o => u = t,
         \A u \in Threads : u # t => has'[u] = has[u] /\ (Waiting(u)' <=> Waiting(u))
  PROVE  AnswerInd'
<1>1. /\ \A p : InFlight(p)' <=> InFlight(p) \/ p = o
      /\ \A p : Pending(p)' <=> Pending(p) \/ p = o
  BY Queues DEF Enqueue, InFlight, Pending
<1>2. /\ res'[o] = "none" /\ ~sig'[o] /\ waits'[o] /\ did' = did
      /\ \A p \in Ops : p # o => res'[p] = res[p] /\ (sig'[p] <=> sig[p]) /\ (waits'[p] <=> waits[p])
  BY DEF Enqueue, Fresh, PoolInd, Types, OpType
<1>3. ~did[o]
  BY DEF AnswerInd, DidOwned, InFlight, Waiting
<1>4. \A u \in Threads : u # t => has[u] # o
  OBVIOUS
<1>5. \A u \in Threads : has[u] \in Ops \cup {NoOp}
  BY DEF PoolInd, Types, ThreadType
<1>6. AnswerNotEarly' /\ AnswerTrue'
  BY <1>1, <1>2, <1>4, <1>5 DEF AnswerInd, AnswerNotEarly, AnswerTrue, Waiting
<1>7. Attended'
  BY <1>1, <1>2, <1>4, <1>5 DEF AnswerInd, Attended, Waiting
<1>8. ReportTrue'
  BY <1>2 DEF AnswerInd, ReportTrue, InFlight
<1>9. DidOwned'
  BY <1>1, <1>2, <1>3 DEF AnswerInd, DidOwned
<1> QED  BY <1>6, <1>7, <1>8, <1>9 DEF AnswerInd

LEMMA PutAnswer ==
  ASSUME PoolInd, PoolInd', AnswerInd, NEW t \in Callers, Put(t) PROVE AnswerInd'
<1>1. /\ t \in Threads /\ has[t] \in Ops /\ has[t] # NoOp /\ ~InFlight(has[t]) /\ pc[t] = "got"
      /\ Enqueue(has[t], "FUNC", TRUE) /\ pc' = [pc EXCEPT ![t] = "wait"]
      /\ has' = has /\ wmtd' = wmtd
  BY Consts DEF Put, PoolInd, Types, ThreadType, Stage, GotFresh
<1>2. pc'[t] = "wait" /\ \A u \in Threads : u # t => pc'[u] = pc[u]
  BY <1>1 DEF PoolInd, Types, ThreadType
<1>3. ~Waiting(t) /\ Waiting(t)' /\ \A u \in Threads : u # t => (Waiting(u)' <=> Waiting(u))
  BY <1>1, <1>2 DEF Waiting
<1>4. \A u \in Threads : has[u] = has[t] => u = t
  BY <1>1 DEF PoolInd, Alone
<1> QED  BY <1>1, <1>3, <1>4, QueueAnswer

LEMMA RstPutAnswer ==
  ASSUME PoolInd, PoolInd', AnswerInd, NEW t \in Resetters, RstPut(t) PROVE AnswerInd'
<1>1. t \in Threads /\ pc[t] # "got" /\ has[t] = NoOp /\ wmtd' = wmtd
      /\ \A u \in Resetters : pc[u] # "got" /\ pc'[u] # "got"
  BY Consts DEF RstPut, PoolInd, Stage
<1>2. ASSUME Usable # {}, Acquires(t, NextOp), Enqueue(NextOp, pc[t], TRUE), pc' = pc
      PROVE  AnswerInd'
  <2> DEFINE o == NextOp
  <2>1. o \in Ops /\ ~InFlight(o) /\ (\A u \in Threads : has[u] # o)
    BY <1>2, FreshOp
  <2>2. has'[t] = o /\ (\A u \in Threads : u # t => has'[u] = has[u])
    BY <1>1, <1>2, Acquire
  <2> HIDE DEF o
  <2>3. ~Waiting(t) /\ Waiting(t)' /\ \A u \in Threads : u # t => (Waiting(u)' <=> Waiting(u))
    BY <1>1, <1>2, <2>1, <2>2, Consts DEF Waiting
  <2>4. \A u \in Threads : has[u] = o => u = t
    BY <2>1
  <2> QED  BY <1>1, <1>2, <2>1, <2>2, <2>3, <2>4, QueueAnswer DEF o
<1>3. ASSUME Finished(t, FALSE), UNCHANGED <<free, active, opVars, has>> PROVE AnswerInd'
  <2>1. \A u \in Threads : u # t => pc'[u] = pc[u]
    BY <1>1, <1>3, FinishedEffect DEF RstPut, PoolInd, Types, TryLeft, Trying
  <2>2. \A u \in Threads : Waiting(u)' <=> Waiting(u)
    BY <1>1, <1>3, <2>1 DEF Waiting
  <2> QED  BY <1>1, <1>3, <2>2, AnswerFrame, FlightNames DEF opVars, PoolInd, Types
<1> QED  BY <1>2, <1>3 DEF RstPut, Acquires

LEMMA PsmdPutAnswer == ASSUME PoolInd, AnswerInd, PsmdPut PROVE AnswerInd'
<1> DEFINE o == NextOp
<1>1. /\ o \in Ops /\ ~InFlight(o) /\ (\A u \in Threads : has[u] # o)
      /\ Enqueue(o, "PWR_SV", FALSE) /\ UNCHANGED <<has, pc, wmtd>>
  BY FreshOp DEF PsmdPut
<1> HIDE DEF o
<1>2. /\ \A p : InFlight(p)' <=> InFlight(p) \/ p = o
      /\ \A p : Pending(p)' <=> Pending(p) \/ p = o
  BY <1>1, Queues DEF Enqueue, InFlight, Pending
<1>3. /\ did' = did /\ ~did[o]
      /\ \A p \in Ops : p # o => res'[p] = res[p] /\ (sig'[p] <=> sig[p]) /\ (waits'[p] <=> waits[p])
  BY <1>1 DEF Enqueue, PoolInd, Types, OpType, AnswerInd, DidOwned
<1>4. \A u \in Threads : (Waiting(u)' <=> Waiting(u)) /\ (has[u] \in Ops \cup {NoOp})
  BY <1>1 DEF Waiting, PoolInd, Types, ThreadType
<1>5. AnswerNotEarly' /\ AnswerTrue' /\ Attended'
  BY <1>1, <1>2, <1>3, <1>4 DEF AnswerInd, AnswerNotEarly, AnswerTrue, Attended, Waiting
<1>6. ReportTrue' /\ DidOwned'
  BY <1>1, <1>2, <1>3, <1>4 DEF AnswerInd, ReportTrue, DidOwned
<1> QED  BY <1>5, <1>6 DEF AnswerInd

\* A wait ends: nobody waits for the op any more, and its success is forgotten.
LEMMA WaitEndsAnswer ==
  ASSUME PoolInd, PoolInd', AnswerInd, NEW t \in Threads, has[t] # NoOp, WaitEnds(t),
         UNCHANGED <<active, wmtd>>, pc[t] # "got", pc'[t] # "got",
         \A u \in Threads : u # t => pc'[u] = pc[u]
  PROVE  AnswerInd'
<1> DEFINE o == has[t]
<1>1. /\ o \in Ops /\ has'[t] = NoOp /\ \A u \in Threads : u # t => has'[u] = has[u]
  BY Release DEF WaitEnds
<1>2. \A u \in Threads : u # t => has[u] # o
  BY DEF PoolInd, Alone
<1>3. /\ ~did'[o] /\ waits' = waits /\ res' = res
      /\ \A p \in Ops : p # o => (did'[p] <=> did[p]) /\ (sig'[p] <=> sig[p])
  BY <1>1 DEF WaitEnds, Forget, PoolInd, Types, OpType
<1>4. ~Waiting(t)' /\ \A u \in Threads : u # t => (Waiting(u)' <=> Waiting(u))
  BY <1>1 DEF Waiting
<1>5. \A u \in Threads : has[u] \in Ops \cup {NoOp}
  BY DEF PoolInd, Types, ThreadType
<1> HIDE DEF o
<1>6. AnswerNotEarly' /\ AnswerTrue' /\ Attended'
  BY <1>1, <1>2, <1>3, <1>4, <1>5, FlightNames
     DEF AnswerInd, AnswerNotEarly, AnswerTrue, Attended, Waiting
<1>7. ReportTrue'
  BY <1>1, <1>2, <1>3, <1>4, <1>5 DEF AnswerInd, ReportTrue, Waiting
<1>8. DidOwned'
  BY <1>1, <1>3, <1>4, FlightNames DEF AnswerInd, DidOwned, o
<1> QED  BY <1>6, <1>7, <1>8 DEF AnswerInd

LEMMA ReturnAnswer ==
  ASSUME PoolInd, PoolInd', AnswerInd, NEW t \in Callers, Return(t) PROVE AnswerInd'
<1>1. /\ t \in Threads /\ has[t] # NoOp /\ pc[t] # "got" /\ WaitEnds(t)
      /\ active' = active /\ wmtd' = wmtd /\ pc' = [pc EXCEPT ![t] = "idle"]
  BY WaitOver, Consts DEF Return, PoolInd, Stage
<1>2. pc'[t] # "got" /\ \A u \in Threads : u # t => pc'[u] = pc[u]
  BY <1>1 DEF PoolInd, Types, ThreadType
<1> QED  BY <1>1, <1>2, WaitEndsAnswer

LEMMA RstReturnAnswer ==
  ASSUME PoolInd, PoolInd', AnswerInd, NEW t \in Resetters, RstReturn(t) PROVE AnswerInd'
<1>1. /\ t \in Threads /\ pc[t] \in ResetOps /\ has[t] # NoOp /\ WaitEnds(t)
      /\ Finished(t, Succeeded(t)) /\ Succeeded(t) \in BOOLEAN /\ try[t] > 0
      /\ active' = active /\ wmtd' = wmtd /\ pc[t] # "got" /\ pc'[t] # "got"
  BY WaitOver, Consts DEF RstReturn, Succeeded, PoolInd, TryLeft, Trying, Stage
<1>2. \A u \in Threads : u # t => pc'[u] = pc[u]
  BY <1>1, FinishedEffect DEF PoolInd, Types
<1> QED  BY <1>1, <1>2, WaitEndsAnswer

LEMMA TakeAnswer == ASSUME PoolInd, AnswerInd, Take PROVE AnswerInd'
<1> DEFINE o == Head(active)
<1>1. /\ wmtd.at = "idle" /\ active # <<>> /\ active \in Seq(Ops) /\ active' = Tail(active)
      /\ wmtd' = [at |-> "took", op |-> o, ok |-> FALSE]
      /\ UNCHANGED <<has, pc, waits, res, sig, did>>
  BY DEF Take, PoolInd, Types, QueueType, opVars, ctxVars
<1>2. Queued = Queued' \cup {o}
  BY <1>1, TailQueued DEF Queued
<1> HIDE DEF o
<1>3. wmtd.op = NoOp /\ wmtd'.op = o /\ wmtd'.at = "took" /\ ~wmtd'.ok
  BY <1>1 DEF PoolInd, WmtdBusy
<1>4. \A p \in Ops : (InFlight(p)' <=> InFlight(p)) /\ (Pending(p)' => Pending(p))
  BY <1>2, <1>3, Consts DEF InFlight, Pending
<1>5. \A t \in Threads : Waiting(t)' <=> Waiting(t)
  BY <1>1 DEF Waiting
<1> QED  BY <1>1, <1>3, <1>4, <1>5, AnswerFrame DEF PoolInd, Types

LEMMA WmtdAnswer ==
  ASSUME PoolInd, AnswerInd, Test \/ SetCurrent \/ Unready \/ ChipAsserts PROVE AnswerInd'
<1>1. /\ UNCHANGED <<active, waits, res, sig, did, has, pc>>
      /\ wmtd'.op = wmtd.op /\ wmtd'.ok = wmtd.ok
      /\ wmtd'.at = wmtd.at \/ wmtd.at \in {"took", "set"}
  <2> USE DEF PoolInd, Types, WmtdType, opVars
  <2>1. CASE Test
    BY <2>1 DEF Test
  <2>2. CASE SetCurrent
    BY <2>2 DEF SetCurrent
  <2>3. CASE Unready \/ ChipAsserts
    BY <2>3 DEF Unready, ChipAsserts
  <2> QED  BY <2>1, <2>2, <2>3
<1>2. \A t \in Threads : Waiting(t)' <=> Waiting(t)
  BY <1>1 DEF Waiting
<1>3. \A p \in Ops : (InFlight(p)' <=> InFlight(p)) /\ (Pending(p)' => Pending(p))
  BY <1>1 DEF InFlight, Pending, Queued
<1>4. wmtd'.ok => wmtd.ok /\ wmtd'.at = wmtd.at /\ wmtd'.op = wmtd.op
  BY <1>1 DEF AnswerInd, ReportTrue
<1> QED  BY <1>1, <1>2, <1>3, <1>4, AnswerFrame DEF PoolInd, Types

LEMMA ExecuteAnswer ==
  ASSUME PoolInd, AnswerInd, NEW ok \in BOOLEAN, Execute(ok) PROVE AnswerInd'
<1> DEFINE o == wmtd.op
<1>1. /\ UNCHANGED <<active, waits, res, sig, has, pc>>
      /\ wmtd.at = "run" /\ wmtd'.op = o /\ wmtd'.at = "answer" /\ wmtd'.ok = ok /\ o \in Ops
  BY DEF Execute, PoolInd, Types, WmtdType, WmtdBusy
<1>2. did' = [did EXCEPT ![o] = ok /\ \E t \in Threads : has[t] = o]
  BY DEF Execute
<1> HIDE DEF o
<1>3. /\ did'[o] <=> (ok /\ \E t \in Threads : has[t] = o)
      /\ \A p \in Ops : p # o => (did'[p] <=> did[p])
  BY <1>1, <1>2 DEF PoolInd, Types, OpType
<1>4. \A t \in Threads : (Waiting(t)' <=> Waiting(t)) /\ (has[t] \in Ops \cup {NoOp})
  BY <1>1 DEF Waiting, PoolInd, Types, ThreadType
<1>5. /\ InFlight(o) /\ o \notin Queued
      /\ \A p : (InFlight(p)' <=> InFlight(p)) /\ (Pending(p)' <=> Pending(p) /\ p # o)
  BY <1>1 DEF InFlight, Pending, Queued, PoolInd, Once, o
<1>6. \A t \in Threads : has[t] = o => Waiting(t)
  BY <1>1, <1>5, Consts DEF Waiting, PoolInd, GotFresh, Stage, Threads
<1>7. AnswerNotEarly' /\ Attended'
  BY <1>1, <1>4, <1>5 DEF AnswerInd, AnswerNotEarly, Attended
<1>8. AnswerTrue'
  BY <1>1, <1>3, <1>4, <1>5, Consts DEF AnswerInd, AnswerNotEarly, AnswerTrue, Waiting
<1>9. ReportTrue'
  BY <1>1, <1>3, <1>4 DEF ReportTrue
<1>10. DidOwned'
  BY <1>1, <1>3, <1>4, <1>5, <1>6 DEF AnswerInd, DidOwned
<1> QED  BY <1>7, <1>8, <1>9, <1>10 DEF AnswerInd

\* An op lands with an answer, a success only if wmtd executed it.
LEMMA LandsAnswer ==
  ASSUME PoolInd, AnswerInd, NEW o \in Ops, InFlight(o), NEW r \in {"ok", "fail"},
         waits[o] => Answer(o, r), ~waits[o] => UNCHANGED <<res, sig>>,
         r = "ok" => wmtd.ok /\ wmtd.op = o,
         UNCHANGED <<has, waits, did, pc>>,
         \A p \in Ops : InFlight(p)' <=> InFlight(p) /\ p # o,
         \A p \in Ops : Pending(p)' => Pending(p),
         wmtd'.ok => wmtd.ok /\ wmtd'.at = wmtd.at /\ wmtd'.op = wmtd.op
  PROVE  AnswerInd'
<1>1. \A t \in Threads : (Waiting(t)' <=> Waiting(t)) /\ (has[t] \in Ops \cup {NoOp})
  BY DEF Waiting, PoolInd, Types, ThreadType
<1>2. /\ \A p \in Ops : p # o => res'[p] = res[p] /\ (sig'[p] <=> sig[p])
      /\ waits[o] => res'[o] = r /\ sig'[o]
  BY DEF Answer, PoolInd, Types, OpType
<1>3. \A t \in Threads : has[t] = o => Waiting(t) /\ waits[o]
  BY Consts DEF Waiting, PoolInd, GotFresh, Stage, Threads, Unattended
<1>4. AnswerNotEarly' /\ Attended'
  BY <1>1, <1>2, <1>3 DEF AnswerInd, AnswerNotEarly, Attended, Waiting
<1>5. AnswerTrue'
  BY <1>1, <1>2, <1>3 DEF AnswerInd, AnswerTrue, ReportTrue, Waiting
<1>6. ReportTrue' /\ DidOwned'
  BY <1>1 DEF AnswerInd, ReportTrue, DidOwned
<1> QED  BY <1>4, <1>5, <1>6 DEF AnswerInd

LEMMA ReportAnswer == ASSUME PoolInd, AnswerInd, Report PROVE AnswerInd'
<1> DEFINE o == wmtd.op  r == IF wmtd.ok THEN "ok" ELSE "fail"
<1>1. /\ o \in Ops /\ InFlight(o) /\ r \in {"ok", "fail"} /\ (r = "ok" => wmtd.ok)
      /\ wmtd' = [at |-> "idle", op |-> NoOp, ok |-> FALSE]
      /\ UNCHANGED <<has, pc, waits, active, did>>
  BY DEF Report, PoolInd, Types, WmtdType, WmtdBusy, InFlight
<1>2. (waits[o] => Answer(o, r)) /\ (~waits[o] => UNCHANGED <<res, sig>>)
  BY DEF Report
<1> HIDE DEF r
<1>3. wmtd'.op = NoOp /\ ~wmtd'.ok /\ Queued' = Queued
  BY <1>1 DEF Queued
<1>4. /\ \A p \in Ops : InFlight(p)' <=> InFlight(p) /\ p # o
      /\ \A p \in Ops : Pending(p)' => Pending(p)
  BY <1>3, Consts DEF InFlight, Pending, PoolInd, Once
<1> QED  BY <1>1, <1>2, <1>3, <1>4, LandsAnswer

LEMMA DrainAnswers == ASSUME PoolInd, AnswerInd, NEW t \in Resetters, Drain(t) PROVE AnswerInd'
<1> DEFINE o == Head(active)
<1>1. /\ active # <<>> /\ active \in Seq(Ops) /\ active' = Tail(active)
      /\ UNCHANGED <<wmtd, has, pc, waits, did>>
      /\ waits[o] => Answer(o, "fail")
      /\ ~waits[o] => UNCHANGED <<res, sig>>
  BY DEF Drain, DrainAnswer, PoolInd, Types, QueueType
<1>2. o \in Ops /\ Queued = Queued' \cup {o} /\ o \in Queued /\ o \notin Queued'
  BY <1>1, TailQueued DEF PoolInd, Once, Queued
<1> HIDE DEF o
<1>3. /\ InFlight(o) /\ \A p \in Ops : InFlight(p)' <=> InFlight(p) /\ p # o
      /\ \A p \in Ops : Pending(p)' => Pending(p)
  BY <1>1, <1>2 DEF InFlight, Pending, PoolInd, Once
<1> QED  BY <1>1, <1>2, <1>3, LandsAnswer

\* A reset answers the op it read as current; -1 is never a success.
LEMMA RaiseAnswer ==
  ASSUME PoolInd, AnswerInd, NEW t \in Resetters, RstRaise(t) PROVE AnswerInd'
<1> DEFINE o == peek[t]
<1>1. /\ UNCHANGED <<active, wmtd, waits, did, has>> /\ pc[t] = "raise"
      /\ pc' = [pc EXCEPT ![t] = "drain_hw"]
  BY DEF RstRaise, Goto
<1>2. \A u \in Threads : (Waiting(u)' <=> Waiting(u)) /\ (has[u] \in Ops \cup {NoOp})
  BY <1>1 DEF Waiting, PoolInd, Types, ThreadType
<1>3. CASE UNCHANGED <<res, sig>>
  BY <1>1, <1>2, <1>3, AnswerFrame, FlightNames DEF PoolInd, Types
<1>4. CASE o \in Ops /\ Answer(o, "fail")
  <2>1. /\ \A p \in Ops : p # o => res'[p] = res[p] /\ (sig'[p] <=> sig[p])
        /\ res'[o] = "fail" /\ sig'[o]
    BY <1>4 DEF Answer, PoolInd, Types, OpType
  <2> HIDE DEF o
  <2>2. AnswerNotEarly' /\ AnswerTrue' /\ Attended'
    BY <1>1, <1>2, <2>1, FlightNames
       DEF AnswerInd, AnswerNotEarly, AnswerTrue, Attended, Waiting
  <2>3. ReportTrue' /\ DidOwned'
    BY <1>1, <1>2, FlightNames DEF AnswerInd, ReportTrue, DidOwned
  <2> QED  BY <2>2, <2>3 DEF AnswerInd
<1> QED  BY <1>3, <1>4 DEF RstRaise, PoolInd, Types, TriesType

LEMMA ResetterAnswer ==
  ASSUME PoolInd, PoolInd', AnswerInd, NEW t \in Resetters,
         RstEnter(t) \/ RstClaim(t) \/ RstPeek(t) \/ Drained(t) \/ RstEnd(t) \/ RstLeave(t)
  PROVE  AnswerInd'
<1>1. /\ UNCHANGED <<active, waits, res, sig, did, has, wmtd>>
      /\ \E s : pc' = [pc EXCEPT ![t] = s]
  BY DEF RstEnter, RstClaim, RstPeek, Drained, RstEnd, RstLeave, opVars, Goto
<1>2. \A u \in Threads : Waiting(u)' <=> Waiting(u)
  <2>1. \A u \in Threads : u # t => pc'[u] = pc[u]
    BY <1>1 DEF PoolInd, Types, ThreadType
  <2>2. pc[t] # "got" /\ pc'[t] # "got"
    BY DEF PoolInd, Stage
  <2> QED  BY <1>1, <2>1, <2>2 DEF Waiting
<1> QED  BY <1>1, <1>2, AnswerFrame, FlightNames DEF PoolInd, Types

LEMMA AnswerStutters == ASSUME PoolInd, AnswerInd, UNCHANGED vars PROVE AnswerInd'
<1>1. UNCHANGED <<active, waits, res, sig, did, has, wmtd, pc>>
  BY DEF vars, opVars
<1>2. \A u \in Threads : Waiting(u)' <=> Waiting(u)
  BY <1>1 DEF Waiting
<1> QED  BY <1>1, <1>2, AnswerFrame, FlightNames DEF PoolInd, Types

LEMMA AnswerSteps == PoolInd /\ PoolInd' /\ AnswerInd /\ [Next]_vars => AnswerInd'
  BY AnswerStutters, GetAnswer, GiveUpAnswer, PutAnswer, ReturnAnswer, PsmdPutAnswer,
     TakeAnswer, ReportAnswer, DrainAnswers, RstPutAnswer, RstReturnAnswer, WmtdAnswer,
     ExecuteAnswer, RaiseAnswer, ResetterAnswer
     DEF Next, CallerStep, WmtdStep, RstStep

LEMMA AnswerAlways == Spec => []AnswerInd
  BY AnswerStarts, PoolAlways, AnswerSteps, PTL DEF Spec

\* No wait is forgotten: a thread that waits has its signal, or its op is still
\* with wmtd or in the active queue, where wmtd or a drain will answer it.
THEOREM NobodyForgotten ==
  Spec => [](\A t \in Threads :
               has[t] # NoOp /\ pc[t] # "got" =>
                 sig[has[t]] \/ has[t] \in ToSet(active) \/ wmtd.op = has[t])
<1>1. AnswerInd => \A t \in Threads :
               has[t] # NoOp /\ pc[t] # "got" =>
                 sig[has[t]] \/ has[t] \in ToSet(active) \/ wmtd.op = has[t]
  BY DEF AnswerInd, Attended, Waiting, InFlight, Queued
<1> QED  BY <1>1, AnswerAlways, PTL

\* A call that returns success returns what wmtd did for it: no step of an
\* earlier user, of a reset or of a timeout makes up a success.
THEOREM AnswersAreOwn == Spec => AnswerIsOwn
<1>1. AnswerInd =>
        \A t \in Threads :
          has[t] # NoOp /\ has'[t] = NoOp /\ pc[t] # "got" /\ Succeeded(t) => did[has[t]]
  BY DEF AnswerInd, AnswerTrue, Waiting, Succeeded
<1>2. AnswerInd /\ [Next]_vars =>
        [\A t \in Threads :
          has[t] # NoOp /\ has'[t] = NoOp /\ pc[t] # "got" /\ Succeeded(t) => did[has[t]]]_vars
  BY <1>1
<1> QED  BY <1>2, AnswerAlways, PTL DEF Spec, AnswerIsOwn
-----------------------------------------------------------------------------
(* Every step keeps ResetInd, with one resetter.                           *)

\* Steps of the others: the resetter stays where it is, its op keeps its id and
\* success, and nothing that is an HW_RST or SW_RST is queued.
RstStays ==
  /\ \A t \in Resetters : pc'[t] = pc[t] /\ has'[t] = has[t] /\ try'[t] = try[t]
  /\ rstOn' = rstOn
  /\ \A t \in Resetters : has[t] # NoOp =>
       id'[has[t]] = id[has[t]] /\ (did'[has[t]] <=> did[has[t]])
NoNewRst ==
  /\ \A p \in Ops : Pending(p)' => (Pending(p) /\ id'[p] = id[p]) \/ id'[p] \notin HwSw
  /\ \A p \in Ops : p \in Queued' => (p \in Queued /\ id'[p] = id[p]) \/ id'[p] \notin HwSw

LEMMA TriesFrame ==
  ASSUME PoolInd, PoolInd', ResetInd, RstStays, NoNewRst, chip' = chip
  PROVE  RstOn' /\ OwnId' /\ Tries'
<1>1. RstOn'
  BY DEF ResetInd, RstOn, RstStays, Active
<1>2. OwnId'
  BY DEF ResetInd, OwnId, RstStays
<1>3. Queued' \subseteq Ops
  BY ElementOfSeq, LenProperties DEF Queued, ToSet, PoolInd, Types, QueueType
<1>4. Quiet => Quiet'
  BY DEF Quiet, NoNewRst
<1>5. \A x : (QueueBut(x) => QueueBut(x)') /\ (PendBut(x) => PendBut(x)')
  BY <1>3 DEF QueueBut, PendBut, NoNewRst
<1>6. ASSUME NEW t \in Resetters, pc[t] = "SW_RST", has[t] # NoOp, Pending(has[t])'
      PROVE  Pending(has[t])
  <2>1. has[t] \in Ops /\ id'[has[t]] = "SW_RST"
    BY <1>6, Consts DEF PoolInd, Types, ThreadType, ResetInd, OwnId, RstStays
  <2> QED  BY <1>6, <2>1 DEF NoNewRst, HwSw, RstStays, Pending
<1>7. Tries'
  <2> SUFFICES ASSUME NEW t \in Resetters
      PROVE  /\ pc[t] \in {"GPIO", "HW_RST"} => QueueBut(has[t])'
             /\ pc[t] = "HW_RST" /\ has[t] # NoOp /\ did'[has[t]] => Quiet' /\ chip = "HW_RST"
             /\ pc[t] = "drain_sw" => Quiet' /\ chip = "HW_RST"
             /\ pc[t] = "SW_RST" /\ has[t] = NoOp => Quiet' /\ chip = "HW_RST"
             /\ pc[t] = "SW_RST" /\ has[t] # NoOp =>
                  /\ PendBut(has[t])'
                  /\ Pending(has[t])' => chip = "HW_RST"
                  /\ did'[has[t]] => chip = "SW_RST"
             /\ pc[t] = "end" /\ try[t] > 0 => Quiet' /\ chip = "SW_RST"
    BY <1>5 DEF Tries, RstStays, QueueBut, PendBut
  <2> QED  BY <1>4, <1>5, <1>6 DEF ResetInd, Tries, RstStays
<1> QED  BY <1>1, <1>2, <1>7

LEMMA BeforeFrame ==
  ASSUME ResetInd, RstStays, before' \subseteq before,
         \A c \in before' : pc'[c] = pc[c] /\ has'[c] = has[c],
         \A c \in before' : has[c] \in Queued' => has[c] \in Queued,
         \A c \in before' : wmtd'.op = has[c] => wmtd.op = has[c],
         \A t \in Resetters : has[t] # NoOp /\ has[t] \notin Queued' => has[t] \notin Queued
  PROVE  Before'
<1>1. \A c \in before' : InFlight(has[c])' => InFlight(has[c])
  BY DEF InFlight
<1>2. \A t \in Resetters : HwDone(t)' <=> HwDone(t)
  BY DEF HwDone, RstStays
<1>3. \A c \in before' : pc'[c] = "wait"
  BY DEF ResetInd, Before
<1>4. ASSUME NEW t \in Resetters
      PROVE  /\ pc[t] \in ResetOps \cup {"drain_sw", "end"} => \A c \in before' : has[c] \notin Queued'
             /\ pc[t] = "HW_RST" /\ has[t] # NoOp /\ has[t] \notin Queued' =>
                  \A c \in before' : wmtd'.op # has[c]
             /\ HwDone(t) => \A c \in before' : ~InFlight(has[c])'
  BY <1>1 DEF ResetInd, Before
<1> QED  BY <1>2, <1>3, <1>4 DEF Before, RstStays

LEMMA ResetStarts == Init => ResetInd
<1> SUFFICES ASSUME Init PROVE ResetInd
  OBVIOUS
<1>1. \A t \in Resetters : pc[t] = "idle" /\ has[t] = NoOp
  BY Consts DEF Init
<1>2. RstOn /\ OwnId /\ OnlyReset
  BY <1>1 DEF Init, RstOn, OwnId, OnlyReset, Active, Trying, ResetOps
<1>3. Tries
  BY <1>1 DEF Tries
<1>4. Before
  BY <1>1 DEF Init, Before, ResetOps, HwDone
<1> QED  BY <1>2, <1>3, <1>4 DEF ResetInd

\* The callers' steps, and psmd's.
LEMMA CallerReset ==
  ASSUME PoolInd, PoolInd', ResetInd, NEW t \in Callers, Get(t) \/ CallerStep(t)
  PROVE  ResetInd'
<1>1. /\ t \in Threads /\ (\A u \in Resetters : u # t) /\ wmtd' = wmtd
      /\ UNCHANGED <<try, rstOn, chip>>
  BY Consts DEF Get, CallerStep, GiveUp, Put, Return, ctxVars, rstVars
<1>2. \A u \in Threads : u # t => pc'[u] = pc[u] /\ has'[u] = has[u]
  BY <1>1 DEF Get, CallerStep, GiveUp, Put, Return, Answered, Expired, GiveBack,
     PoolInd, Types, ThreadType
<1>3. \A u \in Resetters : has[u] # NoOp => has[u] # has[t]
  BY <1>1, Consts DEF PoolInd, Alone
<1>4. CASE Put(t)
  <2> DEFINE o == has[t]
  <2>1. /\ o \in Ops /\ ~InFlight(o) /\ Enqueue(o, "FUNC", TRUE) /\ pc[t] = "got"
        /\ has' = has /\ before' = before
    BY <1>1, <1>4 DEF Put, PoolInd, Types, ThreadType, Stage, GotFresh, rstVars
  <2>2. id'[o] = "FUNC" /\ did' = did /\ \A p \in Ops : p # o => id'[p] = id[p]
    BY <2>1 DEF Enqueue, PoolInd, Types, OpType
  <2>3. Queued' = Queued \cup {o} /\ \A p : InFlight(p)' <=> InFlight(p) \/ p = o
    BY <1>1, <2>1, Queues DEF Enqueue
  <2>4. \A u \in Threads : u # t /\ has[u] # NoOp => has[u] # o /\ has[u] \in Ops
    BY <1>1 DEF PoolInd, Alone, Types, ThreadType
  <2> HIDE DEF o
  <2>5. RstStays
    BY <1>1, <1>2, <2>1, <2>2, <2>4, Consts DEF RstStays
  <2>6. NoNewRst
    BY <1>1, <2>2, <2>3 DEF NoNewRst, Pending, HwSw
  <2>7. OnlyReset'
    <3>1. wmtd.at # "idle" => wmtd.op \in Ops /\ wmtd.op # o
      BY <2>1 DEF PoolInd, Types, WmtdType, WmtdBusy, InFlight
    <3> QED  BY <1>1, <2>2, <3>1 DEF ResetInd, OnlyReset
  <2>8. \A c \in before : c \in Threads /\ c # t /\ has[c] # NoOp
    BY <2>1, Consts DEF ResetInd, Before, PoolInd, Types, RstType, Stage
  <2>9. Before'
    BY <1>1, <1>2, <2>1, <2>3, <2>4, <2>5, <2>8, BeforeFrame
  <2> QED  BY <1>1, <2>5, <2>6, <2>7, <2>9, TriesFrame DEF ResetInd
<1>5. CASE Get(t) \/ GiveUp(t) \/ Return(t)
  <2>1. active' = active /\ id' = id /\ before' \subseteq before
        /\ (t \in before' => has'[t] = has[t] /\ pc'[t] = pc[t])
    <3>1. active' = active /\ id' = id /\ before' \subseteq before
      BY <1>5 DEF Get, GiveUp, Return, Answered, Expired, Forget, opVars, rstVars
    <3>2. t \notin before'
      BY <1>5 DEF Get, GiveUp, Return, rstVars, ResetInd, Before
    <3> QED  BY <3>1, <3>2
  <2>2. \A u \in Resetters : has[u] # NoOp => (did'[has[u]] <=> did[has[u]])
    <3>1. CASE did' = did
      BY <3>1
    <3>2. CASE Return(t)
      <4>1. did' = [did EXCEPT ![has[t]] = FALSE]
        BY <3>2 DEF Return, Answered, Expired, Forget
      <4>2. \A u \in Resetters : has[u] # NoOp => has[u] \in Ops
        BY Consts DEF PoolInd, Types, ThreadType
      <4> QED  BY <1>3, <4>1, <4>2 DEF PoolInd, Types, OpType
    <3> QED  BY <1>5, <3>1, <3>2 DEF Get, GiveUp, opVars
  <2>3. RstStays
    BY <1>1, <1>2, <2>1, <2>2, Consts DEF RstStays
  <2>4. NoNewRst
    BY <1>1, <2>1 DEF NoNewRst, Pending, Queued
  <2>5. OnlyReset'
    BY <1>1, <2>1 DEF ResetInd, OnlyReset
  <2>6. Before'
    <3>1. \A c \in before' : pc'[c] = pc[c] /\ has'[c] = has[c]
      BY <1>2, <2>1, Consts DEF PoolInd, Types, RstType
    <3> QED  BY <1>1, <2>1, <2>3, <3>1, BeforeFrame DEF Queued
  <2> QED  BY <1>1, <2>3, <2>4, <2>5, <2>6, TriesFrame DEF ResetInd
<1> QED  BY <1>4, <1>5 DEF CallerStep

LEMMA PsmdReset == ASSUME PoolInd, PoolInd', ResetInd, PsmdPut PROVE ResetInd'
<1> DEFINE o == NextOp
<1>1. /\ o \in Ops /\ ~InFlight(o) /\ (\A u \in Threads : has[u] # o)
      /\ Enqueue(o, "PWR_SV", FALSE) /\ UNCHANGED <<has, pc, try, wmtd, rstOn, chip, before>>
  BY FreshOp DEF PsmdPut, ctxVars, rstVars
<1> HIDE DEF o
<1>2. id'[o] = "PWR_SV" /\ did' = did /\ \A p \in Ops : p # o => id'[p] = id[p]
  BY <1>1 DEF Enqueue, PoolInd, Types, OpType
<1>3. Queued' = Queued \cup {o} /\ \A p : InFlight(p)' <=> InFlight(p) \/ p = o
  BY <1>1, Queues DEF Enqueue
<1>4. \A u \in Threads : has[u] # NoOp => has[u] \in Ops
  BY DEF PoolInd, Types, ThreadType
<1>5. RstStays
  BY <1>1, <1>2, <1>4, Consts DEF RstStays
<1>6. NoNewRst
  BY <1>1, <1>2, <1>3 DEF NoNewRst, Pending, HwSw
<1>7. OnlyReset'
  <2>1. wmtd.at # "idle" => wmtd.op \in Ops /\ wmtd.op # o
    BY <1>1 DEF PoolInd, Types, WmtdType, WmtdBusy, InFlight
  <2> QED  BY <1>1, <1>2, <2>1 DEF ResetInd, OnlyReset
<1>8. before \subseteq Threads
  BY Consts DEF PoolInd, Types, RstType
<1>9. Before'
  BY <1>1, <1>3, <1>5, <1>8, BeforeFrame
<1> QED  BY <1>1, <1>5, <1>6, <1>7, <1>9, TriesFrame DEF ResetInd

\* wmtd's steps, the execution of an op apart.
LEMMA TakeReset == ASSUME PoolInd, PoolInd', ResetInd, Take PROVE ResetInd'
<1> DEFINE o == Head(active)
<1>1. /\ wmtd.at = "idle" /\ active # <<>> /\ active \in Seq(Ops) /\ active' = Tail(active)
      /\ wmtd' = [at |-> "took", op |-> o, ok |-> FALSE]
      /\ UNCHANGED <<has, pc, try, id, did, rstOn, chip, before>>
  BY DEF Take, PoolInd, Types, QueueType, opVars, ctxVars, rstVars
<1>2. Queued = Queued' \cup {o} /\ o \notin Queued' /\ o \in Ops
  BY <1>1, TailQueued DEF Queued, PoolInd, Once
<1> HIDE DEF o
<1>3. wmtd.op = NoOp /\ wmtd'.op = o /\ wmtd'.at = "took"
  BY <1>1 DEF PoolInd, WmtdBusy
<1>4. \A p \in Ops : Pending(p)' <=> Pending(p)
  BY <1>2, <1>3, Consts DEF Pending
<1>5. RstStays
  BY <1>1 DEF RstStays
<1>6. NoNewRst
  BY <1>1, <1>2, <1>4 DEF NoNewRst
<1>7. OnlyReset'
  BY <1>3 DEF OnlyReset
<1>8. Before'
  <2>1. \A c \in before : c \in Callers /\ c \in Threads /\ pc[c] = "wait" /\ has[c] \in Ops
    BY Consts DEF ResetInd, Before, PoolInd, Types, RstType, Stage, ThreadType
  <2>2. \A c \in before : InFlight(has[c])' <=> InFlight(has[c])
    BY <1>1, <1>2, <1>3, <2>1, Consts DEF InFlight
  <2>3. ASSUME NEW t \in Resetters, pc[t] = "HW_RST", has[t] # NoOp, has[t] \notin Queued',
               NEW c \in before
        PROVE  wmtd'.op # has[c]
    BY <1>2, <1>3, <2>1, <2>3 DEF ResetInd, Before, ResetOps
  <2>4. ASSUME NEW t \in Resetters, pc[t] \in ResetOps \cup {"drain_sw", "end"}, NEW c \in before
        PROVE  has[c] \notin Queued'
    BY <1>2, <2>4 DEF ResetInd, Before
  <2>5. ASSUME NEW t \in Resetters, HwDone(t), NEW c \in before PROVE ~InFlight(has[c])'
    BY <2>2, <2>5 DEF ResetInd, Before
  <2>6. \A t \in Resetters : HwDone(t)' <=> HwDone(t)
    BY <1>1 DEF HwDone
  <2> QED  BY <1>1, <2>1, <2>3, <2>4, <2>5, <2>6 DEF Before
<1> QED  BY <1>1, <1>5, <1>6, <1>7, <1>8, TriesFrame DEF ResetInd

LEMMA WmtdReset ==
  ASSUME PoolInd, PoolInd', ResetInd, Test \/ SetCurrent \/ Unready \/ ChipAsserts \/ Report
  PROVE  ResetInd'
<1>1. UNCHANGED <<active, has, pc, try, id, did, rstOn, chip, before>>
  BY DEF Test, SetCurrent, Unready, ChipAsserts, Report, opVars, ctxVars, rstVars
<1>2. /\ wmtd'.op = wmtd.op \/ wmtd'.op = NoOp
      /\ wmtd'.at = "answer" \/ wmtd.at # "answer" \/ wmtd'.op = NoOp
      /\ wmtd'.at \in {"set", "run"} =>
           /\ wmtd'.op = wmtd.op
           /\ wmtd.at \in {"set", "run"} \/ ~rstOn \/ id[wmtd.op] \in ResetOps
  <2> USE DEF PoolInd, Types, WmtdType
  <2>1. CASE Test
    BY <2>1 DEF Test, Refused
  <2>2. CASE SetCurrent
    BY <2>2 DEF SetCurrent
  <2>3. CASE Unready \/ ChipAsserts
    BY <2>3 DEF Unready, ChipAsserts
  <2>4. CASE Report
    BY <2>4 DEF Report
  <2> QED  BY <2>1, <2>2, <2>3, <2>4
<1>3. RstStays
  BY <1>1 DEF RstStays
<1>4. NoNewRst
  BY <1>1, <1>2, Consts DEF NoNewRst, Pending, Queued
<1>5. OnlyReset'
  BY <1>1, <1>2 DEF ResetInd, OnlyReset
<1>6. Before'
  <2>1. \A c \in before : has[c] # NoOp
    BY DEF ResetInd, Before, PoolInd, Types, RstType, Stage
  <2> QED  BY <1>1, <1>2, <1>3, <2>1, BeforeFrame DEF Queued
<1> QED  BY <1>1, <1>3, <1>4, <1>5, <1>6, TriesFrame DEF ResetInd

\* wmtd executes an op: only a reset's HW_RST or SW_RST changes chip.
LEMMA ExecuteReset ==
  ASSUME OneResetter, PoolInd, PoolInd', ResetInd, NEW ok \in BOOLEAN, Execute(ok)
  PROVE  ResetInd'
<1> DEFINE o == wmtd.op
<1>1. /\ wmtd.at = "run" /\ wmtd'.op = o /\ wmtd'.at = "answer" /\ o \in Ops
      /\ UNCHANGED <<active, has, pc, try, id, rstOn, before>>
      /\ did' = [did EXCEPT ![o] = ok /\ \E t \in Threads : has[t] = o]
  BY DEF Execute, PoolInd, Types, WmtdType, WmtdBusy, ctxVars
<1>2. /\ id[o] = "HW_RST" => chip' = IF ok THEN "HW_RST" ELSE ""
      /\ id[o] = "SW_RST" => chip' = IF ok /\ chip = "HW_RST" THEN "SW_RST" ELSE chip
      /\ id[o] \notin HwSw => chip' = chip
  BY DEF Execute, HwSw
<1> HIDE DEF o
<1>3. /\ did'[o] <=> (ok /\ \E t \in Threads : has[t] = o)
      /\ \A p \in Ops : p # o => (did'[p] <=> did[p])
  BY <1>1 DEF PoolInd, Types, OpType
<1>4. Pending(o) /\ o \notin Queued /\ Queued' = Queued
      /\ \A p : Pending(p)' <=> Pending(p) /\ p # o
  BY <1>1 DEF Pending, Queued, PoolInd, Once, o
<1>5. OnlyReset'
  BY <1>1 DEF OnlyReset
<1>6. RstOn' /\ OwnId'
  BY <1>1 DEF ResetInd, RstOn, OwnId, Active
<1>7. Before'
  <2>1. \A c : InFlight(has[c])' <=> InFlight(has[c])
    BY <1>1, <1>4 DEF InFlight, o
  <2>2. \A t : HwDone(t)' <=> HwDone(t)
    BY <1>1 DEF HwDone
  <2>3. \A c \in before : pc[c] = "wait"
    BY DEF ResetInd, Before
  <2> QED  BY <1>1, <1>4, <2>1, <2>2, <2>3 DEF ResetInd, Before, o
<1>8. Tries'
  <2>1. Quiet => id[o] \notin HwSw /\ Quiet'
    BY <1>1, <1>4 DEF Quiet
  <2>2. \A x : (QueueBut(x) => QueueBut(x)') /\ (PendBut(x) => PendBut(x)')
    BY <1>1, <1>4 DEF QueueBut, PendBut
  <2>3. \A t \in Resetters : has[t] # NoOp => has[t] \in Ops /\ id[has[t]] = pc[t]
    BY Consts DEF PoolInd, Types, ThreadType, ResetInd, OwnId
  <2> SUFFICES ASSUME NEW t \in Resetters
      PROVE  /\ pc[t] \in {"GPIO", "HW_RST"} => QueueBut(has[t])'
             /\ pc[t] = "HW_RST" /\ has[t] # NoOp /\ did'[has[t]] => Quiet' /\ chip' = "HW_RST"
             /\ pc[t] = "drain_sw" => Quiet' /\ chip' = "HW_RST"
             /\ pc[t] = "SW_RST" /\ has[t] = NoOp => Quiet' /\ chip' = "HW_RST"
             /\ pc[t] = "SW_RST" /\ has[t] # NoOp =>
                  /\ PendBut(has[t])'
                  /\ Pending(has[t])' => chip' = "HW_RST"
                  /\ did'[has[t]] => chip' = "SW_RST"
             /\ pc[t] = "end" /\ try[t] > 0 => Quiet' /\ chip' = "SW_RST"
    BY <1>1 DEF Tries, QueueBut, PendBut, Pending, Queued
  <2>4. pc[t] \in {"GPIO", "HW_RST"} => QueueBut(has[t])'
    BY <1>1, <2>2 DEF ResetInd, Tries, QueueBut
  <2>5. ASSUME pc[t] = "HW_RST", has[t] # NoOp, did'[has[t]]
        PROVE  Quiet' /\ chip' = "HW_RST"
    <3>1. CASE has[t] = o
      <4>1. QueueBut(o)
        BY <2>5, <3>1 DEF ResetInd, Tries
      <4>2. Quiet'
        BY <1>1, <1>4, <4>1 DEF Quiet, QueueBut, Pending
      <4> QED  BY <1>2, <1>3, <2>3, <2>5, <3>1, <4>2
    <3>2. CASE has[t] # o
      <4>1. did[has[t]]
        BY <1>3, <2>3, <2>5, <3>2
      <4> QED  BY <1>2, <2>1, <2>5, <4>1 DEF ResetInd, Tries
    <3> QED  BY <3>1, <3>2
  <2>6. pc[t] = "drain_sw" => Quiet' /\ chip' = "HW_RST"
    BY <1>2, <2>1 DEF ResetInd, Tries
  <2>7. ASSUME pc[t] = "SW_RST", has[t] = NoOp
        PROVE  Quiet' /\ chip' = "HW_RST"
    <3>1. Quiet /\ chip = "HW_RST"
      BY <2>7 DEF ResetInd, Tries
    <3> QED  BY <1>2, <2>1, <3>1
  <2>8. ASSUME pc[t] = "SW_RST", has[t] # NoOp
        PROVE  /\ PendBut(has[t])'
               /\ Pending(has[t])' => chip' = "HW_RST"
               /\ did'[has[t]] => chip' = "SW_RST"
    <3>1. PendBut(has[t]) /\ PendBut(has[t])'
      BY <1>1, <2>2, <2>8 DEF ResetInd, Tries, PendBut
    <3>2. CASE has[t] = o
      <4>1. chip = "HW_RST" /\ id[o] = "SW_RST"
        BY <1>4, <2>3, <2>8, <3>2 DEF ResetInd, Tries
      <4>2. ~Pending(has[t])'
        BY <1>1, <3>2 DEF Pending, o, Queued, PoolInd, Once
      <4>3. did'[has[t]] => ok
        BY <1>3, <3>2
      <4> QED  BY <1>2, <3>1, <4>1, <4>2, <4>3
    <3>3. CASE has[t] # o
      <4>1. id[o] \notin HwSw
        BY <1>1, <1>4, <3>1, <3>3 DEF PendBut
      <4>2. Pending(has[t])' => Pending(has[t])
        BY <1>1, <1>4 DEF Pending
      <4>3. chip' = chip /\ (did'[has[t]] => did[has[t]])
        BY <1>2, <1>3, <2>3, <2>8, <3>3, <4>1
      <4> QED  BY <2>8, <3>1, <4>2, <4>3 DEF ResetInd, Tries
    <3> QED  BY <3>2, <3>3
  <2>9. pc[t] = "end" /\ try[t] > 0 => Quiet' /\ chip' = "SW_RST"
    BY <1>2, <2>1 DEF ResetInd, Tries
  <2> QED  BY <2>4, <2>5, <2>6, <2>7, <2>8, <2>9
<1> QED  BY <1>5, <1>6, <1>7, <1>8 DEF ResetInd

\* The resetter's steps.  It is the only one.
LEMMA EnterReset ==
  ASSUME OneResetter, PoolInd, PoolInd', ResetInd, NEW t \in Resetters,
         RstEnter(t) \/ RstClaim(t) \/ RstPeek(t) \/ RstRaise(t)
  PROVE  ResetInd'
<1>1. /\ UNCHANGED <<active, has, id, did, wmtd>> /\ (\A u \in Resetters : u = t)
      /\ has[t] = NoOp /\ t \in Threads /\ t \notin Callers
  BY Consts DEF OneResetter, RstEnter, RstClaim, RstPeek, RstRaise, opVars, ctxVars,
     PoolInd, Stage, ResetOps
<1>2. PICK s \in {"claim", "leave", "peek", "raise", "drain_hw"} : pc' = [pc EXCEPT ![t] = s]
  BY DEF RstEnter, RstClaim, RstPeek, RstRaise, Goto
<1>3. pc'[t] = s /\ \A u \in Threads : u # t => pc'[u] = pc[u]
  BY <1>1, <1>2 DEF PoolInd, Types, ThreadType
<1>4. /\ rstOn' <=> (s \in {"peek", "raise", "drain_hw"})
      /\ chip' = "" \/ (chip' = chip /\ rstOn' = rstOn)
  <2> USE DEF PoolInd, Types, ThreadType, RstType
  <2>1. CASE RstEnter(t)
    <3>1. s = "claim" /\ rstOn' = rstOn /\ chip' = chip
      BY <1>1, <1>2, <2>1 DEF RstEnter, Goto, rstVars
    <3>2. ~rstOn
      BY <2>1 DEF RstEnter, ResetInd, RstOn, Active, Trying, ResetOps
    <3> QED  BY <3>1, <3>2
  <2>2. CASE RstClaim(t)
    <3>1. ~rstOn
      BY <2>2 DEF RstClaim, ResetInd, RstOn, Active, Trying, ResetOps
    <3>2. s = "peek" /\ rstOn' = TRUE /\ chip' = ""
      BY <1>1, <1>2, <2>2, <3>1 DEF RstClaim, Goto
    <3> QED  BY <3>2
  <2>3. CASE RstPeek(t) \/ RstRaise(t)
    <3>1. s \in {"raise", "drain_hw"} /\ rstOn' = rstOn /\ chip' = chip
      BY <1>1, <1>2, <2>3 DEF RstPeek, RstRaise, Goto, rstVars
    <3>2. rstOn
      BY <2>3 DEF RstPeek, RstRaise, ResetInd, RstOn, Active, Trying, ResetOps
    <3> QED  BY <3>1, <3>2
  <2> QED  BY <2>1, <2>2, <2>3
<1>5. RstOn' /\ OwnId'
  BY <1>1, <1>3, <1>4 DEF RstOn, OwnId, Active, Trying, ResetOps
<1>6. OnlyReset'
  BY <1>1, <1>4 DEF ResetInd, OnlyReset
<1>7. Tries'
  BY <1>1, <1>3 DEF Tries
<1>8. Before'
  <2>1. \A c \in before' : pc'[c] = "wait"
    <3>1. before' = {c \in Callers : pc[c] = "wait"} \/ before' = before
      BY DEF RstEnter, RstClaim, RstPeek, RstRaise, rstVars
    <3>2. before' \subseteq Callers /\ \A c \in before' : pc[c] = "wait"
      BY <3>1 DEF ResetInd, Before, PoolInd, Types, RstType
    <3> QED  BY <1>1, <1>3, <3>2, Consts
  <2> QED  BY <1>1, <1>3, <2>1 DEF Before, ResetOps, HwDone
<1> QED  BY <1>5, <1>6, <1>7, <1>8 DEF ResetInd

LEMMA DrainReset ==
  ASSUME OneResetter, PoolInd, PoolInd', ResetInd, NEW t \in Resetters, Drain(t) PROVE ResetInd'
<1> DEFINE o == Head(active)
<1>1. /\ active # <<>> /\ active \in Seq(Ops) /\ active' = Tail(active)
      /\ UNCHANGED <<wmtd, has, pc, try, id, did, rstOn, chip, before>>
      /\ pc[t] \in {"drain_hw", "drain_sw"}
  BY DEF Drain, PoolInd, Types, QueueType, ctxVars, rstVars
<1>2. Queued = Queued' \cup {o} /\ o \notin Queued'
  BY <1>1, TailQueued DEF Queued, PoolInd, Once
<1>3. RstStays
  BY <1>1 DEF RstStays
<1>4. NoNewRst
  BY <1>1, <1>2 DEF NoNewRst, Pending
<1>5. OnlyReset'
  BY <1>1 DEF ResetInd, OnlyReset
<1>6. Before'
  <2>1. \A u \in Resetters : u = t
    BY DEF OneResetter
  <2>2. \A c : InFlight(has[c])' => InFlight(has[c])
    BY <1>1, <1>2 DEF InFlight
  <2> QED  BY <1>1, <1>2, <2>1, <2>2 DEF ResetInd, Before, HwDone, ResetOps
<1> QED  BY <1>1, <1>3, <1>4, <1>5, <1>6, TriesFrame DEF ResetInd

LEMMA DrainedReset ==
  ASSUME OneResetter, PoolInd, PoolInd', ResetInd, NEW t \in Resetters, Drained(t)
  PROVE  ResetInd'
<1>1. /\ UNCHANGED <<active, has, try, id, did, wmtd, rstOn, chip, before>>
      /\ (\A u \in Resetters : u = t) /\ has[t] = NoOp /\ t \in Threads /\ t \notin Callers
      /\ active = <<>> /\ pc[t] \in {"drain_hw", "drain_sw"}
      /\ pc' = [pc EXCEPT ![t] = IF pc[t] = "drain_hw" THEN "GPIO" ELSE "SW_RST"]
  BY Consts DEF OneResetter, Drained, Goto, opVars, ctxVars, rstVars, PoolInd, Stage, ResetOps
<1>2. /\ pc'[t] = IF pc[t] = "drain_hw" THEN "GPIO" ELSE "SW_RST"
      /\ \A u \in Threads : u # t => pc'[u] = pc[u]
  BY <1>1 DEF PoolInd, Types, ThreadType
<1>3. Queued = {} /\ Queued' = {} /\ \A p : (Pending(p)' <=> Pending(p)) /\ (InFlight(p)' <=> InFlight(p))
  BY <1>1, EmptyQueued DEF Queued, Pending, InFlight
<1>4. RstOn' /\ OwnId' /\ OnlyReset'
  BY <1>1, <1>2 DEF ResetInd, RstOn, OwnId, OnlyReset, Active, Trying, ResetOps
<1>5. Tries'
  <2>1. Quiet => Quiet'
    BY <1>1, <1>3 DEF Quiet
  <2>2. QueueBut(has[t])'
    BY <1>3 DEF QueueBut
  <2> QED  BY <1>1, <1>2, <2>1, <2>2 DEF ResetInd, Tries
<1>6. Before'
  <2>1. \A c \in before : pc'[c] = "wait"
    BY <1>1, <1>2, Consts DEF ResetInd, Before, PoolInd, Types, RstType
  <2>2. HwDone(t)' => HwDone(t)
    BY <1>1, <1>2 DEF HwDone
  <2>3. \A c : InFlight(has[c])' => InFlight(has[c])
    BY <1>1, <1>3 DEF InFlight
  <2> QED  BY <1>1, <1>3, <2>1, <2>2, <2>3 DEF ResetInd, Before
<1> QED  BY <1>4, <1>5, <1>6 DEF ResetInd

\* Where a finished op of the reset leads to.
LEMMA FinishedStage ==
  ASSUME ThreadType, TriesType, NEW t \in Resetters, NEW ok \in BOOLEAN, pc[t] \in ResetOps,
         try[t] > 0, Finished(t, ok)
  PROVE  \/ pc[t] = "GPIO" /\ pc'[t] = "HW_RST"
         \/ pc[t] = "HW_RST" /\ ok /\ pc'[t] = "drain_sw"
         \/ pc[t] = "SW_RST" /\ ok /\ pc'[t] = "end"
         \/ pc'[t] = "drain_hw"
         \/ pc'[t] = "end" /\ ~(try'[t] > 0)
<1>1. t \in Threads /\ try[t] \in Nat
  BY Consts DEF TriesType
<1>2. CASE pc[t] = "GPIO"
  BY <1>1, <1>2 DEF Finished, Goto, ThreadType
<1>3. CASE pc[t] = "HW_RST" /\ ok
  BY <1>1, <1>3 DEF Finished, Goto, ThreadType, AfterHw
<1>4. CASE pc[t] = "SW_RST" /\ ok
  BY <1>1, <1>4 DEF Finished, Goto, ThreadType
<1>5. CASE pc[t] \in {"HW_RST", "SW_RST"} /\ ~ok
  <2>1. try' = [try EXCEPT ![t] = NextTry(@)]
        /\ pc' = [pc EXCEPT ![t] = IF MayGoOn(t) THEN "drain_hw" ELSE "end"]
    BY <1>5 DEF Finished, Goto, AfterHw
  <2>2. try'[t] = NextTry(try[t]) /\ pc'[t] = IF MoreTries(try'[t]) THEN "drain_hw" ELSE "end"
    BY <1>1, <2>1 DEF TriesType, ThreadType, MayGoOn
  <2> QED  BY <2>2 DEF MoreTries
<1> QED  BY <1>2, <1>3, <1>4, <1>5 DEF ResetOps

\* The resetter has no op, its last one having landed or failed to be taken,
\* and goes on.
LEMMA FinishReset ==
  ASSUME OneResetter, PoolInd, PoolInd', ResetInd, NEW t \in Resetters, NEW ok \in BOOLEAN,
         pc[t] \in ResetOps, Finished(t, ok), has'[t] = NoOp, ok => has[t] # NoOp,
         ok => did[has[t]] /\ ~InFlight(has[t]),
         \A u \in Threads : u # t => has'[u] = has[u],
         UNCHANGED <<active, id, wmtd, rstOn, chip, before>>
  PROVE  ResetInd'
<1>1. (\A u \in Resetters : u = t) /\ t \in Threads /\ t \notin Callers /\ try[t] > 0
  BY Consts DEF OneResetter, PoolInd, TryLeft, Trying
<1>2. /\ \A u \in Threads : u # t => pc'[u] = pc[u]
      /\ pc'[t] \in Trying \cup {"end"}
  BY <1>1, FinishedEffect DEF PoolInd, Types
<1>3. \/ pc[t] = "GPIO" /\ pc'[t] = "HW_RST"
      \/ pc[t] = "HW_RST" /\ ok /\ pc'[t] = "drain_sw"
      \/ pc[t] = "SW_RST" /\ ok /\ pc'[t] = "end"
      \/ pc'[t] = "drain_hw"
      \/ pc'[t] = "end" /\ ~(try'[t] > 0)
  BY <1>1, FinishedStage DEF PoolInd, Types
<1>4. Queued' = Queued /\ \A p : (Pending(p)' <=> Pending(p)) /\ (InFlight(p)' <=> InFlight(p))
  BY DEF Queued, Pending, InFlight
<1>5. RstOn' /\ OwnId' /\ OnlyReset'
  BY <1>1, <1>2 DEF ResetInd, RstOn, OwnId, OnlyReset, Active, Trying
<1>6. has[t] # NoOp => has[t] \in Ops /\ id[has[t]] = pc[t]
  BY <1>1 DEF ResetInd, OwnId, PoolInd, Types, ThreadType
<1>7. Quiet => Quiet'
  BY <1>4 DEF Quiet
<1>8. Tries'
  <2>1. pc'[t] \in {"GPIO", "HW_RST"} => QueueBut(has[t])'
    <3> SUFFICES ASSUME pc[t] = "GPIO", NEW p \in Queued, id[p] \in HwSw PROVE FALSE
      BY <1>3, <1>4 DEF QueueBut
    <3>1. p = has[t]
      BY DEF ResetInd, Tries, QueueBut
    <3>2. has[t] # NoOp
      BY <3>1, ElementOfSeq, LenProperties, Consts DEF Queued, ToSet, PoolInd, Types, QueueType
    <3> QED  BY <1>6, <3>1, <3>2 DEF HwSw
  <2>2. ASSUME pc'[t] = "drain_sw" PROVE Quiet' /\ chip = "HW_RST"
    BY <1>3, <1>7, <2>2 DEF ResetInd, Tries
  <2>3. ASSUME pc'[t] = "end", try'[t] > 0 PROVE Quiet' /\ chip = "SW_RST"
    <3>1. pc[t] = "SW_RST" /\ ok
      BY <1>3, <2>3
    <3>2. PendBut(has[t]) /\ chip = "SW_RST"
      BY <3>1 DEF ResetInd, Tries
    <3>3. ~Pending(has[t])
      BY <3>1 DEF Pending, InFlight
    <3>4. Quiet
      BY <3>2, <3>3 DEF Quiet, PendBut
    <3> QED  BY <1>7, <3>2, <3>4
  <2>4. pc'[t] # "SW_RST"
    BY <1>3
  <2> QED  BY <1>1, <2>1, <2>2, <2>3, <2>4 DEF Tries
<1>9. Before'
  <2>1. \A c \in before : c \in Threads /\ c # t /\ pc'[c] = "wait" /\ has'[c] = has[c]
    BY <1>1, <1>2, Consts DEF ResetInd, Before, PoolInd, Types, RstType
  <2>2. \A c \in before : has[c] \notin Queued
    BY DEF ResetInd, Before
  <2>3. HwDone(t)' => ok /\ pc[t] \in {"HW_RST", "SW_RST"}
    BY <1>3 DEF HwDone
  <2>4. ASSUME ok, pc[t] \in {"HW_RST", "SW_RST"}, NEW c \in before PROVE ~InFlight(has[c])
    BY <2>2, <2>4 DEF ResetInd, Before, InFlight, HwDone
  <2> QED  BY <1>1, <1>4, <2>1, <2>2, <2>3, <2>4 DEF Before, InFlight
<1> QED  BY <1>5, <1>8, <1>9 DEF ResetInd

LEMMA RstReturnReset ==
  ASSUME OneResetter, PoolInd, PoolInd', AnswerInd, ResetInd, NEW t \in Resetters, RstReturn(t)
  PROVE  ResetInd'
<1>1. /\ t \in Threads /\ pc[t] \in ResetOps /\ pc[t] # "got" /\ has[t] # NoOp /\ WaitEnds(t)
      /\ Finished(t, Succeeded(t)) /\ Succeeded(t) \in BOOLEAN
      /\ UNCHANGED <<active, wmtd, rstOn, chip, before>>
  BY WaitOver, Consts DEF RstReturn, Succeeded, PoolInd, Stage, rstVars
<1>2. /\ has'[t] = NoOp /\ (\A u \in Threads : u # t => has'[u] = has[u])
      /\ id' = id
  BY <1>1, Release DEF WaitEnds, Forget
<1>3. Succeeded(t) => did[has[t]] /\ ~InFlight(has[t])
  BY <1>1 DEF Succeeded, AnswerInd, AnswerTrue, AnswerNotEarly, Waiting
<1> QED  BY <1>1, <1>2, <1>3, FinishReset

LEMMA RstPutReset ==
  ASSUME OneResetter, PoolInd, PoolInd', AnswerInd, ResetInd, NEW t \in Resetters, RstPut(t)
  PROVE  ResetInd'
<1>1. /\ t \in Threads /\ t \notin Callers /\ pc[t] \in ResetOps /\ has[t] = NoOp
      /\ UNCHANGED <<wmtd, rstOn, chip, before>> /\ (\A u \in Resetters : u = t)
  BY Consts DEF RstPut, OneResetter, rstVars
<1>2. ASSUME Usable # {}, Acquires(t, NextOp), Enqueue(NextOp, pc[t], TRUE),
             pc' = pc, try' = try
      PROVE  ResetInd'
  <2> DEFINE o == NextOp
  <2>1. o \in Ops /\ ~InFlight(o) /\ (\A u \in Threads : has[u] # o)
    BY <1>2, FreshOp
  <2>2. has'[t] = o /\ (\A u \in Threads : u # t => has'[u] = has[u])
    BY <1>1, <1>2, Acquire
  <2>3. id'[o] = pc[t] /\ did' = did /\ ~did[o] /\ \A p \in Ops : p # o => id'[p] = id[p]
    BY <1>2, <2>1 DEF Enqueue, PoolInd, Types, OpType, AnswerInd, DidOwned
  <2>4. Queued' = Queued \cup {o} /\ \A p : InFlight(p)' <=> InFlight(p) \/ p = o
    BY <1>1, <1>2, <2>1, Queues DEF Enqueue
  <2> HIDE DEF o
  <2>5. \A p : Pending(p)' <=> Pending(p) \/ p = o
    BY <1>1, <2>4 DEF Pending
  <2>6. RstOn' /\ OwnId'
    BY <1>1, <1>2, <2>2, <2>3 DEF ResetInd, RstOn, OwnId, Active
  <2>7. OnlyReset'
    <3>1. wmtd.at # "idle" => wmtd.op \in Ops /\ wmtd.op # o
      BY <2>1 DEF PoolInd, Types, WmtdType, WmtdBusy, InFlight
    <3> QED  BY <1>1, <2>3, <3>1 DEF ResetInd, OnlyReset
  <2>8. Tries'
    <3>1. Queued \subseteq Ops
      BY ElementOfSeq, LenProperties DEF Queued, ToSet, PoolInd, Types, QueueType
    <3>2. pc[t] \in {"GPIO", "HW_RST"} => QueueBut(has[t])'
      BY <1>1, <2>1, <2>2, <2>3, <2>4, <3>1, Consts DEF ResetInd, Tries, QueueBut
    <3>3. pc[t] = "SW_RST" => Quiet /\ chip = "HW_RST"
      BY <1>1 DEF ResetInd, Tries
    <3>4. Quiet => PendBut(has[t])'
      BY <2>2, <2>3, <2>5 DEF Quiet, PendBut
    <3> QED  BY <1>1, <1>2, <2>1, <2>2, <2>3, <3>2, <3>3, <3>4, Consts DEF Tries, ResetOps
  <2>9. Before'
    <3>1. \A c \in before : c \in Threads /\ c # t /\ pc'[c] = "wait" /\ has'[c] = has[c]
                            /\ has[c] # o
      BY <1>1, <1>2, <2>1, <2>2, Consts DEF ResetInd, Before, PoolInd, Types, RstType
    <3>2. HwDone(t)' <=> HwDone(t)
      BY <1>2 DEF HwDone
    <3>3. \A c \in before : InFlight(has[c])' => InFlight(has[c])
      BY <1>1, <2>4, <3>1 DEF InFlight
    <3> QED  BY <1>1, <1>2, <2>2, <2>4, <3>1, <3>2, <3>3 DEF ResetInd, Before
  <2> QED  BY <2>6, <2>7, <2>8, <2>9 DEF ResetInd
<1>3. ASSUME Finished(t, FALSE), UNCHANGED <<free, active, opVars, has>> PROVE ResetInd'
  BY <1>1, <1>3, FinishReset DEF opVars
<1> QED  BY <1>2, <1>3 DEF RstPut, Acquires

LEMMA EndReset ==
  ASSUME OneResetter, PoolInd, PoolInd', ResetInd, NEW t \in Resetters, RstEnd(t) \/ RstLeave(t)
  PROVE  ResetInd'
<1>1. /\ UNCHANGED <<active, has, id, did, wmtd, chip>> /\ (\A u \in Resetters : u = t)
      /\ has[t] = NoOp /\ t \in Threads /\ t \notin Callers /\ rstOn' = FALSE
      /\ before' = {} \/ before' = before
  BY Consts DEF OneResetter, RstEnd, RstLeave, opVars, PoolInd, Stage, ResetOps
<1>2. PICK s \in {"leave", "idle"} : pc' = [pc EXCEPT ![t] = s]
  BY DEF RstEnd, RstLeave, Goto
<1>3. pc'[t] = s /\ \A u \in Threads : u # t => pc'[u] = pc[u]
  BY <1>1, <1>2 DEF PoolInd, Types, ThreadType
<1>4. RstOn' /\ OwnId' /\ OnlyReset' /\ Tries'
  BY <1>1, <1>3 DEF RstOn, OwnId, OnlyReset, Tries, Active, Trying, ResetOps
<1>5. Before'
  <2>1. \A c \in before' : pc'[c] = "wait"
    BY <1>1, <1>3, Consts DEF ResetInd, Before, PoolInd, Types, RstType
  <2> QED  BY <1>1, <1>3, <2>1 DEF Before, ResetOps, HwDone
<1> QED  BY <1>4, <1>5 DEF ResetInd

LEMMA ResetStutters == ASSUME PoolInd, PoolInd', ResetInd, UNCHANGED vars PROVE ResetInd'
<1>1. UNCHANGED <<active, has, pc, try, id, did, wmtd, rstOn, chip, before>>
  BY DEF vars, opVars, ctxVars, rstVars
<1>2. RstStays /\ NoNewRst
  BY <1>1 DEF RstStays, NoNewRst, Pending, Queued
<1>3. OnlyReset'
  BY <1>1 DEF ResetInd, OnlyReset
<1>4. Before'
  BY <1>1, <1>2, BeforeFrame DEF Queued
<1> QED  BY <1>1, <1>2, <1>3, <1>4, TriesFrame DEF ResetInd

LEMMA ResetSteps ==
  ASSUME OneResetter
  PROVE  PoolInd /\ PoolInd' /\ AnswerInd /\ ResetInd /\ [Next]_vars => ResetInd'
  BY ResetStutters, CallerReset, PsmdReset, TakeReset, WmtdReset, ExecuteReset, EnterReset,
     DrainReset, DrainedReset, RstPutReset, RstReturnReset, EndReset
     DEF Next, WmtdStep, RstStep

LEMMA ResetAlways == ASSUME OneResetter PROVE Spec => []ResetInd
<1>1. PoolInd /\ PoolInd' /\ AnswerInd /\ ResetInd /\ [Next]_vars => ResetInd'
  BY ResetSteps
<1> QED  BY <1>1, ResetStarts, PoolAlways, AnswerAlways, PTL DEF Spec

\* With one resetter: from a reset's HW_RST to its end wmtd executes only ops of
\* a reset, whatever was queued, current or put meanwhile.  (With two it is not
\* so: the one that is turned away clears WMT_STAT_RST_ON.)
THEOREM ResetAlone == ASSUME OneResetter PROVE Spec => []OnlyResetOps
<1>1. ResetInd => OnlyResetOps
  BY DEF ResetInd, RstOn, OnlyReset, OnlyResetOps, Active, Resetting, Trying
<1> QED  BY <1>1, ResetAlways, PTL

\* With one resetter: a reset that reports success has executed HW_RST and then
\* SW_RST, and no late op of an earlier try or reset came after them.
THEOREM ResetIsReal == ASSUME OneResetter PROVE Spec => []EndMeansReset
<1>1. ResetInd => EndMeansReset
  BY DEF ResetInd, Tries, EndMeansReset
<1> QED  BY <1>1, ResetAlways, PTL

\* With one resetter: when its HW_RST is done every call that waited when the
\* reset began has its answer.
THEOREM ResetWakes == ASSUME OneResetter PROVE Spec => []ResetWakesAll
<1>1. PoolInd /\ AnswerInd /\ ResetInd => ResetWakesAll
  <2> SUFFICES ASSUME PoolInd, AnswerInd, ResetInd, NEW t \in Resetters, HwDone(t), NEW c \in before
               PROVE  sig[has[c]]
    BY DEF ResetWakesAll
  <2>1. c \in Threads /\ Waiting(c) /\ ~InFlight(has[c])
    BY Consts DEF ResetInd, Before, PoolInd, Types, RstType, Stage, Waiting
  <2> QED  BY <2>1 DEF AnswerInd, Attended
<1> QED  BY <1>1, ResetAlways, PoolAlways, AnswerAlways, PTL
=============================================================================
