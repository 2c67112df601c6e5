-------------------------- MODULE StdoutLoggerProofs --------------------------
(***************************************************************************)
(* Proofs about StdoutLogger, for any number of threads and messages: the  *)
(* queue, the mutex and the threads implement LogQueue.                    *)
(***************************************************************************)
EXTENDS StdoutLogger, SequenceTheorems, TLAPS

\* Where the writers are: all others are gone when the main thread ends the logger,
\* whose thread it waits for.
WritersEnd ==
  /\ DOMAIN writer = Writers /\ done \in BOOLEAN
  /\ done <=> writer[Main] \in {"finishing", "joining", "gone"}
  /\ done => \A w \in Writers \ {Main} : writer[w] = "gone"
  /\ writer[Main] = "gone" => thread = "ended"

\* Every message pushed is printed, in the thread's hand or in the queue, where
\* they follow one another, and the thread ends with none left.
InSequence ==
  /\ logged \in Nat /\ printed \in Seq(Nat) /\ queue \in Seq(Nat)
  /\ holding = IF thread = "printing" THEN <<Len(printed) + 1>> ELSE <<>>
  /\ Len(printed) + Len(holding) + Len(queue) = logged
  /\ \A i \in 1 .. Len(queue) : queue[i] = Len(printed) + Len(holding) + i
  /\ thread = "ended" => done /\ queue = <<>>

InOrder == WritersEnd /\ InSequence

\* At first nothing is logged, and LogQueue is empty.
LEMMA InOrderInit == Main \in Writers /\ Init => InOrder /\ Q!Init
<1> SUFFICES ASSUME Main \in Writers, Init PROVE InOrder /\ Q!Init
  OBVIOUS
<1>1. WritersEnd
  BY DEF Init, WritersEnd
<1>2. queue = <<>> /\ <<>> \in Seq(Nat) /\ Len(<<>>) = 0
  BY EmptySeq DEF Init
<1>3. InSequence
  BY <1>2 DEF Init, InSequence
<1>4. Q!Init
  BY DEF Init, Q!Init
<1> QED
  BY <1>1, <1>3, <1>4 DEF InOrder

\* A push at a time when nobody has ended the logger is an Accept.
LEMMA PushAccepts ==
  ASSUME Main \in Writers, InOrder, NEW w \in Writers, Push(w)
  PROVE  InOrder' /\ Q!Accept
<1>1. /\ writer[w] = "idle" /\ logged' = logged + 1 /\ queue' = Append(queue, logged + 1)
      /\ writer' = [writer EXCEPT ![w] = "notifying"]
      /\ UNCHANGED <<printed, holding, done, lock, thread>>
  BY DEF Push
<1>2. ~done /\ thread # "ended"
  BY <1>1 DEF InOrder, WritersEnd, InSequence
<1>3. WritersEnd'
  BY <1>1, <1>2 DEF InOrder, WritersEnd
<1>4. /\ queue' \in Seq(Nat) /\ Len(queue') = Len(queue) + 1
      /\ \A i \in 1 .. Len(queue) : queue'[i] = queue[i]
      /\ queue'[Len(queue) + 1] = logged + 1
  BY <1>1, AppendProperties DEF InOrder, InSequence
<1>5. /\ Len(printed) \in Nat /\ Len(holding) \in Nat /\ Len(queue) \in Nat
  BY LenProperties DEF InOrder, InSequence
<1>6. InSequence'
  <2>1. /\ logged = Len(printed) + Len(holding) + Len(queue) /\ printed \in Seq(Nat)
        /\ \A i \in 1 .. Len(queue) : queue[i] = Len(printed) + Len(holding) + i
        /\ holding = IF thread = "printing" THEN <<Len(printed) + 1>> ELSE <<>>
    BY DEF InOrder, InSequence
  <2>2. logged = Len(printed) + Len(holding) + Len(queue) /\ logged \in Nat
    BY DEF InOrder, InSequence
  <2>3. ASSUME NEW i \in 1 .. Len(queue) + 1
        PROVE  queue'[i] = Len(printed) + Len(holding) + i
    <3>1. CASE i = Len(queue) + 1
      <4>1. queue'[i] = logged + 1
        BY <1>4, <3>1
      <4>2. logged + 1 = Len(printed) + Len(holding) + i
        BY <1>5, <2>2, <3>1
      <4> QED
        BY <4>1, <4>2
    <3>2. CASE i \in 1 .. Len(queue)
      BY <1>4, <2>1, <3>2
    <3> QED
      BY <1>5, <3>1, <3>2
  <2>4. \A i \in 1 .. Len(queue') : queue'[i] = Len(printed') + Len(holding') + i
    BY <1>1, <1>4, <2>3
  <2>5. logged' \in Nat /\ logged' = Len(printed') + Len(holding') + Len(queue')
    BY <1>1, <1>4, <1>5, <2>2
  <2> QED
    BY <1>1, <1>2, <1>4, <2>1, <2>4, <2>5 DEF InSequence
<1>7. Q!Accept
  BY <1>1, <1>2, <1>3 DEF InOrder, WritersEnd, Q!Accept
<1> QED
  BY <1>3, <1>6, <1>7 DEF InOrder

\* Taking the front of the queue is no step of the abstract one.
LEMMA PopStutters ==
  ASSUME InOrder, Pop
  PROVE  InOrder' /\ UNCHANGED Q!vars
<1>1. /\ thread = "drain" /\ queue # <<>> /\ holding' = <<Head(queue)>> /\ queue' = Tail(queue)
      /\ thread' = "printing" /\ UNCHANGED <<printed, logged, done, writer>>
  BY DEF Pop
<1>2. holding = <<>> /\ Len(holding) = 0 /\ Len(printed) \in Nat
  BY <1>1, LenProperties DEF InOrder, InSequence
<1>0. queue \in Seq(Nat)
  BY DEF InOrder, InSequence
<1>3. /\ queue' \in Seq(Nat) /\ Len(queue) \in Nat \ {0} /\ Len(queue') = Len(queue) - 1
      /\ \A i \in 1 .. Len(queue') : queue'[i] = queue[i + 1]
      /\ Head(queue) = queue[1]
  <2>1. Len(queue) \in Nat /\ Len(queue) # 0 /\ Head(queue) = queue[1]
    BY <1>0, <1>1
  <2> QED
    BY <1>0, <1>1, <2>1, HeadTailProperties
<1>4. holding' = <<Len(printed) + 1>> /\ Len(holding') = 1
  BY <1>1, <1>2, <1>3 DEF InOrder, InSequence
<1>5. InSequence'
  <2>0. /\ logged = Len(printed) + Len(queue) /\ printed \in Seq(Nat) /\ logged \in Nat
        /\ \A i \in 1 .. Len(queue) : queue[i] = Len(printed) + i
    BY <1>2 DEF InOrder, InSequence
  <2>1. ASSUME NEW i \in 1 .. Len(queue')
        PROVE  queue'[i] = Len(printed') + Len(holding') + i
    <3>1. i + 1 \in 1 .. Len(queue) /\ i \in Nat
      BY <1>3
    <3>2. queue'[i] = Len(printed) + (i + 1)
      BY <1>3, <2>0, <3>1
    <3> QED
      BY <1>1, <1>2, <1>4, <3>1, <3>2
  <2>2. logged' = Len(printed') + Len(holding') + Len(queue')
    BY <1>1, <1>2, <1>3, <1>4, <2>0
  <2> QED
    BY <1>1, <1>3, <1>4, <2>0, <2>1, <2>2 DEF InSequence
<1>6. WritersEnd'
  BY <1>1 DEF InOrder, WritersEnd
<1> QED
  BY <1>1, <1>5, <1>6 DEF InOrder, Q!vars

\* Printing the message in the thread's hand is an Emit.
LEMMA WriteEmits ==
  ASSUME InOrder, Write
  PROVE  InOrder' /\ Q!Emit
<1>1. /\ thread = "printing" /\ printed' = printed \o holding /\ holding' = <<>>
      /\ thread' = "drain" /\ UNCHANGED <<queue, logged, done, writer>>
  BY DEF Write
<1>2. holding = <<Len(printed) + 1>> /\ Len(holding) = 1 /\ printed \in Seq(Nat)
  BY <1>1 DEF InOrder, InSequence
<1>3. Len(printed) \in Nat /\ Len(queue) \in Nat
  BY LenProperties DEF InOrder, InSequence
<1>4. printed' = Append(printed, Len(printed) + 1)
  BY <1>1, <1>2, <1>3
<1>5. printed' \in Seq(Nat) /\ Len(printed') = Len(printed) + 1
  BY <1>2, <1>3, <1>4, AppendProperties
<1>6. InSequence'
  BY <1>1, <1>2, <1>3, <1>5 DEF InOrder, InSequence
<1>7. WritersEnd'
  BY <1>1 DEF InOrder, WritersEnd
<1>8. Q!Emit
  BY <1>1, <1>2, <1>3, <1>4 DEF InOrder, InSequence, Q!Emit
<1> QED
  BY <1>6, <1>7, <1>8 DEF InOrder

\* A step that leaves the messages where they are.
LEMMA ThreadStutters ==
  ASSUME InOrder, UNCHANGED <<queue, printed, holding, logged, done, writer>>,
         thread # "printing", thread' # "printing", thread # "ended",
         thread' = "ended" => done /\ queue = <<>>
  PROVE  InOrder' /\ UNCHANGED Q!vars
  BY DEF InOrder, WritersEnd, InSequence, Q!vars

\* A writer's step other than a push, and the destructor's.
LEMMA WriterStutters ==
  ASSUME Main \in Writers, InOrder, UNCHANGED <<queue, printed, holding, logged>>,
         thread' = thread \/ (thread = "asleep" /\ thread' = "woken"),
         done => done', WritersEnd'
  PROVE  InOrder'
  BY DEF InOrder, InSequence

\* Every step keeps the messages in order, and is one of LogQueue or none.
LEMMA InOrderStep ==
  ASSUME Main \in Writers, InOrder, [Next]_vars
  PROVE  InOrder' /\ [Q!Next]_Q!vars
<1>1. ASSUME NEW w \in Writers, Push(w) PROVE InOrder' /\ Q!Next
  BY <1>1, PushAccepts DEF Q!Next
<1>2. ASSUME NEW w \in Writers, NotifyPushed(w) PROVE InOrder' /\ UNCHANGED Q!vars
  <2>1. WritersEnd' /\ (writer[Main] = "gone" <=> writer'[Main] = "gone")
    BY <1>2 DEF NotifyPushed, Notify, InOrder, WritersEnd
  <2> QED
    BY <1>2, <2>1, WriterStutters DEF NotifyPushed, Notify, Q!vars
<1>3. ASSUME NEW w \in Writers, Joined(w) PROVE InOrder' /\ UNCHANGED Q!vars
  <2>1. WritersEnd' /\ (writer[Main] = "gone" <=> writer'[Main] = "gone")
    BY <1>3 DEF Joined, InOrder, WritersEnd
  <2> QED
    BY <1>3, <2>1, WriterStutters DEF Joined, Q!vars
<1>4. CASE SetDone
  <2>1. WritersEnd' /\ writer[Main] # "gone" /\ writer'[Main] # "gone"
    BY <1>4 DEF SetDone, InOrder, WritersEnd
  <2> QED
    BY <1>4, <2>1, WriterStutters DEF SetDone, Q!vars
<1>5. CASE NotifyDone
  <2>1. WritersEnd' /\ writer[Main] # "gone" /\ writer'[Main] # "gone"
    BY <1>5 DEF NotifyDone, Notify, InOrder, WritersEnd
  <2> QED
    BY <1>5, <2>1, WriterStutters DEF NotifyDone, Notify, Q!vars
<1>6. CASE Join
  <2>1. WritersEnd' /\ writer[Main] # "gone" /\ writer'[Main] = "gone"
    BY <1>6 DEF Join, InOrder, WritersEnd
  <2>2. Len(printed) = logged
    BY <1>6, LenProperties DEF Join, InOrder, InSequence
  <2> QED
    BY <1>6, <2>1, <2>2, WriterStutters DEF Join, Q!Next, Q!Close
<1>7. CASE Pop
  BY <1>7, PopStutters
<1>8. CASE Write
  BY <1>8, WriteEmits DEF Q!Next
<1>9. CASE Start \/ Predicate \/ Sleep \/ Drained \/ Awake
  BY <1>9, ThreadStutters DEF Start, Predicate, Sleep, Drained, Awake, Goes
<1>10. CASE Loop
  BY <1>10, ThreadStutters DEF Loop, Goes
<1>11. CASE UNCHANGED vars
  BY <1>11 DEF vars, InOrder, WritersEnd, InSequence, Q!vars
<1> QED
  BY <1>1, <1>2, <1>3, <1>4, <1>5, <1>6, <1>7, <1>8, <1>9, <1>10, <1>11
  DEF Next, Writer, LoggerThread, SpuriousWakeup

\* The logger implements the queue, for any number of threads that log and of
\* messages: each is printed once, in the order in which Log pushed them, and all
\* of them before the destructor returns.  It is the safety of ImplementsQueue.
THEOREM QueueImplemented ==
  ASSUME Main \in Writers
  PROVE  Spec => Q!Spec
  BY InOrderInit, InOrderStep, PTL DEF Spec, Q!Spec
=============================================================================
