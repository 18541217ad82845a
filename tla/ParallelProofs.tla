---------------------------- MODULE ParallelProofs ----------------------------
(***************************************************************************)
(* For any number of calls and of processes, any output, any size of the   *)
(* results and of the pipes: the parallel run never reports that results   *)
(* are missing, and implements ParallelRun.                                *)
(***************************************************************************)
EXTENDS ParallelCalls, FiniteSetTheorems, TLAPS

\* Some piece k of the message of w is in the queue.
Holds(w, k) == \E i \in 1 .. Len(queue) : queue[i] = <<w, k>>

\* The queue holds what has been sent and not received, each message in its order.
QueueInv ==
  /\ \A w \in Workers, k \in Nat : got[w] < k /\ k <= sent[w] => Holds(w, k)
  /\ \A w \in Workers, k \in Nat : Holds(w, k) => got[w] < k /\ k <= sent[w]
  /\ \A w \in Workers, k, l \in Nat, i, j \in 1 .. Len(queue) :
       i < j /\ queue[i] = <<w, k>> /\ queue[j] = <<w, l>> => k < l

\* How far a worker is tells what it has sent; what has been received completely
\* is in ret_data and nothing else.
Message(w) ==
  /\ got[w] <= sent[w] /\ sent[w] <= Size[w]
  /\ wpc[w] \in {"idle", "running", "put", "raised", "failed"} => sent[w] = 0
  /\ wpc[w] = "send" => sent[w] < Size[w]
  /\ wpc[w] \in {"flush", "exited"} => sent[w] = Size[w]
  /\ w \in ret_data <=> got[w] = Size[w]

MessageInv == \A w \in Workers : Message(w)

\* Where the parent is, and what it knows of the workers it has started.
ControlInv ==
  /\ \A w \in Workers : w > started <=> wpc[w] = "idle"
  /\ \A w \in Workers : w \in active \/ wpc[w] \in {"idle", "exited"}
  /\ pc = "collect" => active = {} /\ started = N
  /\ pc = "returned" => ret_data = Workers
  /\ pc \in {"join", "exited"} <=> error # "none"
  /\ error = "exitcode" => \E w \in Workers : wpc[w] = "failed"
  /\ error # "fewer"

IInv == TypeOK /\ QueueInv /\ MessageInv /\ ControlInv

--------------------------------------------------------------------------------
\* The workers are the numbers from 1 to N, and there is no other.
LEMMA WorkerNumbers == Workers = 1 .. N /\ 1 .. N \subseteq Nat
BY DEF Workers

\* Every message has at least one piece.
LEMMA SizePositive == \A w \in Workers : Size[w] \in Nat /\ Size[w] > 0
BY CallsAssumption

\* Nothing has been sent at the beginning.
LEMMA InitInv == ASSUME Init PROVE IInv
<1> USE CallsAssumption DEF Init
<1>1. TypeOK
  <2>1. queue \in Seq(Workers \X Nat) /\ Len(queue) = 0
    OBVIOUS
  <2>2. Len(queue) <= QUEUE /\ started \in 0 .. N /\ active \subseteq 1 .. started
    BY <2>1
  <2> QED  BY <2>1, <2>2 DEF TypeOK
<1>2. QueueInv
  <2>1. Len(queue) = 0 /\ \A w \in Workers : sent[w] = 0 /\ got[w] = 0
    OBVIOUS
  <2> QED  BY <2>1 DEF QueueInv, Holds
<1>3. MessageInv  BY DEF MessageInv, Message
<1>4. ControlInv  BY DEF ControlInv, Workers
<1> QED  BY <1>1, <1>2, <1>3, <1>4 DEF IInv

--------------------------------------------------------------------------------
(* Steps of a worker. *)

\* Steps that leave the queue and the messages alone keep QueueInv.
LEMMA QueueUnchanged ==
  ASSUME QueueInv, UNCHANGED <<queue, sent, got>> PROVE QueueInv'
BY DEF QueueInv, Holds

\* Output, and the steps between two messages, disturb nothing.
LEMMA PrintOutInv == ASSUME IInv, NEW w \in Workers, PrintOut(w) PROVE IInv'
<1>1. TypeOK'  BY DEF IInv, TypeOK, PrintOut, Write
<1>2. QueueInv'  BY QueueUnchanged DEF IInv, PrintOut
<1>3. MessageInv'  BY DEF IInv, MessageInv, Message, PrintOut
<1>4. ControlInv'  BY DEF IInv, ControlInv, PrintOut
<1> QED  BY <1>1, <1>2, <1>3, <1>4 DEF IInv

LEMMA FuncReturnsInv == ASSUME IInv, NEW w \in Workers, FuncReturns(w) PROVE IInv'
<1>1. TypeOK'  BY DEF IInv, TypeOK, FuncReturns
<1>2. QueueInv'  BY QueueUnchanged DEF IInv, FuncReturns
<1>3. MessageInv'  BY DEF IInv, TypeOK, MessageInv, Message, FuncReturns
<1>4. ControlInv'  BY DEF IInv, TypeOK, ControlInv, FuncReturns, Workers
<1> QED  BY <1>1, <1>2, <1>3, <1>4 DEF IInv

LEMMA FuncRaisesInv == ASSUME IInv, NEW w \in Workers, FuncRaises(w) PROVE IInv'
<1>1. TypeOK'  BY DEF IInv, TypeOK, FuncRaises
<1>2. QueueInv'  BY QueueUnchanged DEF IInv, FuncRaises
<1>3. MessageInv'  BY DEF IInv, TypeOK, MessageInv, Message, FuncRaises
<1>4. ControlInv'  BY DEF IInv, TypeOK, ControlInv, FuncRaises, Workers
<1> QED  BY <1>1, <1>2, <1>3, <1>4 DEF IInv

LEMMA LockQueueInv == ASSUME IInv, NEW w \in Workers, LockQueue(w) PROVE IInv'
<1>1. TypeOK'  BY DEF IInv, TypeOK, LockQueue
<1>2. QueueInv'  BY QueueUnchanged DEF IInv, LockQueue
<1>3. MessageInv'  BY SizePositive DEF IInv, TypeOK, MessageInv, Message, LockQueue
<1>4. ControlInv'  BY DEF IInv, TypeOK, ControlInv, LockQueue, Workers
<1> QED  BY <1>1, <1>2, <1>3, <1>4 DEF IInv

LEMMA FlushInv == ASSUME IInv, NEW w \in Workers, Flush(w) PROVE IInv'
<1>1. TypeOK'
  <2>1. CASE Write(w) /\ UNCHANGED wpc
    BY <2>1 DEF IInv, TypeOK, Flush, Write
  <2>2. CASE /\ wpc' = [wpc EXCEPT ![w] = IF @ = "flush" THEN "exited" ELSE "failed"]
             /\ UNCHANGED written
    BY <2>2 DEF IInv, TypeOK, Flush
  <2> QED  BY <2>1, <2>2 DEF Flush
<1>2. QueueInv'  BY QueueUnchanged DEF IInv, Flush
<1>3. MessageInv'  BY DEF IInv, TypeOK, MessageInv, Message, Flush
<1>4. ControlInv'
  <2>1. CASE UNCHANGED wpc
    BY <2>1 DEF IInv, TypeOK, ControlInv, Flush, Workers
  <2>2. CASE wpc' = [wpc EXCEPT ![w] = IF @ = "flush" THEN "exited" ELSE "failed"]
    BY <2>2 DEF IInv, TypeOK, ControlInv, Flush, Workers
  <2> QED  BY <2>1, <2>2 DEF Flush
<1> QED  BY <1>1, <1>2, <1>3, <1>4 DEF IInv

\* A piece that is sent is the next of its message, and behind all others.
LEMMA SendPieceInv == ASSUME IInv, NEW w \in Workers, SendPiece(w) PROVE IInv'
<1>1. sent[w] \in Nat /\ sent[w] < Size[w] /\ got[w] \in Nat /\ got[w] <= sent[w]
  BY DEF IInv, TypeOK, MessageInv, Message, SendPiece
<1>2. /\ queue \in Seq(Workers \X Nat) /\ queue' = Append(queue, <<w, sent[w] + 1>>)
      /\ sent' = [sent EXCEPT ![w] = @ + 1] /\ UNCHANGED got
  BY DEF IInv, TypeOK, SendPiece
<1>3. /\ Len(queue') = Len(queue) + 1
      /\ \A i \in 1 .. Len(queue) : queue'[i] = queue[i]
      /\ queue'[Len(queue) + 1] = <<w, sent[w] + 1>>
      /\ Len(queue) \in Nat
      /\ \A i \in 1 .. Len(queue) : queue[i] \in Workers \X Nat
  BY <1>1, <1>2
<1>4. TypeOK'
  <2>1. queue' \in Seq(Workers \X Nat) /\ Len(queue') <= QUEUE
    BY <1>1, <1>2, <1>3, CallsAssumption DEF SendPiece
  <2>2. sent' \in [Workers -> Nat]
    BY <1>1, <1>2 DEF IInv, TypeOK
  <2> QED  BY <2>1, <2>2 DEF IInv, TypeOK, SendPiece
<1>5. QueueInv'
  <2>1. \A v \in Workers : sent'[v] = IF v = w THEN sent[w] + 1 ELSE sent[v]
    BY <1>2 DEF IInv, TypeOK
  <2>2. ASSUME NEW v \in Workers, NEW k \in Nat, got'[v] < k, k <= sent'[v] PROVE Holds(v, k)'
    <3>1. CASE k <= sent[v]
      <4>1. PICK i \in 1 .. Len(queue) : queue[i] = <<v, k>>
        BY <2>2, <3>1, <1>2 DEF IInv, QueueInv, Holds
      <4>2. i \in 1 .. Len(queue') /\ queue'[i] = <<v, k>>
        BY <4>1, <1>3
      <4> QED  BY <4>2 DEF Holds
    <3>2. CASE ~ (k <= sent[v])
      <4>1. v = w /\ k = sent[w] + 1
        BY <2>1, <2>2, <3>2, <1>1 DEF IInv, TypeOK
      <4>2. Len(queue) + 1 \in 1 .. Len(queue') /\ queue'[Len(queue) + 1] = <<v, k>>
        BY <4>1, <1>3
      <4> QED  BY <4>2 DEF Holds
    <3> QED  BY <3>1, <3>2
  <2>3. ASSUME NEW v \in Workers, NEW k \in Nat, NEW i \in 1 .. Len(queue'), queue'[i] = <<v, k>>
        PROVE  got'[v] < k /\ k <= sent'[v]
    <3>1. CASE i = Len(queue) + 1
      BY <2>3, <3>1, <1>1, <1>2, <1>3, <2>1
    <3>2. CASE i \in 1 .. Len(queue)
      <4>1. got[v] < k /\ k <= sent[v]
        BY <2>3, <3>2, <1>3 DEF IInv, QueueInv, Holds
      <4> QED  BY <4>1, <2>1, <1>1, <1>2 DEF IInv, TypeOK
    <3> QED  BY <3>1, <3>2, <1>3
  <2>4. ASSUME NEW v \in Workers, NEW k \in Nat, NEW l \in Nat,
               NEW i \in 1 .. Len(queue'), NEW j \in 1 .. Len(queue'),
               i < j, queue'[i] = <<v, k>>, queue'[j] = <<v, l>>
        PROVE  k < l
    <3>1. i \in 1 .. Len(queue) /\ queue[i] = <<v, k>>
      BY <2>4, <1>3
    <3>2. CASE j = Len(queue) + 1
      <4>1. v = w /\ l = sent[w] + 1
        BY <3>2, <2>4, <1>3
      <4>2. k <= sent[w]
        BY <3>1, <4>1 DEF IInv, QueueInv, Holds
      <4> QED  BY <4>1, <4>2, <1>1
    <3>3. CASE j \in 1 .. Len(queue)
      <4>1. queue[j] = <<v, l>>
        BY <3>3, <2>4, <1>3
      <4> QED  BY <3>1, <3>3, <4>1, <2>4 DEF IInv, QueueInv
    <3> QED  BY <3>2, <3>3, <1>3
  <2> QED  BY <2>2, <2>3, <2>4 DEF QueueInv, Holds
<1>6. MessageInv'
  <2> SUFFICES ASSUME NEW v \in Workers PROVE Message(v)'
    BY DEF MessageInv, Message
  <2>1. CASE v = w
    BY <2>1, <1>1, <1>2, SizePositive DEF IInv, TypeOK, MessageInv, Message, SendPiece
  <2>2. CASE v # w
    BY <2>2, <1>1, <1>2 DEF IInv, TypeOK, MessageInv, Message, SendPiece
  <2> QED  BY <2>1, <2>2
<1>7. ControlInv'
  BY DEF IInv, TypeOK, ControlInv, SendPiece, Workers
<1> QED  BY <1>4, <1>5, <1>6, <1>7 DEF IInv

\* Every step of a worker keeps the invariant.
LEMMA WorkerInv == ASSUME IInv, NEW w \in Workers, Worker(w) PROVE IInv'
BY PrintOutInv, FuncReturnsInv, FuncRaisesInv, LockQueueInv, SendPieceInv, FlushInv
   DEF Worker

--------------------------------------------------------------------------------
(* Steps of the parent. *)

\* A new process is the first that is idle; the main loop is left only when all
\* have been started and have ended.
LEMMA StartInv == ASSUME IInv, Start PROVE IInv'
<1>1. CASE /\ started < N /\ started' = started + 1 /\ active' = active \cup {started + 1}
           /\ wpc' = [wpc EXCEPT ![started + 1] = "running"] /\ UNCHANGED <<pc, todo>>
  <2>1. started \in Nat /\ started + 1 \in Workers /\ started + 1 \in 1 .. started'
    BY <1>1, CallsAssumption DEF IInv, TypeOK, Workers
  <2>2. 1 .. started \subseteq 1 .. started'
    BY <1>1, <2>1
  <2>3. TypeOK'
    <3>1. started' \in 0 .. N /\ active' \subseteq 1 .. started' /\ todo' \subseteq active'
      BY <1>1, <2>1, <2>2, CallsAssumption DEF IInv, TypeOK
    <3>2. wpc' \in [Workers -> {"idle", "running", "put", "send", "flush", "exited",
                               "raised", "failed"}]
      BY <1>1, <2>1 DEF IInv, TypeOK
    <3> QED  BY <1>1, <3>1, <3>2 DEF IInv, TypeOK, Start
  <2>4. QueueInv'  BY QueueUnchanged DEF IInv, Start
  <2>5. wpc[started + 1] = "idle"
    BY <2>1 DEF IInv, ControlInv, Workers
  <2>6. MessageInv'
    BY <1>1, <2>1, <2>5 DEF IInv, TypeOK, MessageInv, Message, Start
  <2>7. ControlInv'
    BY <1>1, <2>1, <2>5 DEF IInv, TypeOK, ControlInv, Start, Workers
  <2> QED  BY <2>3, <2>4, <2>6, <2>7 DEF IInv
<1>2. CASE /\ started = N \/ Cardinality(active) >= MAX_PROCESSES
           /\ pc' = (IF active = {} THEN "collect" ELSE "poll")
           /\ todo' = active /\ UNCHANGED <<started, active, wpc>>
  <2>1. active = {} => started = N
    BY <1>2, FS_EmptySet, CallsAssumption
  <2>2. TypeOK'  BY <1>2 DEF IInv, TypeOK, Start
  <2>3. QueueInv'  BY QueueUnchanged DEF IInv, Start
  <2>4. MessageInv'  BY <1>2 DEF IInv, MessageInv, Message, Start
  <2>5. ControlInv'  BY <1>2, <2>1 DEF IInv, ControlInv, Start
  <2> QED  BY <2>2, <2>3, <2>4, <2>5 DEF IInv
<1> QED  BY <1>1, <1>2 DEF Start

LEMMA PollInv == ASSUME IInv, Poll PROVE IInv'
<1>1. TypeOK'  BY DEF IInv, TypeOK, Poll
<1>2. QueueInv'  BY QueueUnchanged DEF IInv, Poll
<1>3. MessageInv'  BY DEF IInv, MessageInv, Message, Poll
<1>4. ControlInv'  BY DEF IInv, ControlInv, Poll
<1> QED  BY <1>1, <1>2, <1>3, <1>4 DEF IInv

LEMMA ReadLineInv == ASSUME IInv, ReadLine PROVE IInv'
<1>1. TypeOK'
  <2>1. PICK w \in todo : \/ \E c \in LineEnds(w) : shown' = [shown EXCEPT ![w] = c] /\ read' = read
                          \/ shown' = shown /\ \E c \in read[w] + 1 .. written[w] :
                                                  read' = [read EXCEPT ![w] = c]
                          \/ shown' = [shown EXCEPT ![w] = read[w]] /\ read' = read
    BY DEF ReadLine
  <2>2. w \in Workers
    BY CallsAssumption DEF IInv, TypeOK, Workers
  <2>3. LineEnds(w) \subseteq Nat
    BY <2>2, CallsAssumption DEF LineEnds
  <2>4. /\ \A c \in LineEnds(w) : [shown EXCEPT ![w] = c] \in [Workers -> Nat]
        /\ \A c \in read[w] + 1 .. written[w] : [read EXCEPT ![w] = c] \in [Workers -> Nat]
        /\ [shown EXCEPT ![w] = read[w]] \in [Workers -> Nat]
    BY <2>2, <2>3 DEF IInv, TypeOK
  <2>5. shown \in [Workers -> Nat] /\ read \in [Workers -> Nat]
    BY DEF IInv, TypeOK
  <2>6. shown' \in [Workers -> Nat] /\ read' \in [Workers -> Nat]
    BY <2>1, <2>4, <2>5
  <2>7. todo' \subseteq active' /\ pc' \in {"readline", "poll"}
    BY DEF IInv, TypeOK, ReadLine
  <2> QED  BY <2>6, <2>7 DEF IInv, TypeOK, ReadLine
<1>2. QueueInv'  BY QueueUnchanged DEF IInv, ReadLine
<1>3. MessageInv'  BY DEF IInv, MessageInv, Message, ReadLine
<1>4. ControlInv'
  <2>1. pc = "readline" /\ pc' \in {"readline", "poll"}
    BY DEF ReadLine
  <2> QED  BY <2>1 DEF IInv, ControlInv, ReadLine
<1> QED  BY <1>1, <1>2, <1>3, <1>4 DEF IInv

LEMMA DrainInv == ASSUME IInv, Drain PROVE IInv'
<1>1. TypeOK'  BY DEF IInv, TypeOK, Drain
<1>2. QueueInv'  BY QueueUnchanged DEF IInv, Drain
<1>3. MessageInv'  BY DEF IInv, MessageInv, Message, Drain
<1>4. ControlInv'  BY DEF IInv, ControlInv, Drain
<1> QED  BY <1>1, <1>2, <1>3, <1>4 DEF IInv

LEMMA ReapInv == ASSUME IInv, Reap PROVE IInv'
<1>1. CASE \E w \in todo :
             /\ todo' = todo \ {w}
             /\ read' \in {read, [read EXCEPT ![w] = written[w]]}
             /\ shown' \in {shown, [shown EXCEPT ![w] = written[w]]}
             /\ \/ wpc[w] = "failed" /\ pc' = "join" /\ error' = "exitcode" /\ UNCHANGED active
                \/ /\ wpc[w] # "failed" /\ UNCHANGED <<pc, error>>
                   /\ active' = IF Ended(w) THEN active \ {w} ELSE active
  <2>1. PICK w \in todo :
             /\ todo' = todo \ {w}
             /\ read' \in {read, [read EXCEPT ![w] = written[w]]}
             /\ shown' \in {shown, [shown EXCEPT ![w] = written[w]]}
             /\ \/ wpc[w] = "failed" /\ pc' = "join" /\ error' = "exitcode" /\ UNCHANGED active
                \/ /\ wpc[w] # "failed" /\ UNCHANGED <<pc, error>>
                   /\ active' = IF Ended(w) THEN active \ {w} ELSE active
    BY <1>1
  <2>2. w \in Workers
    BY CallsAssumption DEF IInv, TypeOK, Workers
  <2>3. read' \in [Workers -> Nat] /\ shown' \in [Workers -> Nat]
    BY <2>1, <2>2 DEF IInv, TypeOK
  <2>4. TypeOK'  BY <2>1, <2>3 DEF IInv, TypeOK, Reap
  <2>5. QueueInv'  BY QueueUnchanged DEF IInv, Reap
  <2>6. MessageInv'  BY DEF IInv, MessageInv, Message, Reap
  <2>7. ControlInv'  BY <2>1, <2>2 DEF IInv, ControlInv, Reap, Ended
  <2> QED  BY <2>4, <2>5, <2>6, <2>7 DEF IInv
<1>2. CASE todo = {} /\ pc' = "start" /\ UNCHANGED <<todo, active, read, shown, error>>
  <2>1. TypeOK'  BY <1>2 DEF IInv, TypeOK, Reap
  <2>2. QueueInv'  BY QueueUnchanged DEF IInv, Reap
  <2>3. MessageInv'  BY DEF IInv, MessageInv, Message, Reap
  <2>4. ControlInv'  BY <1>2 DEF IInv, ControlInv, Reap
  <2> QED  BY <2>1, <2>2, <2>3, <2>4 DEF IInv
<1> QED  BY <1>1, <1>2 DEF Reap

\* A piece that is received is the next of its message.
LEMMA NextPiece ==
  ASSUME IInv, queue # <<>>
  PROVE  /\ Head(queue)[1] \in Workers
         /\ Head(queue) = <<Head(queue)[1], got[Head(queue)[1]] + 1>>
         /\ got[Head(queue)[1]] < sent[Head(queue)[1]]
<1>0. queue[1] \in Workers \X Nat /\ Head(queue) = queue[1] /\ 1 \in 1 .. Len(queue)
  BY DEF IInv, TypeOK
<1>1. PICK w \in Workers, k \in Nat : queue[1] = <<w, k>> /\ Head(queue) = <<w, k>>
                                      /\ 1 \in 1 .. Len(queue)
  BY <1>0
<1>2. got[w] < k /\ k <= sent[w] /\ got[w] \in Nat /\ sent[w] \in Nat
  BY <1>1 DEF IInv, TypeOK, QueueInv, Holds
<1>3. Holds(w, got[w] + 1)
  BY <1>2 DEF IInv, QueueInv
<1>4. PICK i \in 1 .. Len(queue) : queue[i] = <<w, got[w] + 1>>
  BY <1>3 DEF Holds
<1>5. ~ 1 < i
  <2> SUFFICES ASSUME 1 < i PROVE FALSE
    OBVIOUS
  <2>1. \A v \in Workers, a, b \in Nat, i1, i2 \in 1 .. Len(queue) :
          i1 < i2 /\ queue[i1] = <<v, a>> /\ queue[i2] = <<v, b>> => a < b
    BY DEF IInv, QueueInv
  <2>2. k < got[w] + 1
    BY <1>1, <1>2, <1>4, <2>1
  <2> QED  BY <1>2, <2>2
<1>6. i = 1
  BY <1>4, <1>5
<1> QED  BY <1>1, <1>2, <1>4, <1>6

LEMMA ReceiveInv == ASSUME IInv, Receive PROVE IInv'
<1> DEFINE w == Head(queue)[1]
<1>1. /\ w \in Workers /\ Head(queue) = <<w, got[w] + 1>> /\ got[w] < sent[w]
      /\ got[w] \in Nat /\ sent[w] \in Nat
  BY NextPiece DEF Receive, IInv, TypeOK
<1>2. /\ queue \in Seq(Workers \X Nat) /\ queue # <<>> /\ queue' = Tail(queue)
      /\ got' = [got EXCEPT ![w] = @ + 1] /\ UNCHANGED <<sent, wpc, started, active, error>>
      /\ pc = "receive"
      /\ \/ /\ got'[w] = Size[w] /\ ret_data' = ret_data \cup {w} /\ waited' = FALSE
            /\ pc' = IF started = N /\ active = {} THEN "collect" ELSE "drain"
         \/ got'[w] # Size[w] /\ UNCHANGED <<ret_data, pc, waited>>
  BY DEF IInv, TypeOK, Receive
<1>3. /\ Len(queue) \in Nat /\ Len(queue) > 0 /\ Len(queue') = Len(queue) - 1
      /\ \A i \in 1 .. Len(queue') : queue'[i] = queue[i + 1]
      /\ queue[1] = <<w, got[w] + 1>>
  BY <1>1, <1>2
<1> HIDE DEF w
<1>4. \A v \in Workers : got'[v] = IF v = w THEN got[w] + 1 ELSE got[v]
  BY <1>2 DEF IInv, TypeOK
<1>5. TypeOK'
  <2>1. queue' \in Seq(Workers \X Nat) /\ Len(queue') <= QUEUE
    BY <1>2, <1>3, CallsAssumption DEF IInv, TypeOK
  <2>2. got' \in [Workers -> Nat]
    <3>1. got' = [got EXCEPT ![w] = got[w] + 1]
      BY <1>2
    <3>2. got \in [Workers -> Nat] /\ got[w] + 1 \in Nat
      BY <1>1 DEF IInv, TypeOK
    <3> QED  BY <3>1, <3>2
  <2>3. ret_data' \subseteq Workers /\ pc' \in {"receive", "collect", "drain"} /\ waited' \in BOOLEAN
    BY <1>1, <1>2 DEF IInv, TypeOK, Receive
  <2> QED  BY <2>1, <2>2, <2>3 DEF IInv, TypeOK, Receive
<1>6. QueueInv'
  <2>1. ASSUME NEW v \in Workers, NEW k \in Nat, got'[v] < k, k <= sent'[v] PROVE Holds(v, k)'
    <3>1. got[v] < k /\ k <= sent[v] /\ ~ (v = w /\ k = got[w] + 1)
      <4>1. sent'[v] = sent[v] /\ got[v] \in Nat
        BY <1>2 DEF IInv, TypeOK
      <4>2. CASE v = w  BY <2>1, <4>1, <4>2, <1>4
      <4>3. CASE v # w  BY <2>1, <4>1, <4>3, <1>4
      <4> QED  BY <4>2, <4>3
    <3>2. PICK i \in 1 .. Len(queue) : queue[i] = <<v, k>>
      BY <3>1 DEF IInv, QueueInv, Holds
    <3>3. i # 1
      BY <3>1, <3>2, <1>3
    <3>4. i - 1 \in 1 .. Len(queue') /\ (i - 1) + 1 = i
      BY <3>3, <1>3
    <3>5. queue'[i - 1] = <<v, k>>
      BY <3>2, <3>4, <1>3
    <3> QED  BY <3>4, <3>5 DEF Holds
  <2>2. ASSUME NEW v \in Workers, NEW k \in Nat, NEW i \in 1 .. Len(queue'), queue'[i] = <<v, k>>
        PROVE  got'[v] < k /\ k <= sent'[v]
    <3>1. i + 1 \in 1 .. Len(queue) /\ queue[i + 1] = <<v, k>>
      BY <2>2, <1>3
    <3>2. got[v] < k /\ k <= sent[v]
      BY <3>1 DEF IInv, QueueInv, Holds
    <3>3. CASE v = w
      <4>1. got[w] + 1 \in Nat /\ 1 \in 1 .. Len(queue) /\ 1 < i + 1 /\ queue[1] = <<v, got[w] + 1>>
        BY <3>1, <3>3, <1>1, <1>3
      <4>2. got[w] + 1 < k
        BY <3>1, <4>1 DEF IInv, QueueInv
      <4> QED  BY <3>2, <3>3, <4>2, <1>2, <1>4
    <3>4. CASE v # w
      BY <3>2, <3>4, <1>2, <1>4
    <3> QED  BY <3>3, <3>4
  <2>3. ASSUME NEW v \in Workers, NEW k \in Nat, NEW l \in Nat,
               NEW i \in 1 .. Len(queue'), NEW j \in 1 .. Len(queue'),
               i < j, queue'[i] = <<v, k>>, queue'[j] = <<v, l>>
        PROVE  k < l
    <3>1. i + 1 \in 1 .. Len(queue) /\ j + 1 \in 1 .. Len(queue) /\ i + 1 < j + 1
      BY <2>3, <1>3
    <3>2. queue[i + 1] = <<v, k>> /\ queue[j + 1] = <<v, l>>
      BY <2>3, <1>3
    <3> QED  BY <3>1, <3>2 DEF IInv, QueueInv
  <2> QED  BY <2>1, <2>2, <2>3 DEF QueueInv, Holds
<1>7. MessageInv'
  <2> SUFFICES ASSUME NEW v \in Workers PROVE Message(v)'
    BY DEF MessageInv
  <2>1. CASE v = w
    <3>1. got'[w] = got[w] + 1 /\ sent[w] <= Size[w] /\ Size[w] \in Nat
      BY <1>1, <1>4, SizePositive DEF IInv, MessageInv, Message
    <3>2. w \in ret_data' <=> got'[w] = Size[w]
      BY <3>1, <1>1, <1>2 DEF IInv, MessageInv, Message
    <3> QED  BY <2>1, <3>1, <3>2, <1>1, <1>2 DEF IInv, MessageInv, Message
  <2>2. CASE v # w
    <3>1. v \in ret_data' <=> v \in ret_data
      BY <2>2, <1>2
    <3> QED  BY <2>2, <3>1, <1>2, <1>4 DEF IInv, MessageInv, Message
  <2> QED  BY <2>1, <2>2
<1>8. ControlInv'
  <2>1. /\ pc' \in {"receive", "collect", "drain"}
        /\ pc' = "collect" => active = {} /\ started = N
    BY <1>2 DEF Receive
  <2> QED  BY <2>1, <1>2 DEF IInv, ControlInv
<1> QED  BY <1>5, <1>6, <1>7, <1>8 DEF IInv

\* After the main loop every worker has ended without an error, so that a result
\* that is not in ret_data is in the queue.
LEMMA ResultInQueue ==
  ASSUME IInv, pc = "collect", NEW w \in Workers, w \notin ret_data
  PROVE  queue # <<>>
<1>1. wpc[w] = "exited"
  BY CallsAssumption DEF IInv, TypeOK, ControlInv, Workers
<1>2. sent[w] = Size[w] /\ got[w] # Size[w] /\ got[w] <= sent[w] /\ got[w] \in Nat /\ Size[w] \in Nat
  BY <1>1, SizePositive DEF IInv, TypeOK, MessageInv, Message
<1>3. Holds(w, Size[w])
  BY <1>2 DEF IInv, QueueInv
<1> QED  BY <1>3 DEF Holds

LEMMA CollectRestInv == ASSUME IInv, CollectRest PROVE IInv'
<1>1. pc = "collect" /\ UNCHANGED <<queue, sent, got, wpc, started, active, ret_data>>
  BY DEF CollectRest
<1>2. ret_data # Workers => queue # <<>>
  BY <1>1, ResultInQueue DEF IInv, TypeOK
<1>3. \/ ret_data = Workers /\ pc' = "returned" /\ UNCHANGED <<waited, error>>
      \/ pc' = "receive" /\ UNCHANGED <<waited, error>>
  BY <1>2 DEF CollectRest
<1>4. TypeOK'  BY <1>1, <1>3 DEF IInv, TypeOK, CollectRest
<1>5. QueueInv'  BY <1>1, QueueUnchanged DEF IInv
<1>6. MessageInv'  BY <1>1 DEF IInv, MessageInv, Message
<1>7. ControlInv'  BY <1>1, <1>3 DEF IInv, ControlInv
<1> QED  BY <1>4, <1>5, <1>6, <1>7 DEF IInv

LEMMA JoinAllInv == ASSUME IInv, JoinAll PROVE IInv'
<1>1. TypeOK'  BY DEF IInv, TypeOK, JoinAll
<1>2. QueueInv'  BY QueueUnchanged DEF IInv, JoinAll
<1>3. MessageInv'  BY DEF IInv, MessageInv, Message, JoinAll
<1>4. ControlInv'  BY DEF IInv, ControlInv, JoinAll
<1> QED  BY <1>1, <1>2, <1>3, <1>4 DEF IInv

\* Every step of the program keeps the invariant.
LEMMA NextInv == ASSUME IInv, [Next]_vars PROVE IInv'
<1>1. CASE Parent
  BY <1>1, StartInv, PollInv, ReadLineInv, DrainInv, ReceiveInv, ReapInv, CollectRestInv, JoinAllInv
     DEF Parent
<1>2. CASE \E w \in Workers : Worker(w)
  BY <1>2, WorkerInv
<1>3. CASE UNCHANGED vars
  <2>1. TypeOK'  BY <1>3 DEF IInv, TypeOK, vars
  <2>2. QueueInv'  BY <1>3, QueueUnchanged DEF IInv, vars
  <2>3. MessageInv'  BY <1>3 DEF IInv, MessageInv, Message, vars
  <2>4. ControlInv'  BY <1>3 DEF IInv, ControlInv, vars
  <2> QED  BY <2>1, <2>2, <2>3, <2>4 DEF IInv
<1> QED  BY <1>1, <1>2, <1>3 DEF Next, Terminated

--------------------------------------------------------------------------------
\* In every reachable state the queue, the messages and the parent's view of the
\* workers agree.
THEOREM Invariance == Spec => []IInv
<1>1. Init => IInv  BY InitInv
<1>2. IInv /\ [Next]_vars => IInv'  BY NextInv
<1> QED  BY <1>1, <1>2, PTL DEF Spec

\* The types and bounds of the state of parent, workers and pipes.
THEOREM TypeCorrect == Spec => []TypeOK
<1>1. IInv => TypeOK  BY DEF IInv
<1> QED  BY <1>1, Invariance, PTL

\* line 125 is never reached: no result is missing after the main loop, whatever
\* the interleaving and the sizes.
THEOREM NothingIsMissing == Spec => []NothingMissing
<1>1. IInv => NothingMissing  BY DEF IInv, ControlInv, NothingMissing
<1> QED  BY <1>1, Invariance, PTL

--------------------------------------------------------------------------------
(* The output. *)

\* What has been printed of a worker's output has been read, and what has been read has
\* been written; a worker that has ended well has written everything, and one that is
\* no longer active has been printed to the end; lines are whole.
OutputInv ==
  /\ \A w \in Workers : shown[w] <= read[w] /\ read[w] <= written[w] /\ written[w] <= Out[w]
  /\ \A w \in Workers : wpc[w] = "exited" => written[w] = Out[w]
  /\ \A w \in Workers : w <= started /\ w \notin active => shown[w] = written[w]
  /\ pc = "returned" => active = {} /\ started = N
  /\ LinesWhole

\* At the beginning nothing has been written.
LEMMA InitOutput == ASSUME Init PROVE OutputInv
BY CallsAssumption DEF Init, OutputInv, LinesWhole, Workers

\* A worker only ever adds to what it has written, and not after it has ended.
LEMMA WorkerOutput ==
  ASSUME IInv, OutputInv, NEW w \in Workers, Worker(w)
  PROVE  OutputInv'
<1> USE CallsAssumption
<1>1. CASE PrintOut(w)
  <2>1. written[w] \in Nat /\ Early[w] \in Nat /\ Out[w] \in Nat /\ Early[w] <= Out[w]
    BY DEF IInv, TypeOK
  <2>2. written' = [written EXCEPT ![w] = written[w] + 1] /\ written[w] + 1 <= Out[w]
    BY <1>1, <2>1 DEF PrintOut, Write
  <2>3. w \in active /\ wpc[w] = "running" /\ UNCHANGED <<pc, started, active, wpc, read, shown>>
    BY <1>1 DEF PrintOut, IInv, ControlInv
  <2>4. \A v \in Workers : written'[v] = IF v = w THEN written[w] + 1 ELSE written[v]
    BY <2>2 DEF IInv, TypeOK
  <2>5. \A v \in Workers : shown'[v] <= read'[v] /\ read'[v] <= written'[v] /\ written'[v] <= Out[v]
    <3>1. read[w] \in Nat
      BY DEF IInv, TypeOK
    <3> QED  BY <2>1, <2>2, <2>3, <2>4, <3>1 DEF OutputInv
  <2> QED  BY <2>3, <2>4, <2>5 DEF OutputInv, LinesWhole, Ended
<1>2. CASE FuncReturns(w) \/ FuncRaises(w) \/ LockQueue(w)
  <2>1. /\ wpc[w] \in {"running", "put"}
        /\ \E at \in {"put", "raised", "send"} : wpc' = [wpc EXCEPT ![w] = at]
        /\ UNCHANGED <<pc, started, active, written, read, shown>>
    BY <1>2 DEF FuncReturns, FuncRaises, LockQueue
  <2>2. \A v \in Workers : wpc'[v] = wpc[v]
          \/ (wpc[v] \in {"running", "put"} /\ wpc'[v] \in {"put", "raised", "send"})
    BY <2>1 DEF IInv, TypeOK
  <2> QED  BY <2>1, <2>2 DEF OutputInv, LinesWhole, Ended
<1>3. CASE SendPiece(w)
  <2>1. /\ wpc[w] = "send" /\ wpc' \in {[wpc EXCEPT ![w] = "flush"], [wpc EXCEPT ![w] = "send"]}
        /\ UNCHANGED <<pc, started, active, written, read, shown>>
    BY <1>3 DEF SendPiece
  <2>2. \A v \in Workers : wpc'[v] = wpc[v] \/ (wpc[v] = "send" /\ wpc'[v] \in {"flush", "send"})
    BY <2>1 DEF IInv, TypeOK
  <2> QED  BY <2>1, <2>2 DEF OutputInv, LinesWhole, Ended
<1>4. CASE Flush(w)
  <2>1. w \in active
    BY <1>4 DEF Flush, IInv, ControlInv
  <2>2. CASE /\ wpc[w] \in {"flush", "raised"} /\ written[w] < Out[w]
             /\ written' = [written EXCEPT ![w] = written[w] + 1] /\ UNCHANGED wpc
    <3>1. written[w] \in Nat /\ Out[w] \in Nat /\ written[w] + 1 <= Out[w]
      BY <2>2 DEF IInv, TypeOK
    <3> QED  BY <1>4, <2>1, <2>2, <3>1 DEF Flush, OutputInv, LinesWhole, Ended, IInv, TypeOK
  <2>3. CASE /\ wpc[w] = "raised" \/ (wpc[w] = "flush" /\ written[w] = Out[w])
             /\ wpc' = [wpc EXCEPT ![w] = IF wpc[w] = "flush" THEN "exited" ELSE "failed"]
             /\ UNCHANGED written
    BY <1>4, <2>1, <2>3 DEF Flush, OutputInv, LinesWhole, Ended, IInv, TypeOK
  <2> QED  BY <1>4, <2>2, <2>3 DEF Flush, Write
<1> QED  BY <1>1, <1>2, <1>3, <1>4 DEF Worker

\* The processes the parent loops over are workers.
LEMMA TodoAreWorkers == ASSUME IInv, NEW w \in todo PROVE w \in Workers /\ w \in active
<1>1. w \in active /\ w \in 1 .. started /\ started \in 0 .. N
  BY DEF IInv, TypeOK
<1>2. w \in 1 .. N
  BY <1>1, CallsAssumption
<1> QED  BY <1>1, <1>2 DEF Workers

\* A line that the parent prints ends where a line of the worker does, or the worker
\* has ended.
LEMMA ReadLineOutput == ASSUME IInv, OutputInv, ReadLine PROVE OutputInv'
<1>1. PICK w \in todo : ReadLine!2!(w)
  BY DEF ReadLine
<1>2. w \in Workers /\ w \in active
      /\ UNCHANGED <<started, active, wpc, written>> /\ pc' # "returned"
  <2>1. w \in Workers /\ w \in active
    BY TodoAreWorkers
  <2>2. UNCHANGED <<started, active, wpc, written>> /\ pc' # "returned"
    BY DEF ReadLine
  <2> QED  BY <2>1, <2>2
<1>3. /\ shown \in [Workers -> Nat] /\ read \in [Workers -> Nat] /\ written \in [Workers -> Nat]
      /\ shown[w] \in Nat /\ read[w] \in Nat /\ written[w] \in Nat
  BY <1>2 DEF IInv, TypeOK
<1>4. CASE \E c \in LineEnds(w) : shown' = [shown EXCEPT ![w] = c] /\ UNCHANGED read
  <2>1. PICK c \in LineEnds(w) : shown' = [shown EXCEPT ![w] = c]
    BY <1>4
  <2>2. c \in Ends[w] /\ c <= read[w]
    BY <2>1 DEF LineEnds
  <2> QED  BY <1>2, <1>3, <1>4, <2>1, <2>2 DEF OutputInv, LinesWhole, Ended
<1>5. CASE UNCHANGED shown /\ \E c \in read[w] + 1 .. written[w] : read' = [read EXCEPT ![w] = c]
  <2>1. PICK c \in read[w] + 1 .. written[w] : read' = [read EXCEPT ![w] = c]
    BY <1>5
  <2>2. c \in Nat /\ read[w] <= c /\ c <= written[w]
    BY <1>3
  <2>3. \A v \in Workers : shown'[v] <= read'[v] /\ read'[v] <= written'[v] /\ written'[v] <= Out[v]
    BY <1>2, <1>3, <1>5, <2>1, <2>2 DEF OutputInv
  <2> QED  BY <1>2, <1>5, <2>3 DEF OutputInv, LinesWhole, Ended
<1>6. CASE Ended(w) /\ shown' = [shown EXCEPT ![w] = read[w]] /\ UNCHANGED read
  <2>1. \A v \in Workers : shown'[v] <= read'[v] /\ read'[v] <= written'[v] /\ written'[v] <= Out[v]
    BY <1>2, <1>3, <1>6 DEF OutputInv
  <2>2. \A v \in Workers : v <= started' /\ v \notin active' => shown'[v] = written'[v]
    BY <1>2, <1>3, <1>6 DEF OutputInv
  <2>3. LinesWhole'
    BY <1>2, <1>3, <1>6 DEF OutputInv, LinesWhole, Ended
  <2> QED  BY <1>2, <2>1, <2>2, <2>3 DEF OutputInv
<1> QED  BY <1>1, <1>4, <1>5, <1>6

\* A worker leaves the active ones when all that it has written is printed.
LEMMA ReapOutput == ASSUME IInv, OutputInv, Reap PROVE OutputInv'
<1>1. pc' # "returned" /\ UNCHANGED <<started, wpc, written>>
  BY DEF Reap
<1>2. CASE UNCHANGED <<active, read, shown>>
  BY <1>1, <1>2 DEF OutputInv, LinesWhole, Ended
<1>3. CASE todo # {}
  <2>1. PICK w \in todo :
          /\ IF Ended(w)
             THEN /\ read' = [read EXCEPT ![w] = written[w]]
                  /\ shown' = [shown EXCEPT ![w] = written[w]]
             ELSE UNCHANGED <<read, shown>>
          /\ IF wpc[w] = "failed"
             THEN UNCHANGED active
             ELSE active' = IF Ended(w) THEN active \ {w} ELSE active
    BY <1>3 DEF Reap
  <2>2. w \in Workers
    BY TodoAreWorkers
  <2>3. CASE Ended(w)
    <3>1. /\ read' = [read EXCEPT ![w] = written[w]]
          /\ shown' = [shown EXCEPT ![w] = written[w]]
          /\ active' = active \/ active' = active \ {w}
      BY <2>1, <2>3
    <3>2. /\ read \in [Workers -> Nat] /\ shown \in [Workers -> Nat]
          /\ written \in [Workers -> Nat] /\ Out \in [Workers -> Nat]
      BY CallsAssumption DEF IInv, TypeOK
    <3>3. \A v \in Workers : shown'[v] <= read'[v] /\ read'[v] <= written'[v]
                             /\ written'[v] <= Out[v]
      BY <1>1, <2>2, <3>1, <3>2 DEF OutputInv
    <3>4. \A v \in Workers : v <= started' /\ v \notin active' => shown'[v] = written'[v]
      BY <1>1, <2>2, <3>1, <3>2 DEF OutputInv
    <3>5. LinesWhole'
      BY <1>1, <2>2, <2>3, <3>1, <3>2 DEF OutputInv, LinesWhole, Ended
    <3> QED  BY <1>1, <3>3, <3>4, <3>5 DEF OutputInv
  <2>4. CASE ~ Ended(w)
    BY <1>2, <2>1, <2>4 DEF Ended
  <2> QED  BY <2>3, <2>4
<1> QED  BY <1>2, <1>3 DEF Reap

\* The other steps of the parent print nothing and reap nobody.
LEMMA ParentOutput == ASSUME IInv, OutputInv, Parent PROVE OutputInv'
<1>1. CASE Start
  <2>1. CASE /\ started < N /\ started' = started + 1 /\ active' = active \cup {started + 1}
             /\ wpc' = [wpc EXCEPT ![started + 1] = "running"] /\ UNCHANGED pc
    <3>1. started \in Nat /\ started + 1 \in Workers
      BY <2>1, CallsAssumption DEF IInv, TypeOK, Workers
    <3>2. wpc[started + 1] = "idle"
      BY <3>1 DEF IInv, ControlInv, Workers
    <3>3. \A w \in Workers : w <= started' => w <= started \/ w = started + 1
      BY <2>1, <3>1 DEF Workers
    <3> QED  BY <1>1, <2>1, <3>1, <3>2, <3>3 DEF Start, OutputInv, LinesWhole, Ended, IInv, TypeOK
  <2>2. CASE UNCHANGED <<started, active, wpc>> /\ pc' # "returned"
    BY <1>1, <2>2 DEF Start, OutputInv, LinesWhole, Ended
  <2> QED  BY <1>1, <2>1, <2>2 DEF Start
<1>2. CASE Poll \/ Drain \/ JoinAll
  BY <1>2 DEF Poll, Drain, JoinAll, OutputInv, LinesWhole, Ended
<1>3. CASE Receive
  <2>1. pc' # "returned" /\ UNCHANGED <<started, active, wpc, written, read, shown>>
    BY <1>3 DEF Receive
  <2> QED  BY <2>1 DEF OutputInv, LinesWhole, Ended
<1>4. CASE CollectRest
  BY <1>4 DEF CollectRest, OutputInv, LinesWhole, Ended, IInv, ControlInv
<1> QED  BY <1>1, <1>2, <1>3, <1>4, ReadLineOutput, ReapOutput DEF Parent

\* Every line of a running worker is printed whole, and the call returns when all that
\* was written has been printed (lines 87-90 and 102).
THEOREM AllOutputIsShown == Spec => []ShowsAllOutput
<1>1. Init => OutputInv
  BY InitOutput
<1>2. IInv /\ OutputInv /\ [Next]_vars => OutputInv'
  <2> SUFFICES ASSUME IInv, OutputInv, [Next]_vars PROVE OutputInv'
    OBVIOUS
  <2>1. CASE UNCHANGED vars
    BY <2>1 DEF vars, OutputInv, LinesWhole, Ended
  <2> QED  BY <2>1, WorkerOutput, ParentOutput DEF Next, Terminated
<1>3. IInv /\ OutputInv => ShowsAllOutput
  <2> SUFFICES ASSUME IInv, OutputInv, pc = "returned", NEW w \in Workers
               PROVE  shown[w] = written[w] /\ shown[w] = Out[w]
    BY DEF ShowsAllOutput, OutputComplete, OutputInv
  <2>1. wpc[w] = "exited"
    BY CallsAssumption DEF IInv, ControlInv, OutputInv, Workers
  <2> QED  BY <2>1, CallsAssumption DEF OutputInv, Workers
<1> QED  BY <1>1, <1>2, <1>3, Invariance, PTL DEF Spec

--------------------------------------------------------------------------------
(* The refinement. *)

LEMMA InitRefines == ASSUME Init PROVE Run!Init
BY DEF Init, Run!Init

\* What ParallelRun sees of a step that is none of its own.
LEMMA StutterRefines ==
  ASSUME UNCHANGED <<ret_data, error>>, pc' = "returned" <=> pc = "returned",
         \A w \in Workers : wpc'[w] \in {"raised", "failed"} <=> wpc[w] \in {"raised", "failed"}
  PROVE  UNCHANGED Run!vars
BY DEF Run!vars

\* The steps of a worker: a function that raises breaks its call.
LEMMA WorkerRefines ==
  ASSUME IInv, NEW w \in Workers, Worker(w) PROVE [Run!Next]_Run!vars
<1>1. CASE FuncRaises(w)
  <2>1. Run!Break(w)
    <3>1. w \notin ret_data /\ wpc[w] = "running"
      <4>1. Message(w) /\ got[w] \in Nat /\ wpc[w] = "running"
        BY <1>1 DEF IInv, TypeOK, MessageInv, FuncRaises
      <4> QED  BY <4>1, SizePositive DEF Message
    <3>2. {v \in Workers : wpc'[v] \in {"raised", "failed"}}
            = {v \in Workers : wpc[v] \in {"raised", "failed"}} \cup {w}
      BY <1>1 DEF FuncRaises, IInv, TypeOK
    <3> QED  BY <1>1, <3>1, <3>2 DEF FuncRaises, Run!Break
  <2>2. w \in Run!Calls
    BY DEF Run!Calls, Workers
  <2> QED  BY <2>1, <2>2 DEF Run!Next
<1>2. CASE ~ FuncRaises(w)
  <2>1. /\ UNCHANGED <<pc, ret_data, error>>
        /\ \A v \in Workers : wpc'[v] \in {"raised", "failed"} <=> wpc[v] \in {"raised", "failed"}
    BY <1>2 DEF Worker, PrintOut, FuncReturns, LockQueue, SendPiece, Flush, IInv, TypeOK
  <2> QED  BY <2>1, StutterRefines
<1> QED  BY <1>1, <1>2

\* The steps of the parent: a result is collected, the call returns, or it fails.
LEMMA ParentRefines == ASSUME IInv, Parent PROVE [Run!Next]_Run!vars
<1>1. CASE Start
  <2>1. UNCHANGED <<ret_data, error>> /\ pc # "returned" /\ pc' # "returned"
    BY <1>1 DEF Start
  <2>2. \A v \in Workers : wpc'[v] \in {"raised", "failed"} <=> wpc[v] \in {"raised", "failed"}
    <3>1. CASE UNCHANGED wpc  BY <3>1
    <3>2. CASE started < N /\ wpc' = [wpc EXCEPT ![started + 1] = "running"]
      <4>1. started + 1 \in Workers /\ wpc[started + 1] = "idle"
        BY <3>2, CallsAssumption DEF IInv, TypeOK, ControlInv, Workers
      <4> QED  BY <3>2, <4>1 DEF IInv, TypeOK
    <3> QED  BY <1>1, <3>1, <3>2 DEF Start
  <2> QED  BY <2>1, <2>2, StutterRefines
<1>2. CASE Poll \/ ReadLine \/ Drain \/ JoinAll
  BY <1>2, StutterRefines DEF Poll, ReadLine, Drain, JoinAll
<1>3. CASE Receive
  <2>1. CASE UNCHANGED <<ret_data, pc>>
    BY <1>3, <2>1, StutterRefines DEF Receive
  <2>2. CASE ~ UNCHANGED <<ret_data, pc>>
    <3> DEFINE w == Head(queue)[1]
    <3>1. w \in Workers /\ got[w] < sent[w]
      BY <1>3, NextPiece DEF Receive
    <3>2. /\ ret_data' = ret_data \cup {w} /\ got'[w] = Size[w] /\ got'[w] = got[w] + 1
          /\ pc = "receive" /\ pc' # "returned" /\ UNCHANGED <<error, wpc>>
      BY <1>3, <2>2, <3>1 DEF Receive, IInv, TypeOK
    <3>3. w \notin ret_data /\ wpc[w] \notin {"raised", "failed"}
      <4>1. Message(w) /\ got[w] \in Nat /\ sent[w] \in Nat
        BY <3>1 DEF IInv, TypeOK, MessageInv
      <4> QED  BY <3>1, <3>2, <4>1 DEF Message
    <3>4. error = "none"
      BY <3>2 DEF IInv, ControlInv
    <3>5. Run!Collect(w) /\ w \in Run!Calls
      BY <3>1, <3>2, <3>3, <3>4 DEF Run!Collect, Run!Calls, Workers
    <3> QED  BY <3>5 DEF Run!Next
  <2> QED  BY <2>1, <2>2
<1>4. CASE Reap
  <2>1. CASE UNCHANGED error
    BY <1>4, <2>1, StutterRefines DEF Reap
  <2>2. CASE ~ UNCHANGED error
    <3>1. PICK w \in todo : wpc[w] = "failed"
      BY <1>4, <2>2 DEF Reap
    <3>2. w \in Workers
      BY CallsAssumption DEF IInv, TypeOK, Workers
    <3>3. /\ pc = "reap" /\ pc' = "join" /\ error' = "exitcode" /\ UNCHANGED <<ret_data, wpc>>
          /\ error = "none"
      BY <1>4, <2>2 DEF Reap, IInv, ControlInv
    <3>4. Run!GiveUp
      BY <3>1, <3>2, <3>3 DEF Run!GiveUp
    <3> QED  BY <3>4 DEF Run!Next
  <2> QED  BY <2>1, <2>2
<1>5. CASE CollectRest
  <2>1. ret_data # Workers => queue # <<>>
    BY <1>5, ResultInQueue DEF IInv, TypeOK, CollectRest
  <2>2. CASE ret_data = Workers
    <3>1. pc = "collect" /\ pc' = "returned" /\ UNCHANGED <<ret_data, error, wpc>> /\ error = "none"
      BY <1>5, <2>2 DEF CollectRest, IInv, ControlInv
    <3>2. Run!Return
      BY <2>2, <3>1 DEF Run!Return, Run!Calls, Workers
    <3> QED  BY <3>2 DEF Run!Next
  <2>3. CASE ret_data # Workers
    BY <1>5, <2>1, <2>3, StutterRefines DEF CollectRest
  <2> QED  BY <2>2, <2>3
<1> QED  BY <1>1, <1>2, <1>3, <1>4, <1>5 DEF Parent

\* parallelize_func_calls implements ParallelRun: it returns only with the result
\* of every call, and fails only after a call has failed.
THEOREM ImplementsParallelRun == Spec => ReturnsAllOrFails
<1>1. Init => Run!Init  BY InitRefines
<1>2. IInv /\ [Next]_vars => [Run!Next]_Run!vars
  <2>1. ASSUME IInv, UNCHANGED vars PROVE UNCHANGED Run!vars
    BY <2>1 DEF vars, Run!vars
  <2> QED  BY <2>1, WorkerRefines, ParentRefines DEF Next, Terminated
<1> QED  BY <1>1, <1>2, Invariance, PTL DEF Spec, ReturnsAllOrFails, Run!Spec
================================================================================
