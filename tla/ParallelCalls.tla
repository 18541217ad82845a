----------------------------- MODULE ParallelCalls -----------------------------
(***************************************************************************)
(* parallelize_func_calls and wrap_mp_stdout of trace2ll.py: a parent      *)
(* process runs N calls in worker processes, at most MAX_PROCESSES at a    *)
(* time.  It prints what they write to their stdout, a pipe per worker,    *)
(* and collects their results from one queue, a pipe shared by all.        *)
(* Both kinds of pipe are bounded; whoever writes to a full one waits, and *)
(* so does whoever reads from an empty one.                                *)
(*                                                                         *)
(* Output is counted in chunks: what one write to a pipe carries.  Ends[w] *)
(* are the chunks that end in a newline.  A worker writes its first        *)
(* Early[w] chunks while its function runs; the others are still in its    *)
(* buffer when the function returns and are written when the process       *)
(* exits, which is after it has handed over its result, of Size[w] pieces. *)
(***************************************************************************)
EXTENDS Integers, Sequences, FiniteSets

CONSTANTS
  N, MAX_PROCESSES,
  Out, Early, Ends, Size,     \* per worker, see above
  CanFail,                    \* the workers whose function may raise
  PIPE, QUEUE                 \* the capacities of the pipes

Workers == 1 .. N

ASSUME CallsAssumption ==
  /\ N \in Nat \ {0}
  /\ MAX_PROCESSES \in Nat \ {0}
  /\ PIPE \in Nat \ {0}
  /\ QUEUE \in Nat \ {0}
  /\ Out \in [Workers -> Nat]
  /\ Early \in [Workers -> Nat]
  /\ Size \in [Workers -> Nat \ {0}]
  /\ Ends \in [Workers -> SUBSET Nat]
  /\ CanFail \subseteq Workers
  /\ \A w \in Workers : Early[w] <= Out[w] /\ Ends[w] \subseteq 1 .. Out[w]

VARIABLES
  \* the parent
  pc,            \* "start", "poll", "readline", "drain", "reap", "collect", "receive",
                 \* "returned", "join" (waits for the workers to end) or "exited"
  started,       \* pending_processes are the workers after this one
  active,        \* active_processes, in the order of their numbers
  todo,          \* what is left of active in the for loop the parent is in
  ret_data,      \* the workers whose results have been collected
  waited,
  error,         \* why the program ends: "none", "exitcode" or "fewer"
  \* the workers
  wpc,           \* "idle", "running", "put", "send", "flush", "exited",
                 \* or "raised", "failed" when its function raises
  \* the pipes
  written, read, shown,  \* chunks of a worker's output: written, taken from its pipe, printed
  queue,         \* pairs of a worker and a number: pieces of the workers' messages
  sent, got      \* pieces of a worker's message written to and read from the queue

vars == <<pc, started, active, todo, ret_data, waited, error,
          wpc, written, read, shown, queue, sent, got>>

Init ==
  /\ pc = "start" /\ started = 0 /\ active = {} /\ todo = {}
  /\ ret_data = {} /\ waited = FALSE /\ error = "none"
  /\ wpc = [w \in Workers |-> "idle"]
  /\ written = [w \in Workers |-> 0]
  /\ read = [w \in Workers |-> 0]
  /\ shown = [w \in Workers |-> 0]
  /\ queue = <<>>
  /\ sent = [w \in Workers |-> 0]
  /\ got = [w \in Workers |-> 0]

Ended(w) == wpc[w] \in {"exited", "failed"}

--------------------------------------------------------------------------------
(* A worker: wrap_mp_stdout, and what multiprocessing does when it returns. *)

\* One more chunk of output fits in the pipe.
Write(w) ==
  /\ written[w] - read[w] < PIPE
  /\ written' = [written EXCEPT ![w] = @ + 1]

\* The function prints.
PrintOut(w) ==
  /\ wpc[w] = "running"
  /\ written[w] < Early[w]
  /\ Write(w)
  /\ UNCHANGED <<pc, started, active, todo, ret_data, waited, error,
                 wpc, read, shown, queue, sent, got>>

\* The function returns and its result is put.
FuncReturns(w) ==
  /\ wpc[w] = "running"
  /\ written[w] = Early[w]
  /\ wpc' = [wpc EXCEPT ![w] = "put"]
  /\ UNCHANGED <<pc, started, active, todo, ret_data, waited, error,
                 written, read, shown, queue, sent, got>>

\* The function raises: nothing is put.
FuncRaises(w) ==
  /\ wpc[w] = "running"
  /\ w \in CanFail
  /\ wpc' = [wpc EXCEPT ![w] = "raised"]
  /\ UNCHANGED <<pc, started, active, todo, ret_data, waited, error,
                 written, read, shown, queue, sent, got>>

\* The feeder thread gets the lock of the queue: no other is writing a message.
LockQueue(w) ==
  /\ wpc[w] = "put"
  /\ \A v \in Workers : wpc[v] # "send"
  /\ wpc' = [wpc EXCEPT ![w] = "send"]
  /\ UNCHANGED <<pc, started, active, todo, ret_data, waited, error,
                 written, read, shown, queue, sent, got>>

SendPiece(w) ==
  /\ wpc[w] = "send"
  /\ Len(queue) < QUEUE
  /\ sent' = [sent EXCEPT ![w] = @ + 1]
  /\ queue' = Append(queue, <<w, sent[w] + 1>>)
  /\ wpc' = [wpc EXCEPT ![w] = IF sent'[w] = Size[w] THEN "flush" ELSE "send"]
  /\ UNCHANGED <<pc, started, active, todo, ret_data, waited, error,
                 written, read, shown, got>>

\* The process ends: it has waited for the feeder thread, and writes what is left
\* in the buffer of its stdout; where a function raises, that can be anything.
Flush(w) ==
  /\ \/ /\ wpc[w] \in {"flush", "raised"}
        /\ written[w] < Out[w]
        /\ Write(w)
        /\ UNCHANGED wpc
     \/ /\ wpc[w] = "raised" \/ (wpc[w] = "flush" /\ written[w] = Out[w])
        /\ wpc' = [wpc EXCEPT ![w] = IF @ = "flush" THEN "exited" ELSE "failed"]
        /\ UNCHANGED written
  /\ UNCHANGED <<pc, started, active, todo, ret_data, waited, error,
                 read, shown, queue, sent, got>>

Worker(w) ==
  \/ PrintOut(w) \/ FuncReturns(w) \/ FuncRaises(w)
  \/ LockQueue(w) \/ SendPiece(w) \/ Flush(w)

--------------------------------------------------------------------------------
(* The parent. *)

\* Mutant: starts one process more than there are functions.
Start_one_more ==
  /\ pc = "start"
  /\ \/ /\ started <= N
        /\ Cardinality(active) < MAX_PROCESSES
        /\ started' = started + 1
        /\ active' = active \cup {started + 1}
        /\ wpc' = [wpc EXCEPT ![started + 1] = "running"]
        /\ UNCHANGED <<pc, todo>>
     \/ /\ started > N \/ Cardinality(active) >= MAX_PROCESSES
        /\ pc' = IF active = {} THEN "collect" ELSE "poll"
        /\ todo' = active
        /\ UNCHANGED <<started, active, wpc>>
  /\ UNCHANGED <<ret_data, waited, error, written, read, shown, queue, sent, got>>

\* Mutant: the main loop ends when no process is left to start.
Start_only_pending ==
  /\ pc = "start"
  /\ \/ /\ started < N
        /\ Cardinality(active) < MAX_PROCESSES
        /\ started' = started + 1
        /\ active' = active \cup {started + 1}
        /\ wpc' = [wpc EXCEPT ![started + 1] = "running"]
        /\ UNCHANGED <<pc, todo>>
     \/ /\ started = N \/ Cardinality(active) >= MAX_PROCESSES
        /\ pc' = IF started = N THEN "collect" ELSE "poll"
        /\ todo' = active
        /\ UNCHANGED <<started, active, wpc>>
  /\ UNCHANGED <<ret_data, waited, error, written, read, shown, queue, sent, got>>

\* The head of the main loop, and the loop that starts processes.
Start ==
  /\ pc = "start"
  /\ \/ /\ started < N
        /\ Cardinality(active) < MAX_PROCESSES
        /\ started' = started + 1
        /\ active' = active \cup {started + 1}
        /\ wpc' = [wpc EXCEPT ![started + 1] = "running"]
        /\ UNCHANGED <<pc, todo>>
     \/ /\ started = N \/ Cardinality(active) >= MAX_PROCESSES
        /\ pc' = IF active = {} THEN "collect" ELSE "poll"
        /\ todo' = active
        /\ UNCHANGED <<started, active, wpc>>
  /\ UNCHANGED <<ret_data, waited, error, written, read, shown, queue, sent, got>>

\* The next process of a for loop over active_processes.
IsNext(w) == w \in todo /\ \A v \in todo : w <= v

\* Something can be read from the worker's stdout, be it the end of the file.
Readable(w) == written[w] > read[w] \/ Ended(w)

Poll ==
  /\ pc = "poll"
  /\ \/ \E w \in todo :
          /\ IsNext(w)
          /\ pc' = IF Readable(w) THEN "readline" ELSE "poll"
          /\ todo' = IF Readable(w) THEN todo ELSE todo \ {w}
     \/ todo = {} /\ pc' = "drain" /\ UNCHANGED todo
  /\ UNCHANGED <<started, active, ret_data, waited, error,
                 wpc, written, read, shown, queue, sent, got>>

\* The chunks in the parent's buffer that end a line.
LineEnds(w) == {c \in Ends[w] : shown[w] < c /\ c <= read[w]}

\* Mutant: prints what there is to read, as read() would.
ReadLine_any ==
  /\ pc = "readline"
  /\ \E w \in todo :
       /\ IsNext(w)
       /\ read' = [read EXCEPT ![w] = written[w]]
       /\ shown' = [shown EXCEPT ![w] = written[w]]
       /\ todo' = todo \ {w} /\ pc' = "poll"
  /\ UNCHANGED <<started, active, ret_data, waited, error,
                 wpc, written, queue, sent, got>>

\* readline() returns the first line of the buffer, and reads more as long as it
\* has none; at the end of the file it returns what there is.
ReadLine ==
  /\ pc = "readline"
  /\ \E w \in todo :
       /\ IsNext(w)
       /\ \/ \E c \in LineEnds(w) :
               /\ \A d \in LineEnds(w) : c <= d
               /\ shown' = [shown EXCEPT ![w] = c]
               /\ todo' = todo \ {w} /\ pc' = "poll"
               /\ UNCHANGED read
          \/ /\ LineEnds(w) = {}
             /\ \E c \in read[w] + 1 .. written[w] : read' = [read EXCEPT ![w] = c]
             /\ UNCHANGED <<shown, todo, pc>>
          \/ /\ LineEnds(w) = {} /\ read[w] = written[w] /\ Ended(w)
             /\ shown' = [shown EXCEPT ![w] = read[w]]
             /\ todo' = todo \ {w} /\ pc' = "poll"
             /\ UNCHANGED read
  /\ UNCHANGED <<started, active, ret_data, waited, error,
                 wpc, written, queue, sent, got>>

\* One more piece of a message; get() has seen that the message has begun and
\* waits for all of it.
Receive ==
  LET w == Head(queue)[1]
  IN  /\ pc = "receive"
      /\ queue # <<>>
      /\ queue' = Tail(queue)
      /\ got' = [got EXCEPT ![w] = @ + 1]
      /\ IF got'[w] = Size[w]
         THEN /\ ret_data' = ret_data \cup {w}
              /\ pc' = IF started = N /\ active = {} THEN "collect" ELSE "drain"
              /\ waited' = FALSE
         ELSE UNCHANGED <<ret_data, pc, waited>>
      /\ UNCHANGED <<started, active, todo, error, wpc, written, read, shown, sent>>

\* Mutant: results are collected after the main loop only.
Drain_not_here ==
  /\ pc = "drain"
  /\ pc' = "reap" /\ todo' = active
  /\ UNCHANGED <<started, active, ret_data, waited, error,
                 wpc, written, read, shown, queue, sent, got>>

\* q.get(block=False) in the main loop, until the queue is empty.
Drain ==
  /\ pc = "drain"
  /\ IF queue = <<>> THEN pc' = "reap" /\ todo' = active
                   ELSE pc' = "receive" /\ UNCHANGED todo
  /\ UNCHANGED <<started, active, ret_data, waited, error,
                 wpc, written, read, shown, queue, sent, got>>

\* Processes that have ended: the rest of their output is printed, an error code
\* ends the program.
Reap ==
  /\ pc = "reap"
  /\ \/ \E w \in todo :
          /\ IsNext(w)
          /\ todo' = todo \ {w}
          /\ IF Ended(w)
             THEN /\ read' = [read EXCEPT ![w] = written[w]]
                  /\ shown' = [shown EXCEPT ![w] = written[w]]
             ELSE UNCHANGED <<read, shown>>
          /\ IF wpc[w] = "failed"
             THEN pc' = "join" /\ error' = "exitcode" /\ UNCHANGED active
             ELSE /\ UNCHANGED <<pc, error>>
                  /\ active' = IF Ended(w) THEN active \ {w} ELSE active
     \/ todo = {} /\ pc' = "start" /\ UNCHANGED <<todo, active, read, shown, error>>
  /\ UNCHANGED <<started, ret_data, waited,
                 wpc, written, queue, sent, got>>

\* Mutant: returns what the main loop has collected.
CollectRest_none ==
  /\ pc = "collect"
  /\ pc' = "returned"
  /\ UNCHANGED <<started, active, todo, ret_data, waited, error,
                 wpc, written, read, shown, queue, sent, got>>

\* After the main loop: what is missing is waited for once.
CollectRest ==
  /\ pc = "collect"
  /\ \/ ret_data = Workers /\ pc' = "returned" /\ UNCHANGED <<waited, error>>
     \/ /\ ret_data # Workers /\ queue # <<>>
        /\ pc' = "receive" /\ UNCHANGED <<waited, error>>
     \/ /\ ret_data # Workers /\ queue = <<>> /\ ~ waited
        /\ waited' = TRUE /\ UNCHANGED <<pc, error>>
     \/ /\ ret_data # Workers /\ queue = <<>> /\ waited
        /\ pc' = "join" /\ error' = "fewer" /\ UNCHANGED waited
  /\ UNCHANGED <<started, active, todo, ret_data,
                 wpc, written, read, shown, queue, sent, got>>

\* sys.exit(): the interpreter joins the child processes before it ends.
JoinAll ==
  /\ pc = "join"
  /\ \A w \in 1 .. started : Ended(w)
  /\ pc' = "exited"
  /\ UNCHANGED <<started, active, todo, ret_data, waited, error,
                 wpc, written, read, shown, queue, sent, got>>

Parent ==
  Start \/ Poll \/ ReadLine \/ Drain \/ Receive \/ Reap \/ CollectRest \/ JoinAll

\* The call has returned or the program has ended.
Over == pc \in {"returned", "exited"}

\* No more goes into the queue's pipe while a worker has half a message in it.
QueueStuck(w) == wpc[w] = "send" /\ Len(queue) = QUEUE

\* readline() has half a line of a worker that does not write the rest before its result
\* has gone into the queue; it is this worker that fills the queue, or another one.
WaitsForLine ==
  /\ pc = "readline"
  /\ \E w \in todo : IsNext(w) /\ LineEnds(w) = {} /\ read[w] = written[w] /\ wpc[w] \in {"put", "send"}
  /\ \E v \in Workers : QueueStuck(v)

\* sys.exit() joins a worker that waits for the parent to read its result, or its output.
WaitsForWorker ==
  /\ pc = "join"
  /\ \E w \in 1 .. started :
       \/ QueueStuck(w)
       \/ /\ written[w] - read[w] = PIPE
          /\ \/ wpc[w] = "running" /\ written[w] < Early[w]
             \/ wpc[w] = "flush" /\ written[w] < Out[w]

Terminated == (Over \/ WaitsForLine \/ WaitsForWorker) /\ UNCHANGED vars

Next == Parent \/ (\E w \in Workers : Worker(w)) \/ Terminated

Spec == Init /\ [][Next]_vars

\* Every process that can take a step takes one in the end.
FairSpec == Spec /\ WF_vars(Parent) /\ \A w \in Workers : WF_vars(Worker(w))

--------------------------------------------------------------------------------
\* Every variable keeps its type; no more workers are active than have been started, and
\* the queue's pipe never holds more than fits in it.
TypeOK ==
  /\ pc \in {"start", "poll", "readline", "drain", "receive", "reap", "collect",
             "returned", "join", "exited"}
  /\ started \in 0 .. N
  /\ active \subseteq 1 .. started
  /\ todo \subseteq active
  /\ ret_data \subseteq Workers
  /\ waited \in BOOLEAN
  /\ error \in {"none", "exitcode", "fewer"}
  /\ wpc \in [Workers -> {"idle", "running", "put", "send", "flush", "exited",
                     "raised", "failed"}]
  /\ written \in [Workers -> Nat]
  /\ read \in [Workers -> Nat]
  /\ shown \in [Workers -> Nat]
  /\ queue \in Seq(Workers \X Nat) /\ Len(queue) <= QUEUE
  /\ sent \in [Workers -> Nat]
  /\ got \in [Workers -> Nat]

(* line 125: "Fewer items than expected returned from parallel run".  A process *)
(* that has exited has handed over its result, which is in the queue or has     *)
(* been taken out of it, so the last loop finds them all.                       *)
NothingMissing == error # "fewer"

LinesWhole ==
  \A w \in Workers : ~ Ended(w) /\ shown[w] > 0 => shown[w] \in Ends[w]

OutputComplete ==
  pc = "returned" => \A w \in Workers : shown[w] = written[w] /\ shown[w] = Out[w]

\* A line of a worker that still runs is printed whole, however many chunks and reads
\* it takes (lines 87-90), and parts of lines only at its end; when the call returns,
\* everything every worker wrote has been printed, although poll() does not see what
\* is already in the parent's buffer (lines 87, 102).
ShowsAllOutput == LinesWhole /\ OutputComplete

\* The abstract specification.
Run == INSTANCE ParallelRun WITH
  results <- ret_data,
  broken <- {w \in Workers : wpc[w] \in {"raised", "failed"}},
  outcome <- IF pc = "returned" THEN "returned"
             ELSE IF error # "none" THEN "error" ELSE "running"

\* The parallel run returns with every result, or ends with an error after a call
\* has failed: parallelize_func_calls implements ParallelRun.
ReturnsAllOrFails == Run!Spec

\* The parallel run returns or ends with the error, or it is caught in one of two waits: for
\* the rest of a line whose worker waits for the parent (line 88, "causes readline to block
\* indefinitely"), or, after a call has failed, for a worker that nobody reads from any more
\* (line 108).  Large results, full pipes and workers that end meanwhile do not stop it.
EndsOrWaits == <>(Over \/ WaitsForLine \/ WaitsForWorker)

================================================================================
