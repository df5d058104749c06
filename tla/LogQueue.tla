------------------------------- MODULE LogQueue -------------------------------
(***************************************************************************)
(* The asynchronous log (log_module.cpp): threads write messages in        *)
(* buffers and queue them, a job that runs until the shutdown sinks them   *)
(* and gives the buffers back.                                             *)
(*                                                                         *)
(* The queues are moodycamel::ConcurrentQueue, external: any thread may    *)
(* enqueue and dequeue, and what one thread enqueued is dequeued in the    *)
(* order it enqueued it.  Nothing orders the messages of two threads.      *)
(***************************************************************************)
EXTENDS Integers, Sequences, FiniteSets, SequencesExt

CONSTANTS
  Thread,       \* threads that log
  NoBuffer,
  ChunkSize,    \* buffers of a message_buffer_chunk
  BatchSize,    \* n of the flush job
  MaxMessages,  \* bound: messages of each thread, a function of the thread
  MaxChunks     \* bound: chunks allocated

\* static_assert(buffersCount > 2); the batch of the flush job is not empty.
ASSUME ChunkAssumption == ChunkSize \in Nat /\ ChunkSize > 2
ASSUME BatchAssumption == BatchSize \in Nat \ {0}

VARIABLES
  g_isAsync,
  g_stopFlushJob,
  g_asyncQueues,  \* "none", "alive" or "freed"
  chunks,         \* allocations: the number of chunks
  buffers,        \* the queue of buffers that may be written
  logs,           \* the queue of messages to sink, by thread that enqueued
  data,           \* the message written last in each buffer
  writing,        \* the buffer that each thread is in sink_it with
  logged,         \* the number of messages each thread has queued
  flush,          \* control point of the flush job
  batch,          \* what the flush job has dequeued
  next,           \* how many of the batch it has sunk
  sunk            \* the messages given to the sinks

logVars == <<g_isAsync, g_stopFlushJob, g_asyncQueues, chunks, buffers, logs,
             data, writing, logged, flush, batch, next, sunk>>

\* A buffer is a place in a chunk; a message is the number its thread gave it.
Buffer == (1..MaxChunks) \X (1..ChunkSize)
Message == [thread : Thread, number : Nat]
ASSUME BufferAssumption == MaxChunks \in Nat /\ NoBuffer \notin Buffer
NoMessage == [thread |-> NoBuffer, number |-> 0]

LogTypeOK ==
  /\ g_isAsync \in BOOLEAN /\ g_stopFlushJob \in BOOLEAN
  /\ g_asyncQueues \in {"none", "alive", "freed"}
  /\ chunks \in 0..MaxChunks
  /\ buffers \subseteq Buffer
  /\ logs \in [Thread -> Seq(Buffer)]
  /\ data \in [Buffer -> Message \cup {NoMessage}]
  /\ writing \in [Thread -> Buffer \cup {NoBuffer}]
  /\ logged \in [Thread -> Nat]
  /\ flush \in {"none", "poll", "dequeue", "sink", "ended"}
  /\ batch \in Seq(Buffer)
  /\ next \in 0..Len(batch)
  /\ sunk \in Seq(Message)

LogInit ==
  /\ g_isAsync = FALSE /\ g_stopFlushJob = FALSE
  /\ g_asyncQueues = "none"
  /\ chunks = 0
  /\ buffers = {}
  /\ logs = [t \in Thread |-> <<>>]
  /\ data = [b \in Buffer |-> NoMessage]
  /\ writing = [t \in Thread |-> NoBuffer]
  /\ logged = [t \in Thread |-> 0]
  /\ flush = "none"
  /\ batch = <<>>
  /\ next = 0
  /\ sunk = <<>>

\* log_module::startup, which also pushes the flush job.
LogStartup ==
  /\ g_stopFlushJob' = FALSE
  /\ g_isAsync' = TRUE
  /\ g_asyncQueues' = "alive"
  /\ UNCHANGED <<chunks, buffers, logs, data, writing, logged, flush, batch, next, sunk>>

\* Mutant: the first buffer of the chunk is queued with the others.
NewBuffers_All(c) == {c} \X (1..ChunkSize)

\* The buffers of chunk c that the thread that allocates it queues.
NewBuffers(c) == {c} \X (2..ChunkSize)

\* sink_it takes a buffer, or the first of a new chunk, and writes the message.
\* Which of the free buffers is taken makes no difference.
AcquireBuffer(t) ==
  /\ g_isAsync
  /\ writing[t] = NoBuffer
  /\ logged[t] < MaxMessages[t]
  /\ \E b \in Buffer :
       /\ \/ /\ buffers # {}
             /\ b = CHOOSE c \in buffers : TRUE
             /\ buffers' = buffers \ {b}
             /\ UNCHANGED chunks
          \/ /\ buffers = {}
             /\ chunks < MaxChunks
             /\ chunks' = chunks + 1
             /\ b = <<chunks + 1, 1>>
             /\ buffers' = NewBuffers(chunks + 1)
       /\ writing' = [writing EXCEPT ![t] = b]
       /\ data' = [data EXCEPT ![b] = [thread |-> t, number |-> logged[t] + 1]]
  /\ UNCHANGED <<g_isAsync, g_stopFlushJob, g_asyncQueues, logs, logged, flush, batch, next, sunk>>

EnqueueMessage(t) ==
  /\ writing[t] # NoBuffer
  /\ logs' = [logs EXCEPT ![t] = Append(@, writing[t])]
  /\ logged' = [logged EXCEPT ![t] = @ + 1]
  /\ writing' = [writing EXCEPT ![t] = NoBuffer]
  /\ UNCHANGED <<g_isAsync, g_stopFlushJob, g_asyncQueues, chunks, buffers, data, flush, batch, next, sunk>>

\* A thread begins to run the flush job.
FlushBegins ==
  /\ flush' = "poll"
  /\ UNCHANGED <<g_isAsync, g_stopFlushJob, g_asyncQueues, chunks, buffers, logs,
                 data, writing, logged, batch, next, sunk>>

\* while (!g_stopFlushJob)
FlushPolls ==
  /\ flush = "poll"
  /\ flush' = IF g_stopFlushJob THEN "ended" ELSE "dequeue"
  /\ UNCHANGED <<g_isAsync, g_stopFlushJob, g_asyncQueues, chunks, buffers, logs,
                 data, writing, logged, batch, next, sunk>>

\* try_dequeue_bulk goes over the threads' queues; it may stop before it saw
\* what a thread enqueues meanwhile, but not while there was a message all along.
FlushDequeues ==
  /\ flush = "dequeue"
  /\ \/ \E t \in Thread :
          /\ Len(batch) < BatchSize
          /\ logs[t] # <<>>
          /\ batch' = Append(batch, Head(logs[t]))
          /\ logs' = [logs EXCEPT ![t] = Tail(@)]
          /\ UNCHANGED flush
     \/ /\ batch # <<>> \/ \A t \in Thread : logs[t] = <<>>
        /\ flush' = "sink"
        /\ UNCHANGED <<batch, logs>>
  /\ UNCHANGED <<g_isAsync, g_stopFlushJob, g_asyncQueues, chunks, buffers,
                 data, writing, logged, next, sunk>>

\* The messages of the batch are sunk one after the other, then their buffers
\* are enqueued in bulk.
FlushSinks ==
  /\ flush = "sink"
  /\ \/ /\ next < Len(batch)
        /\ sunk' = Append(sunk, data[batch[next + 1]])
        /\ next' = next + 1
        /\ UNCHANGED <<flush, batch, buffers>>
     \/ /\ next = Len(batch)
        /\ buffers' = buffers \cup ToSet(batch)
        /\ batch' = <<>>
        /\ next' = 0
        /\ flush' = "poll"
        /\ UNCHANGED sunk
  /\ UNCHANGED <<g_isAsync, g_stopFlushJob, g_asyncQueues, chunks, logs, data, writing, logged>>

FlushStep == FlushPolls \/ FlushDequeues \/ FlushSinks

\* Mutant: the flag is not set.
LogStops_NotSet == UNCHANGED logVars

\* log_module::shutdown stops the flush job, waits for it and frees the queues.
\* g_isAsync stays true; messages left in the queue are dropped.
LogStops ==
  /\ g_stopFlushJob' = TRUE
  /\ UNCHANGED <<g_isAsync, g_asyncQueues, chunks, buffers, logs, data, writing,
                 logged, flush, batch, next, sunk>>

LogFrees ==
  /\ g_asyncQueues' = "freed"
  /\ UNCHANGED <<g_isAsync, g_stopFlushJob, chunks, buffers, logs, data, writing,
                 logged, flush, batch, next, sunk>>
-------------------------------------------------------------------------------
\* The places a buffer is in, each position of a queue a place of its own.
Places(b) ==
  {p \in {<<"free">>} : b \in buffers}
    \cup {<<"batch", i>> : i \in {j \in DOMAIN batch : batch[j] = b}}
    \cup {<<"writing", t>> : t \in {u \in Thread : writing[u] = b}}
    \cup UNION {{<<"queued", t, i>> : i \in {j \in DOMAIN logs[t] : logs[t][j] = b}} : t \in Thread}

\* Every buffer of the chunks is in one place: free, being written, queued once,
\* or in the batch of the flush job (log_module.cpp:96-106, 147-182).
BuffersOwned ==
  \A b \in (1..chunks) \X (1..ChunkSize) : \E p \in Places(b) : Places(b) = {p}

\* What a thread logged reaches the sinks in the order it was logged, once,
\* with no message of it left out before one that was sunk.
SunkInOrder ==
  \A i \in DOMAIN sunk :
    sunk[i].number = Cardinality({j \in 1..i : sunk[j].thread = sunk[i].thread})

\* Messages keep their buffer and their order while threads log, the flush job
\* runs on whichever thread took it, and chunks are allocated (log_module.cpp:145).
MessagesIntact == BuffersOwned /\ SunkInOrder
===============================================================================
