------------------------- MODULE EngineLifetimeProofs -------------------------
(***************************************************************************)
(* IInv is an invariant of EngineLifetime, and implies that modules nest   *)
(* and that messages stay intact.                                          *)
(***************************************************************************)
EXTENDS EngineLifetimeInv, FiniteSetTheorems, TLAPS

-------------------------------------------------------------------------------
(* Sequences *)

LEMMA Appended ==
  ASSUME NEW S, NEW s \in Seq(S), NEW x \in S
  PROVE  /\ Append(s, x) \in Seq(S)
         /\ Len(Append(s, x)) = Len(s) + 1
         /\ DOMAIN Append(s, x) = 1..(Len(s) + 1) /\ DOMAIN s = 1..Len(s)
         /\ \A i \in DOMAIN s : Append(s, x)[i] = s[i]
         /\ Append(s, x)[Len(s) + 1] = x
         /\ ToSet(Append(s, x)) = ToSet(s) \cup {x}
  <1>1. /\ Append(s, x) \in Seq(S)
        /\ Len(Append(s, x)) = Len(s) + 1
        /\ Len(s) \in Nat
        /\ DOMAIN Append(s, x) = 1..(Len(s) + 1) /\ DOMAIN s = 1..Len(s)
    OBVIOUS
  <1>2. /\ \A i \in DOMAIN s : Append(s, x)[i] = s[i]
        /\ Append(s, x)[Len(s) + 1] = x
    OBVIOUS
  <1> DEFINE a == Append(s, x)
  <1>. HIDE DEF a
  <1>3. ToSet(a) = ToSet(s) \cup {x}
    <2>1. DOMAIN a = DOMAIN s \cup {Len(s) + 1}
      BY <1>1 DEF a
    <2>. QED BY <1>2, <2>1 DEF ToSet, a
  <1>. QED BY <1>1, <1>2, <1>3 DEF a

LEMMA Elements ==
  ASSUME NEW S, NEW s \in Seq(S)
  PROVE  \A i \in DOMAIN s : s[i] \in S
  OBVIOUS

LEMMA Tailed ==
  ASSUME NEW S, NEW s \in Seq(S), s # <<>>
  PROVE  /\ Tail(s) \in Seq(S) /\ Head(s) \in S /\ Head(s) = s[1] /\ Head(s) \in ToSet(s)
         /\ Len(s) \in Nat \ {0} /\ Len(Tail(s)) = Len(s) - 1
         /\ DOMAIN Tail(s) = 1..(Len(s) - 1) /\ DOMAIN s = 1..Len(s)
         /\ \A i \in DOMAIN Tail(s) : i + 1 \in DOMAIN s /\ Tail(s)[i] = s[i + 1]
         /\ (\A i, j \in DOMAIN s : s[i] = s[j] => i = j) => ToSet(Tail(s)) = ToSet(s) \ {Head(s)}
  <1>1. /\ Tail(s) \in Seq(S) /\ Head(s) = s[1]
        /\ Len(s) \in Nat \ {0} /\ Len(Tail(s)) = Len(s) - 1
        /\ DOMAIN Tail(s) = 1..(Len(s) - 1) /\ DOMAIN s = 1..Len(s)
    OBVIOUS
  <1>2. \A i \in DOMAIN Tail(s) : i + 1 \in DOMAIN s /\ Tail(s)[i] = s[i + 1]
    BY <1>1
  <1> DEFINE a == Tail(s)
  <1>. HIDE DEF a
  <1>3. Head(s) \in S /\ Head(s) \in ToSet(s)
    BY <1>1 DEF ToSet
  <1>4. ASSUME \A i, j \in DOMAIN s : s[i] = s[j] => i = j
        PROVE  ToSet(a) = ToSet(s) \ {Head(s)}
    <2>1. ASSUME NEW i \in DOMAIN a
          PROVE  a[i] \in ToSet(s) \ {Head(s)}
      <3>1. i + 1 \in DOMAIN s /\ a[i] = s[i + 1] /\ i + 1 # 1 /\ 1 \in DOMAIN s
        BY <1>1, <1>2, <2>1 DEF a
      <3>. QED BY <1>1, <1>4, <3>1 DEF ToSet
    <2>2. ASSUME NEW i \in DOMAIN s, s[i] # Head(s)
          PROVE  s[i] \in ToSet(a)
      <3>1. i - 1 \in DOMAIN a /\ (i - 1) + 1 = i
        BY <1>1, <2>2 DEF a
      <3>2. a[i - 1] = s[i]
        BY <1>2, <3>1 DEF a
      <3>. QED BY <3>1, <3>2 DEF ToSet
    <2>. QED BY <2>1, <2>2 DEF ToSet
  <1>. QED BY <1>1, <1>2, <1>3, <1>4 DEF a

-------------------------------------------------------------------------------
(* The log *)

\* What does not read the buffers of the batch leaves Out as it is.
LEMMA OutKept ==
  ASSUME LogTypeOK, UNCHANGED <<batch, next, sunk>>,
         \A b \in ToSet(batch) : data'[b] = data[b]
  PROVE  Out' = Out
  <1>1. /\ batch \in Seq(Buffer) /\ next \in 0..Len(batch) /\ Len(batch) \in Nat
        /\ sunk \in Seq(Message) /\ Len(sunk) \in Nat /\ DOMAIN batch = 1..Len(batch)
    BY DEF LogTypeOK
  <1>2. ASSUME NEW i \in 1..(Len(sunk) + Len(batch) - next), ~ (i <= Len(sunk))
        PROVE  data'[batch[next + i - Len(sunk)]] = data[batch[next + i - Len(sunk)]]
    <2>1. next + i - Len(sunk) \in DOMAIN batch
      BY <1>1, <1>2
    <2>2. batch[next + i - Len(sunk)] \in ToSet(batch)
      BY <2>1 DEF ToSet
    <2>. QED BY <2>2
  <1>. QED BY <1>2 DEF Out

LEMMA AllocatedGrows ==
  ASSUME LogTypeOK, chunks' = chunks + 1
  PROVE  /\ Allocated' = Allocated \cup ({chunks + 1} \X (1..ChunkSize))
         /\ \A k \in Nat : <<chunks + 1, k>> \notin Allocated
         /\ {chunks + 1} \X (1..ChunkSize) = {<<chunks + 1, 1>>} \cup ({chunks + 1} \X (2..ChunkSize))
         /\ <<chunks + 1, 1>> \notin {chunks + 1} \X (2..ChunkSize)
  <1>1. chunks \in Nat /\ ChunkSize \in Nat /\ ChunkSize > 2
    BY BufferAssumption, ChunkAssumption DEF LogTypeOK
  <1>2. 1..(chunks + 1) = 1..chunks \cup {chunks + 1} /\ chunks + 1 \notin 1..chunks
    BY <1>1
  <1>3. 1..ChunkSize = {1} \cup 2..ChunkSize /\ 1 \notin 2..ChunkSize
    BY <1>1
  <1>. QED BY <1>2, <1>3 DEF Allocated

LEMMA Acquires ==
  ASSUME LogTypeOK, LogInv, NEW t \in Thread, AcquireBuffer(t)
  PROVE  LogTypeOK' /\ LogInv'
  <1> DEFINE message == [thread |-> t, number |-> logged[t] + 1]
             written == {writing[u] : u \in Thread} \ {NoBuffer}
  <1>1. PICK b \in Buffer :
          /\ \/ /\ buffers # {}
                /\ b = CHOOSE c \in buffers : TRUE
                /\ buffers' = buffers \ {b}
                /\ UNCHANGED chunks
             \/ /\ buffers = {}
                /\ chunks < MaxChunks
                /\ chunks' = chunks + 1
                /\ b = <<chunks + 1, 1>>
                /\ buffers' = NewBuffers(chunks + 1)
          /\ writing' = [writing EXCEPT ![t] = b]
          /\ data' = [data EXCEPT ![b] = message]
    BY DEF AcquireBuffer
  <1>2. /\ writing[t] = NoBuffer
        /\ UNCHANGED <<g_isAsync, g_stopFlushJob, g_asyncQueues, logs, logged, flush, batch, next, sunk>>
    BY DEF AcquireBuffer
  <1>3. /\ Allocated = buffers \cup Queued \cup ToSet(batch) \cup written
        /\ buffers \cap Queued = {} /\ buffers \cap ToSet(batch) = {} /\ Queued \cap ToSet(batch) = {}
        /\ \A u \in Thread : writing[u] \notin buffers \cup Queued \cup ToSet(batch)
    BY DEF LogInv, OwnedInv
  <1>4. /\ buffers' \subseteq Buffer /\ chunks' \in 0..MaxChunks
        /\ b \notin buffers' /\ b \notin Queued \cup ToSet(batch) \cup written
        /\ buffers' \cap (Queued \cup ToSet(batch) \cup written) = {}
        /\ Allocated' = buffers' \cup {b} \cup Queued \cup ToSet(batch) \cup written
    <2>0. /\ buffers \subseteq Buffer /\ chunks \in 0..MaxChunks /\ chunks \in Nat /\ MaxChunks \in Nat
          /\ ChunkSize \in Nat /\ ChunkSize > 2 /\ NoBuffer \notin Buffer
      BY BufferAssumption, ChunkAssumption DEF LogTypeOK
    <2>1. CASE buffers # {} /\ UNCHANGED chunks
      <3>1. b \in buffers /\ buffers' = buffers \ {b}
        BY <1>1, <2>1, <2>0
      <3>2. Allocated' = Allocated
        BY <2>1 DEF Allocated
      <3>3. b \notin Queued \cup ToSet(batch) \cup written /\ buffers \cap written = {}
        BY <1>3, <3>1
      <3>. HIDE DEF written
      <3>. QED BY <1>3, <2>0, <2>1, <3>1, <3>2, <3>3
    <2>2. CASE buffers = {} /\ chunks < MaxChunks /\ chunks' = chunks + 1
      <3>1. b = <<chunks + 1, 1>> /\ buffers' = {chunks + 1} \X (2..ChunkSize)
        BY <1>1, <2>0, <2>2 DEF NewBuffers
      <3>2. chunks' \in 0..MaxChunks /\ chunks + 1 \in 1..MaxChunks
        BY <2>0, <2>2
      <3>3. buffers' \subseteq Buffer
        BY <2>0, <3>1, <3>2 DEF Buffer
      <3>4. Allocated' = Allocated \cup ({chunks + 1} \X (1..ChunkSize))
        BY <2>2, AllocatedGrows
      <3>5. b \notin Allocated /\ buffers' \cap Allocated = {}
        BY <2>2, <3>1, AllocatedGrows
      <3>6. {chunks + 1} \X (1..ChunkSize) = {b} \cup buffers' /\ b \notin buffers'
        BY <2>2, <3>1, AllocatedGrows
      <3>. HIDE DEF written
      <3>. QED BY <1>3, <2>2, <3>2, <3>3, <3>4, <3>5, <3>6
    <2>. QED BY <1>1, <2>1, <2>2
  <1>5. LogTypeOK'
    <2>1. writing' \in [Thread -> Buffer \cup {NoBuffer}]
      BY <1>1 DEF LogTypeOK
    <2>2. data' \in [Buffer -> Message \cup {NoMessage}]
      <3>1. logged[t] \in Nat
        BY DEF LogTypeOK
      <3>2. message \in Message
        BY <3>1 DEF Message
      <3>. HIDE DEF message
      <3>. QED BY <1>1, <3>2 DEF LogTypeOK
    <2>. QED BY <1>2, <1>4, <2>1, <2>2 DEF LogTypeOK
  <1>6. Queued' = Queued /\ ToSet(batch)' = ToSet(batch)
    BY <1>2 DEF Queued, ToSet
  <1>7. {writing'[u] : u \in Thread} \ {NoBuffer} = written \cup {b}
    BY <1>1, <1>2, BufferAssumption DEF LogTypeOK
  <1>8. \A u \in Thread : writing'[u] = IF u = t THEN b ELSE writing[u]
    BY <1>1 DEF LogTypeOK
  <1>9. \A u \in Thread : writing[u] # b
    BY <1>4, BufferAssumption
  <1>10. OwnedInv'
    <2>1. \A u \in Thread : writing'[u] \notin buffers' \cup Queued \cup ToSet(batch)
      <3>1. NoBuffer \notin buffers'
        BY <1>4, BufferAssumption
      <3>. QED BY <1>3, <1>4, <1>8, <3>1
    <2>2. buffers' \cap Queued = {} /\ buffers' \cap ToSet(batch) = {}
      BY <1>4
    <2>3. \A u, v \in Thread : writing'[u] = writing'[v] /\ writing'[u] # NoBuffer => u = v
      BY <1>8, <1>9 DEF LogInv, OwnedInv
    <2>4. Allocated' = buffers' \cup Queued \cup ToSet(batch) \cup ({writing'[u] : u \in Thread} \ {NoBuffer})
      <3>. HIDE DEF written
      <3>. QED BY <1>4, <1>7
    <2>5. /\ \A u, v \in Thread : \A i \in DOMAIN logs[u], j \in DOMAIN logs[v] :
               logs[u][i] = logs[v][j] => u = v /\ i = j
          /\ \A i, j \in DOMAIN batch : batch[i] = batch[j] => i = j
      BY DEF LogInv, OwnedInv
    <2>. QED BY <1>2, <1>3, <1>6, <2>1, <2>2, <2>3, <2>4, <2>5 DEF OwnedInv
  <1>11. \A c \in Buffer : c # b => data'[c] = data[c]
    BY <1>1 DEF LogTypeOK
  <1>12. Out' = Out
    <2>1. ToSet(batch) \subseteq Buffer
      BY DEF LogTypeOK, ToSet
    <2>. QED BY <1>2, <1>4, <1>11, <2>1, OutKept
  <1>13. data'[b] = message
    BY <1>1 DEF LogTypeOK
  <1>14. NumberInv'
    <2>1. ASSUME NEW u \in Thread, NEW i \in DOMAIN logs[u]
          PROVE  data'[logs[u][i]] = data[logs[u][i]]
      <3>1. logs[u][i] \in Buffer /\ logs[u][i] \in ToSet(logs[u])
        BY DEF LogTypeOK, ToSet
      <3>2. logs[u][i] \in Queued
        BY <3>1 DEF Queued
      <3>. QED BY <1>4, <1>11, <3>1, <3>2
    <2>2. ASSUME NEW u \in Thread, writing'[u] # NoBuffer
          PROVE  data'[writing'[u]] = [thread |-> u, number |-> logged[u] + 1]
      <3>1. CASE u = t
        BY <1>8, <1>13, <3>1
      <3>2. CASE u # t
        <4>1. writing'[u] = writing[u] /\ writing[u] # b /\ writing[u] \in Buffer
          BY <1>8, <1>9, <2>2, <3>2 DEF LogTypeOK
        <4>. QED BY <1>11, <2>2, <4>1 DEF LogInv, NumberInv
      <3>. QED BY <3>1, <3>2
    <2>. HIDE DEF message
    <2>3. /\ \A i \in DOMAIN Out : Out[i].number = CountOf(Out, Out[i].thread, i)
          /\ \A u \in Thread :
               /\ logged[u] = CountOf(Out, u, Len(Out)) + Len(logs[u])
               /\ \A i \in DOMAIN logs[u] :
                    data'[logs[u][i]] = [thread |-> u, number |-> CountOf(Out, u, Len(Out)) + i]
      BY <2>1 DEF LogInv, NumberInv
    <2>. QED BY <1>2, <1>12, <2>2, <2>3 DEF NumberInv
  <1>. QED BY <1>5, <1>10, <1>14 DEF LogInv

\* What the invariant of the log is about.
LEMMA LogKept ==
  ASSUME LogTypeOK, LogInv, UNCHANGED <<chunks, buffers, logs, data, writing, logged, batch, next, sunk>>
  PROVE  LogInv'
  <1>1. Out' = Out
    BY OutKept
  <1>2. NumberInv'
    BY <1>1 DEF LogInv, NumberInv
  <1>3. OwnedInv'
    BY DEF LogInv, OwnedInv, Allocated, Queued
  <1>. QED BY <1>2, <1>3 DEF LogInv

LEMMA Enqueues ==
  ASSUME LogTypeOK, LogInv, NEW t \in Thread, EnqueueMessage(t)
  PROVE  LogTypeOK' /\ LogInv'
  <1> DEFINE b == writing[t]
             written == {writing[u] : u \in Thread} \ {NoBuffer}
             more == Append(logs[t], b)
  <1>1. /\ b # NoBuffer /\ b \in Buffer
        /\ logs' = [logs EXCEPT ![t] = more]
        /\ logged' = [logged EXCEPT ![t] = @ + 1]
        /\ writing' = [writing EXCEPT ![t] = NoBuffer]
        /\ UNCHANGED <<g_isAsync, g_stopFlushJob, g_asyncQueues, chunks, buffers, data, flush, batch, next, sunk>>
    BY DEF EnqueueMessage, LogTypeOK
  <1>2. logs[t] \in Seq(Buffer)
    BY DEF LogTypeOK
  <1>3. /\ more \in Seq(Buffer)
        /\ Len(more) = Len(logs[t]) + 1 /\ Len(logs[t]) \in Nat
        /\ DOMAIN more = 1..(Len(logs[t]) + 1) /\ DOMAIN logs[t] = 1..Len(logs[t])
        /\ \A i \in DOMAIN logs[t] : more[i] = logs[t][i]
        /\ more[Len(logs[t]) + 1] = b
        /\ ToSet(more) = ToSet(logs[t]) \cup {b}
    BY <1>1, <1>2, Appended
  <1>. HIDE DEF more
  <1>4. LogTypeOK'
    <2>1. logs' \in [Thread -> Seq(Buffer)]
      BY <1>1, <1>3 DEF LogTypeOK
    <2>2. logged' \in [Thread -> Nat]
      BY <1>1 DEF LogTypeOK
    <2>3. writing' \in [Thread -> Buffer \cup {NoBuffer}]
      BY <1>1 DEF LogTypeOK
    <2>. QED BY <1>1, <2>1, <2>2, <2>3 DEF LogTypeOK
  <1>5. /\ \A u \in Thread : logs'[u] = IF u = t THEN more ELSE logs[u]
        /\ \A u \in Thread : logged'[u] = IF u = t THEN logged[t] + 1 ELSE logged[u]
        /\ \A u \in Thread : writing'[u] = IF u = t THEN NoBuffer ELSE writing[u]
    BY <1>1 DEF LogTypeOK
  <1>6. /\ Allocated = buffers \cup Queued \cup ToSet(batch) \cup written
        /\ buffers \cap Queued = {} /\ buffers \cap ToSet(batch) = {} /\ Queued \cap ToSet(batch) = {}
        /\ \A u \in Thread : writing[u] \notin buffers \cup Queued \cup ToSet(batch)
        /\ \A u, v \in Thread : writing[u] = writing[v] /\ writing[u] # NoBuffer => u = v
        /\ \A u, v \in Thread : \A i \in DOMAIN logs[u], j \in DOMAIN logs[v] :
             logs[u][i] = logs[v][j] => u = v /\ i = j
        /\ \A i, j \in DOMAIN batch : batch[i] = batch[j] => i = j
    BY DEF LogInv, OwnedInv
  <1>7. /\ Allocated' = Allocated /\ ToSet(batch)' = ToSet(batch)
        /\ {writing'[u] : u \in Thread} \ {NoBuffer} = written \ {b}
        /\ b \in written
    BY <1>1, <1>5, <1>6 DEF Allocated, ToSet
  <1>8. Queued' = Queued \cup {b}
    BY <1>3, <1>5 DEF Queued
  <1>9. b \notin buffers \cup Queued \cup ToSet(batch)
    BY <1>6
  <1>10. \A u \in Thread : \A i \in DOMAIN logs[u] : logs[u][i] \in Queued
    BY DEF Queued, ToSet
  <1>11. NoBuffer \notin Allocated
    BY BufferAssumption DEF Allocated, Buffer, LogTypeOK
  <1>12. OwnedInv'
    <2>1. \A u \in Thread : writing'[u] \notin buffers \cup Queued' \cup ToSet(batch)
      <3>1. ASSUME NEW u \in Thread
            PROVE  writing'[u] \notin buffers \cup Queued' \cup ToSet(batch)
        <4>1. CASE u = t
          BY <1>1, <1>5, <1>6, <1>8, <1>11, <4>1
        <4>2. CASE u # t
          BY <1>1, <1>5, <1>6, <1>8, <4>2
        <4>. QED BY <4>1, <4>2
      <3>. QED BY <3>1
    <2>2. ASSUME NEW u \in Thread, NEW v \in Thread, NEW i \in DOMAIN logs'[u], NEW j \in DOMAIN logs'[v],
                 logs'[u][i] = logs'[v][j]
          PROVE  u = v /\ i = j
      <3>1. ASSUME NEW w \in Thread, NEW k \in DOMAIN logs'[w]
            PROVE  \/ k \in DOMAIN logs[w] /\ logs'[w][k] = logs[w][k] /\ logs'[w][k] # b
                   \/ w = t /\ k = Len(logs[t]) + 1 /\ logs'[w][k] = b
        <4>1. CASE w = t
          BY <1>3, <1>5, <1>9, <1>10, <3>1, <4>1
        <4>2. CASE w # t
          BY <1>5, <1>9, <1>10, <3>1, <4>2
        <4>. QED BY <4>1, <4>2
      <3>. HIDE DEF b
      <3>. QED BY <1>6, <2>2, <3>1
    <2>3. \A u, v \in Thread : writing'[u] = writing'[v] /\ writing'[u] # NoBuffer => u = v
      BY <1>5, <1>6
    <2>4. Allocated' = buffers \cup Queued' \cup ToSet(batch) \cup ({writing'[u] : u \in Thread} \ {NoBuffer})
      <3>. HIDE DEF written, b
      <3>. QED BY <1>6, <1>7, <1>8
    <2>5. buffers \cap Queued' = {} /\ Queued' \cap ToSet(batch) = {}
      BY <1>6, <1>8, <1>9
    <2>. QED BY <1>1, <1>6, <1>7, <2>1, <2>2, <2>3, <2>4, <2>5 DEF OwnedInv
  <1>13. Out' = Out
    BY <1>1, OutKept
  <1>14. NumberInv'
    <2> DEFINE left(u) == CountOf(Out, u, Len(Out))
    <2>1. /\ \A i \in DOMAIN Out : Out[i].number = CountOf(Out, Out[i].thread, i)
          /\ \A u \in Thread :
               /\ logged[u] = left(u) + Len(logs[u])
               /\ \A i \in DOMAIN logs[u] : data[logs[u][i]] = [thread |-> u, number |-> left(u) + i]
               /\ writing[u] # NoBuffer => data[writing[u]] = [thread |-> u, number |-> logged[u] + 1]
      BY DEF LogInv, NumberInv
    <2>2. \A u \in Thread : logged[u] \in Nat /\ Len(logs[u]) \in Nat
      BY DEF LogTypeOK
    <2>. HIDE DEF left
    <2>3. ASSUME NEW u \in Thread
          PROVE  /\ logged'[u] = left(u) + Len(logs'[u])
                 /\ \A i \in DOMAIN logs'[u] : data[logs'[u][i]] = [thread |-> u, number |-> left(u) + i]
                 /\ writing'[u] # NoBuffer => data[writing'[u]] = [thread |-> u, number |-> logged'[u] + 1]
      <3>1. CASE u # t
        BY <1>5, <2>1, <3>1
      <3>2. CASE u = t
        <4>1. left(t) \in Int
          <5>1. IsFiniteSet({j \in 1..Len(Out) : Out[j].thread = t})
            <6>1. Len(Out) \in Nat
              BY DEF LogTypeOK, Out
            <6>2. IsFiniteSet(1..Len(Out))
              BY <6>1, FS_Interval
            <6>. QED BY <6>2, FS_Subset
          <5>. QED BY <5>1, FS_CardinalityType DEF left, CountOf
        <4>a. /\ logs'[t] = more /\ logged'[t] = logged[t] + 1
              /\ logged[t] = left(t) + Len(logs[t]) /\ logged[t] \in Nat /\ Len(logs[t]) \in Nat
          BY <1>5, <2>1, <2>2
        <4>b. Len(more) = Len(logs[t]) + 1
          BY <1>3
        <4>2. logged'[t] = left(t) + Len(logs'[t])
          BY <4>a, <4>b, <4>1
        <4>3. ASSUME NEW i \in DOMAIN logs'[t]
              PROVE  data[logs'[t][i]] = [thread |-> t, number |-> left(t) + i]
          <5>1. CASE i \in DOMAIN logs[t]
            <6>1. logs'[t][i] = logs[t][i]
              BY <1>3, <4>a, <5>1
            <6>2. data[logs[t][i]] = [thread |-> t, number |-> left(t) + i]
              BY <2>1, <5>1
            <6>. QED BY <6>1, <6>2
          <5>2. CASE i = Len(logs[t]) + 1
            <6>1. logs'[t][i] = b
              BY <1>3, <1>5, <5>2
            <6>2. data[b] = [thread |-> t, number |-> logged[t] + 1]
              BY <1>1, <2>1
            <6>3. logged[t] + 1 = left(t) + i
              BY <4>a, <4>1, <5>2
            <6>. QED BY <6>1, <6>2, <6>3
          <5>. QED BY <1>3, <1>5, <4>3, <5>1, <5>2
        <4>. QED BY <1>5, <3>2, <4>2, <4>3
      <3>. QED BY <3>1, <3>2
    <2>. QED BY <1>1, <1>13, <2>1, <2>3 DEF NumberInv, left
  <1>. QED BY <1>4, <1>12, <1>14 DEF LogInv

\* Counts depend on the messages counted only, and grow one message at a time.
LEMMA Counted ==
  ASSUME NEW o, NEW p, NEW t, NEW n \in Nat, \A j \in 1..n : p[j] = o[j]
  PROVE  /\ CountOf(p, t, n) = CountOf(o, t, n) /\ CountOf(p, t, n) \in Nat
         /\ p[n + 1].thread = t => CountOf(p, t, n + 1) = CountOf(o, t, n) + 1
         /\ p[n + 1].thread # t => CountOf(p, t, n + 1) = CountOf(o, t, n)
  <1> DEFINE of(q, k) == {j \in 1..k : q[j].thread = t}
  <1>1. of(p, n) = of(o, n)
    OBVIOUS
  <1>2. IsFiniteSet(of(p, n)) /\ Cardinality(of(p, n)) \in Nat
    <2>1. IsFiniteSet(1..n)
      BY FS_Interval
    <2>2. IsFiniteSet(of(p, n))
      BY <2>1, FS_Subset
    <2>. QED BY <2>2, FS_CardinalityType
  <1>3. n + 1 \notin of(p, n) /\ 1..(n + 1) = 1..n \cup {n + 1}
    OBVIOUS
  <1>4. p[n + 1].thread = t => of(p, n + 1) = of(p, n) \cup {n + 1}
    BY <1>3
  <1>5. p[n + 1].thread # t => of(p, n + 1) = of(p, n)
    BY <1>3
  <1>6. Cardinality(of(p, n) \cup {n + 1}) = Cardinality(of(p, n)) + 1
    <2>. HIDE DEF of
    <2>. QED BY <1>2, <1>3, FS_AddElement
  <1>7. /\ CountOf(p, t, n) = Cardinality(of(p, n)) /\ CountOf(o, t, n) = Cardinality(of(o, n))
        /\ CountOf(p, t, n + 1) = Cardinality(of(p, n + 1))
    BY DEF CountOf
  <1>. HIDE DEF of
  <1>. QED BY <1>1, <1>2, <1>4, <1>5, <1>6, <1>7

LEMMA Dequeues ==
  ASSUME LogTypeOK, LogInv, NEW t \in Thread,
         logs[t] # <<>>,
         batch' = Append(batch, Head(logs[t])),
         logs' = [logs EXCEPT ![t] = Tail(@)],
         UNCHANGED <<g_isAsync, g_stopFlushJob, g_asyncQueues, chunks, buffers,
                     data, writing, logged, next, sunk, flush>>
  PROVE  LogTypeOK' /\ LogInv'
  <1> DEFINE b == Head(logs[t])
             rest == Tail(logs[t])
             more == Append(batch, b)
             n == Len(Out)
             written == {writing[u] : u \in Thread} \ {NoBuffer}
  <1>1. /\ logs[t] \in Seq(Buffer) /\ batch \in Seq(Buffer) /\ sunk \in Seq(Message)
        /\ Len(batch) \in Nat /\ Len(sunk) \in Nat /\ next \in 0..Len(batch) /\ next \in Nat
        /\ \A u \in Thread : logged[u] \in Nat /\ Len(logs[u]) \in Nat
    BY DEF LogTypeOK
  <1>2. /\ Allocated = buffers \cup Queued \cup ToSet(batch) \cup written
        /\ buffers \cap Queued = {} /\ buffers \cap ToSet(batch) = {} /\ Queued \cap ToSet(batch) = {}
        /\ \A u \in Thread : writing[u] \notin buffers \cup Queued \cup ToSet(batch)
        /\ \A u, v \in Thread : writing[u] = writing[v] /\ writing[u] # NoBuffer => u = v
        /\ \A u, v \in Thread : \A i \in DOMAIN logs[u], j \in DOMAIN logs[v] :
             logs[u][i] = logs[v][j] => u = v /\ i = j
        /\ \A i, j \in DOMAIN batch : batch[i] = batch[j] => i = j
    BY DEF LogInv, OwnedInv
  <1>3. /\ rest \in Seq(Buffer) /\ b \in Buffer /\ b = logs[t][1] /\ b \in ToSet(logs[t])
        /\ Len(logs[t]) \in Nat \ {0} /\ Len(rest) = Len(logs[t]) - 1
        /\ DOMAIN rest = 1..(Len(logs[t]) - 1) /\ DOMAIN logs[t] = 1..Len(logs[t])
        /\ \A i \in DOMAIN rest : i + 1 \in DOMAIN logs[t] /\ rest[i] = logs[t][i + 1]
        /\ ToSet(rest) = ToSet(logs[t]) \ {b}
    <2>1. \A i, j \in DOMAIN logs[t] : logs[t][i] = logs[t][j] => i = j
      BY <1>2
    <2>. QED BY <1>1, <2>1, Tailed
  <1>4. /\ more \in Seq(Buffer) /\ Len(more) = Len(batch) + 1
        /\ DOMAIN more = 1..(Len(batch) + 1) /\ DOMAIN batch = 1..Len(batch)
        /\ \A i \in DOMAIN batch : more[i] = batch[i]
        /\ more[Len(batch) + 1] = b
        /\ ToSet(more) = ToSet(batch) \cup {b}
    BY <1>1, <1>3, Appended
  <1>5. batch' = more /\ \A u \in Thread : logs'[u] = IF u = t THEN rest ELSE logs[u]
    BY DEF LogTypeOK
  <1>. HIDE DEF b, rest, more
  <1>6. LogTypeOK'
    <2>1. logs' \in [Thread -> Seq(Buffer)]
      BY <1>3 DEF LogTypeOK, rest
    <2>2. next' \in 0..Len(batch')
      BY <1>1, <1>4, <1>5
    <2>3. batch' \in Seq(Buffer)
      BY <1>4, <1>5
    <2>4. /\ g_isAsync \in BOOLEAN /\ g_stopFlushJob \in BOOLEAN
          /\ g_asyncQueues \in {"none", "alive", "freed"}
          /\ chunks \in 0..MaxChunks /\ buffers \subseteq Buffer
          /\ data \in [Buffer -> Message \cup {NoMessage}]
          /\ writing \in [Thread -> Buffer \cup {NoBuffer}]
          /\ logged \in [Thread -> Nat]
          /\ flush \in {"none", "poll", "dequeue", "sink", "ended"}
          /\ sunk \in Seq(Message)
      BY DEF LogTypeOK
    <2>. QED BY <2>1, <2>2, <2>3, <2>4 DEF LogTypeOK
  <1>7. \A u \in Thread : \A i \in DOMAIN logs[u] : logs[u][i] = b => u = t /\ i = 1
    <2>1. 1 \in DOMAIN logs[t]
      BY <1>3
    <2>. QED BY <1>2, <1>3, <2>1
  <1>8. Queued' = Queued \ {b} /\ b \in Queued
    <2>1. b \in Queued
      BY <1>3 DEF Queued
    <2>2. \A u \in Thread : u # t => b \notin ToSet(logs[u])
      BY <1>7 DEF ToSet
    <2>3. \A u \in Thread : ToSet(logs'[u]) = ToSet(logs[u]) \ {b}
      BY <1>3, <1>5, <2>2
    <2>4. Queued' = UNION {ToSet(logs'[u]) : u \in Thread} /\ Queued = UNION {ToSet(logs[u]) : u \in Thread}
      BY DEF Queued
    <2>5. \A x : x \in Queued' <=> \E u \in Thread : x \in ToSet(logs'[u])
      BY <2>4
    <2>6. \A x : x \in Queued <=> \E u \in Thread : x \in ToSet(logs[u])
      BY <2>4
    <2>7. ASSUME NEW x
          PROVE  x \in Queued' <=> x \in Queued \ {b}
      <3>1. \A u \in Thread : x \in ToSet(logs'[u]) <=> x \in ToSet(logs[u]) /\ x # b
        BY <2>3
      <3>. QED BY <2>5, <2>6, <3>1
    <2>. QED BY <2>1, <2>7
  <1>9. ToSet(batch)' = ToSet(batch) \cup {b} /\ Allocated' = Allocated
    BY <1>4, <1>5 DEF Allocated
  <1>10. OwnedInv'
    <2>1. ASSUME NEW u \in Thread, NEW v \in Thread, NEW i \in DOMAIN logs'[u], NEW j \in DOMAIN logs'[v],
                 logs'[u][i] = logs'[v][j]
          PROVE  u = v /\ i = j
      <3>1. ASSUME NEW w \in Thread, NEW k \in DOMAIN logs'[w]
            PROVE  \/ w = t /\ k \in Nat /\ k + 1 \in DOMAIN logs[w] /\ logs'[w][k] = logs[w][k + 1]
                   \/ w # t /\ k \in DOMAIN logs[w] /\ logs'[w][k] = logs[w][k]
        <4>1. CASE w = t
          BY <1>3, <1>5, <3>1, <4>1
        <4>2. CASE w # t
          BY <1>5, <3>1, <4>2
        <4>. QED BY <4>1, <4>2
      <3>2. CASE u = t
        <4>1. v = t
          BY <1>2, <2>1, <3>1, <3>2
        <4>2. i + 1 = j + 1 /\ i \in Nat /\ j \in Nat
          BY <1>2, <2>1, <3>1, <3>2, <4>1
        <4>. QED BY <3>2, <4>1, <4>2
      <3>3. CASE u # t
        BY <1>2, <2>1, <3>1, <3>3
      <3>. QED BY <3>2, <3>3
    <2>2. \A i, j \in DOMAIN more : more[i] = more[j] => i = j
      <3>1. b \notin ToSet(batch)
        BY <1>2, <1>8
      <3>2. \A i \in DOMAIN batch : batch[i] # b
        BY <3>1 DEF ToSet
      <3>3. DOMAIN more = DOMAIN batch \cup {Len(batch) + 1}
        BY <1>1, <1>4
      <3>. QED BY <1>2, <1>4, <3>2, <3>3
    <2>3. Allocated' = buffers \cup Queued' \cup ToSet(batch)' \cup written
      <3>. HIDE DEF written
      <3>. QED BY <1>2, <1>8, <1>9
    <2>4. /\ buffers \cap Queued' = {} /\ buffers \cap ToSet(batch)' = {} /\ Queued' \cap ToSet(batch)' = {}
          /\ \A u \in Thread : writing[u] \notin buffers \cup Queued' \cup ToSet(batch)'
      BY <1>2, <1>8, <1>9
    <2>5. \A i, j \in DOMAIN batch' : batch'[i] = batch'[j] => i = j
      BY <1>5, <2>2
    <2>6. ToSet(batch') = ToSet(batch)'
      OBVIOUS
    <2>7. \A u, v \in Thread : writing'[u] = writing'[v] /\ writing'[u] # NoBuffer => u = v
      BY <1>2
    <2>8. \A u, v \in Thread : \A i \in DOMAIN logs'[u], j \in DOMAIN logs'[v] :
            logs'[u][i] = logs'[v][j] => u = v /\ i = j
      BY <2>1
    <2>. QED BY <2>3, <2>4, <2>5, <2>7, <2>8 DEF OwnedInv
  <1>11. /\ n \in Nat /\ n = Len(sunk) + Len(batch) - next /\ DOMAIN Out = 1..n
         /\ DOMAIN Out' = 1..(n + 1) /\ Len(Out') = n + 1
    BY <1>1, <1>4, <1>5 DEF Out
  <1>12. \A i \in 1..n : Out'[i] = Out[i]
    <2>1. ASSUME NEW i \in 1..n, ~ (i <= Len(sunk))
          PROVE  more[next + i - Len(sunk)] = batch[next + i - Len(sunk)]
      <3>1. next + i - Len(sunk) \in 1..Len(batch)
        BY <1>1, <1>11, <2>1
      <3>. QED BY <1>4, <3>1
    <2>. QED BY <1>1, <1>4, <1>5, <1>11, <2>1 DEF Out
  <1>13. Out'[n + 1] = data[b]
    <2>1. /\ next' + (n + 1) - Len(sunk') = Len(batch) + 1 /\ ~ (n + 1 <= Len(sunk'))
          /\ n + 1 \in 1..(Len(sunk') + Len(batch') - next')
      BY <1>1, <1>4, <1>5, <1>11
    <2>2. Out'[n + 1] = data'[batch'[Len(batch) + 1]]
      BY <2>1 DEF Out
    <2>. QED BY <1>4, <1>5, <2>2
  <1> DEFINE left(u) == CountOf(Out, u, n)
  <1>14. /\ \A i \in 1..n : Out[i].number = CountOf(Out, Out[i].thread, i)
         /\ \A u \in Thread :
              /\ logged[u] = left(u) + Len(logs[u])
              /\ \A i \in DOMAIN logs[u] : data[logs[u][i]] = [thread |-> u, number |-> left(u) + i]
              /\ writing[u] # NoBuffer => data[writing[u]] = [thread |-> u, number |-> logged[u] + 1]
    BY <1>11 DEF LogInv, NumberInv
  <1>15. data[b] = [thread |-> t, number |-> left(t) + 1]
    <2>1. 1 \in DOMAIN logs[t]
      BY <1>3
    <2>. QED BY <1>3, <1>14, <2>1
  <1>16. ASSUME NEW u
         PROVE  /\ CountOf(Out', u, n + 1) = IF u = t THEN left(u) + 1 ELSE left(u)
                /\ left(u) \in Nat
    <2>1. Out'[n + 1].thread = t
      BY <1>13, <1>15
    <2>2. /\ CountOf(Out', u, n) = CountOf(Out, u, n) /\ CountOf(Out', u, n) \in Nat
          /\ Out'[n + 1].thread = u => CountOf(Out', u, n + 1) = CountOf(Out, u, n) + 1
          /\ Out'[n + 1].thread # u => CountOf(Out', u, n + 1) = CountOf(Out, u, n)
      <3>1. n \in Nat
        BY <1>11
      <3>. HIDE DEF n
      <3>. QED BY <1>12, <3>1, Counted
    <2>. QED BY <2>1, <2>2
  <1>17. ASSUME NEW i \in 1..(n + 1)
         PROVE  Out'[i].number = CountOf(Out', Out'[i].thread, i)
    <2>1. CASE i \in 1..n
      <3>1. CountOf(Out', Out[i].thread, i) = CountOf(Out, Out[i].thread, i)
        <4>1. i \in Nat /\ \A j \in 1..i : Out'[j] = Out[j]
          BY <1>11, <1>12, <2>1
        <4>. QED BY <4>1, Counted
      <3>. QED BY <1>12, <1>14, <2>1, <3>1
    <2>2. CASE i = n + 1
      <3>. HIDE DEF left
      <3>. QED BY <1>13, <1>15, <1>16, <2>2
    <2>. QED BY <1>11, <1>17, <2>1, <2>2
  <1>18. ASSUME NEW u \in Thread
         PROVE  /\ logged[u] = CountOf(Out', u, n + 1) + Len(logs'[u])
                /\ \A i \in DOMAIN logs'[u] :
                     data[logs'[u][i]] = [thread |-> u, number |-> CountOf(Out', u, n + 1) + i]
    <2>. HIDE DEF left
    <2>1. CASE u # t
      <3>1. CountOf(Out', u, n + 1) = left(u) /\ logs'[u] = logs[u]
        BY <1>5, <1>16, <2>1
      <3>. QED BY <1>14, <3>1
    <2>2. CASE u = t
      <3>1. CountOf(Out', u, n + 1) = left(t) + 1 /\ logs'[u] = rest /\ left(t) \in Nat
        BY <1>5, <1>16, <2>2
      <3>2. logged[t] = left(t) + Len(logs[t])
        BY <1>14
      <3>3. ASSUME NEW i \in DOMAIN rest
            PROVE  data[rest[i]] = [thread |-> t, number |-> (left(t) + 1) + i]
        <4>1. i + 1 \in DOMAIN logs[t] /\ rest[i] = logs[t][i + 1] /\ i \in Nat
          BY <1>3
        <4>2. data[logs[t][i + 1]] = [thread |-> t, number |-> left(t) + (i + 1)]
          BY <1>14, <4>1
        <4>3. left(t) + (i + 1) = (left(t) + 1) + i
          BY <3>1, <4>1
        <4>. QED BY <4>1, <4>2, <4>3
      <3>4. logged[t] = (left(t) + 1) + Len(rest)
        BY <1>3, <3>1, <3>2
      <3>. QED BY <2>2, <3>1, <3>3, <3>4
    <2>. QED BY <2>1, <2>2
  <1>19. NumberInv'
    BY <1>11, <1>14, <1>17, <1>18 DEF NumberInv
  <1>. QED BY <1>6, <1>10, <1>19 DEF LogInv

LEMMA Sinks ==
  ASSUME LogTypeOK, LogInv, FlushSinks
  PROVE  LogTypeOK' /\ LogInv'
  <1>1. /\ batch \in Seq(Buffer) /\ sunk \in Seq(Message)
        /\ Len(batch) \in Nat /\ Len(sunk) \in Nat /\ next \in 0..Len(batch) /\ next \in Nat
        /\ DOMAIN batch = 1..Len(batch) /\ DOMAIN sunk = 1..Len(sunk)
        /\ data \in [Buffer -> Message \cup {NoMessage}]
    BY DEF LogTypeOK
  <1>2. UNCHANGED <<g_isAsync, g_stopFlushJob, g_asyncQueues, chunks, logs, data, writing, logged>>
    BY DEF FlushSinks
  <1>3. /\ g_isAsync \in BOOLEAN /\ g_stopFlushJob \in BOOLEAN
        /\ g_asyncQueues \in {"none", "alive", "freed"}
        /\ chunks \in 0..MaxChunks /\ buffers \subseteq Buffer
        /\ logs \in [Thread -> Seq(Buffer)]
        /\ writing \in [Thread -> Buffer \cup {NoBuffer}]
        /\ logged \in [Thread -> Nat]
    BY DEF LogTypeOK
  <1> DEFINE written == {writing[u] : u \in Thread} \ {NoBuffer}
  <1>4. /\ Allocated = buffers \cup Queued \cup ToSet(batch) \cup written
        /\ buffers \cap Queued = {} /\ buffers \cap ToSet(batch) = {} /\ Queued \cap ToSet(batch) = {}
        /\ \A u \in Thread : writing[u] \notin buffers \cup Queued \cup ToSet(batch)
        /\ \A u, v \in Thread : writing[u] = writing[v] /\ writing[u] # NoBuffer => u = v
        /\ \A u, v \in Thread : \A i \in DOMAIN logs[u], j \in DOMAIN logs[v] :
             logs[u][i] = logs[v][j] => u = v /\ i = j
        /\ \A i, j \in DOMAIN batch : batch[i] = batch[j] => i = j
    BY DEF LogInv, OwnedInv
  <1>5. Allocated' = Allocated /\ Queued' = Queued
    BY <1>2 DEF Allocated, Queued
  <1>6. ASSUME Out' = Out
        PROVE  NumberInv'
    BY <1>2, <1>6 DEF LogInv, NumberInv
  <1>7. CASE /\ next < Len(batch)
             /\ sunk' = Append(sunk, data[batch[next + 1]])
             /\ next' = next + 1
             /\ UNCHANGED <<flush, batch, buffers>>
    <2> DEFINE k == Len(sunk)
               message == data[batch[next + 1]]
    <2>1. next + 1 \in 1..Len(batch)
      BY <1>1, <1>7
    <2>2. k + 1 \in DOMAIN Out /\ Out[k + 1] = message
      <3>1. k + 1 \in 1..(k + Len(batch) - next) /\ next + (k + 1) - k = next + 1 /\ ~ (k + 1 <= k)
        BY <1>1, <2>1
      <3>. QED BY <3>1 DEF Out
    <2>3. message \in Message
      <3>1. batch[next + 1] \in Buffer /\ batch[next + 1] \in ToSet(batch)
        BY <1>1, <2>1 DEF ToSet
      <3>2. message \in Message \cup {NoMessage}
        BY <1>1, <3>1
      <3>3. message.number = CountOf(Out, message.thread, k + 1)
        BY <2>2 DEF LogInv, NumberInv
      <3>4. message # NoMessage
        <4>1. k + 1 \in {j \in 1..(k + 1) : Out[j].thread = message.thread}
          BY <1>1, <2>2
        <4>2. IsFiniteSet({j \in 1..(k + 1) : Out[j].thread = message.thread})
          <5>1. IsFiniteSet(1..(k + 1))
            BY <1>1, FS_Interval
          <5>. QED BY <5>1, FS_Subset
        <4>3. message.number # 0
          BY <3>3, <4>1, <4>2, FS_EmptySet DEF CountOf
        <4>. QED BY <4>3 DEF NoMessage
      <3>. QED BY <3>2, <3>4
    <2>. HIDE DEF message
    <2>4. /\ sunk' \in Seq(Message) /\ Len(sunk') = k + 1
          /\ \A i \in 1..k : sunk'[i] = sunk[i]
          /\ sunk'[k + 1] = message
      <3>1. sunk' = Append(sunk, message)
        BY <1>7 DEF message
      <3>. QED BY <1>1, <2>3, <3>1, Appended
    <2>5. LogTypeOK'
      <3>1. next' \in 0..Len(batch')
        BY <1>1, <1>7
      <3>2. flush \in {"none", "poll", "dequeue", "sink", "ended"}
        BY DEF LogTypeOK
      <3>. QED BY <1>1, <1>2, <1>3, <1>7, <2>4, <3>1, <3>2 DEF LogTypeOK
    <2>6. Out' = Out
      <3>1. Len(sunk') + Len(batch') - next' = k + Len(batch) - next
        BY <1>1, <1>7, <2>4
      <3>2. ASSUME NEW i \in 1..(k + Len(batch) - next)
            PROVE  (IF i <= Len(sunk') THEN sunk'[i] ELSE data'[batch'[next' + i - Len(sunk')]]) = Out[i]
        <4>1. CASE i <= k
          BY <1>1, <2>4, <3>2, <4>1 DEF Out
        <4>2. CASE i = k + 1
          BY <1>1, <2>2, <2>4, <4>2
        <4>3. CASE ~ (i <= k + 1)
          <5>1. next' + i - Len(sunk') = next + i - Len(sunk)
            BY <1>1, <1>7, <2>4
          <5>. QED BY <1>1, <1>2, <1>7, <2>4, <3>2, <4>3, <5>1 DEF Out
        <4>. QED BY <1>1, <3>2, <4>1, <4>2, <4>3
      <3>3. Out' = [i \in 1..(k + Len(batch) - next) |-> Out[i]]
        BY <3>1, <3>2 DEF Out
      <3>. QED BY <3>3 DEF Out
    <2>7. OwnedInv'
      BY <1>2, <1>4, <1>5, <1>7 DEF OwnedInv
    <2>. QED BY <1>6, <2>5, <2>6, <2>7 DEF LogInv
  <1>8. CASE /\ next = Len(batch)
             /\ buffers' = buffers \cup ToSet(batch)
             /\ batch' = <<>>
             /\ next' = 0
             /\ flush' = "poll"
             /\ UNCHANGED sunk
    <2>1. ToSet(batch) \subseteq Buffer
      BY <1>1 DEF ToSet
    <2>2. batch' \in Seq(Buffer) /\ Len(batch') = 0 /\ ToSet(batch') = {} /\ DOMAIN batch' = {}
      BY <1>8 DEF ToSet
    <2>3. LogTypeOK'
      BY <1>1, <1>2, <1>3, <1>8, <2>1, <2>2 DEF LogTypeOK
    <2>4. Out' = Out
      <3>1. Len(sunk') + Len(batch') - next' = Len(sunk) /\ Len(sunk) + Len(batch) - next = Len(sunk)
        BY <1>1, <1>8, <2>2
      <3>2. Out' = [i \in 1..Len(sunk) |-> sunk[i]] /\ Out = [i \in 1..Len(sunk) |-> sunk[i]]
        BY <1>1, <1>8, <3>1 DEF Out
      <3>. QED BY <3>2
    <2>5. OwnedInv'
      <3>. HIDE DEF written
      <3>1. /\ Allocated' = buffers' \cup Queued' \cup ToSet(batch') \cup written
            /\ buffers' \cap Queued' = {} /\ buffers' \cap ToSet(batch') = {} /\ Queued' \cap ToSet(batch') = {}
            /\ \A u \in Thread : writing[u] \notin buffers' \cup Queued' \cup ToSet(batch')
        BY <1>4, <1>5, <1>8, <2>2
      <3>. QED BY <1>2, <1>4, <2>2, <3>1 DEF OwnedInv, written
    <2>. QED BY <1>6, <2>3, <2>4, <2>5 DEF LogInv
  <1>. QED BY <1>7, <1>8 DEF FlushSinks

\* A step of the flush job.
LEMMA Flushes ==
  ASSUME LogTypeOK, LogInv, FlushStep
  PROVE  LogTypeOK' /\ LogInv'
  <1>1. CASE FlushPolls
    <2>1. LogTypeOK'
      BY <1>1 DEF FlushPolls, LogTypeOK
    <2>. QED BY <1>1, <2>1, LogKept DEF FlushPolls
  <1>2. CASE FlushDequeues
    <2>1. CASE \E t \in Thread :
                 /\ Len(batch) < BatchSize
                 /\ logs[t] # <<>>
                 /\ batch' = Append(batch, Head(logs[t]))
                 /\ logs' = [logs EXCEPT ![t] = Tail(@)]
                 /\ UNCHANGED flush
      BY <1>2, <2>1, Dequeues DEF FlushDequeues
    <2>2. CASE flush' = "sink" /\ UNCHANGED <<batch, logs>>
      <3>1. UNCHANGED <<g_isAsync, g_stopFlushJob, g_asyncQueues, chunks, buffers,
                        data, writing, logged, next, sunk>>
        BY <1>2 DEF FlushDequeues
      <3>2. LogTypeOK'
        BY <2>2, <3>1 DEF LogTypeOK
      <3>. QED BY <2>2, <3>1, <3>2, LogKept
    <2>. QED BY <1>2, <2>1, <2>2 DEF FlushDequeues
  <1>3. CASE FlushSinks
    BY <1>3, Sinks
  <1>. QED BY <1>1, <1>2, <1>3 DEF FlushStep

\* The steps of the log module itself, and the start of its job.
LEMMA LogControls ==
  ASSUME LogTypeOK, LogInv, LogStartup \/ FlushBegins \/ LogStops \/ LogFrees \/ UNCHANGED logVars
  PROVE  LogTypeOK' /\ LogInv'
  <1>1. LogTypeOK'
    BY DEF LogStartup, FlushBegins, LogStops, LogFrees, logVars, LogTypeOK
  <1>2. UNCHANGED <<chunks, buffers, logs, data, writing, logged, batch, next, sunk>>
    BY DEF LogStartup, FlushBegins, LogStops, LogFrees, logVars
  <1>. QED BY <1>1, <1>2, LogKept

-------------------------------------------------------------------------------
(* Modules *)

\* The calls of a stack of startups that makes one more load, or gives one back.
LEMMA StackPushed ==
  ASSUME NEW s \in Seq([module : Module, asked : Nat]), NEW m \in Module,
         \A i \in DOMAIN s : s[i].module # m,
         \A i, j \in DOMAIN s : s[i].module = s[j].module => i = j,
         NEW p, p = Append(s, [module |-> m, asked |-> 0])
  PROVE  /\ p \in Seq([module : Module, asked : Nat]) /\ p # <<>>
         /\ \A i, j \in DOMAIN p : p[i].module = p[j].module => i = j
         /\ \A n : (\E i \in DOMAIN p : p[i].module = n) <=> n = m \/ \E i \in DOMAIN s : s[i].module = n
  <1> DEFINE Call == [module : Module, asked : Nat]
             c == [module |-> m, asked |-> 0]
  <1>1. c \in Call /\ c.module = m
    OBVIOUS
  <1>. HIDE DEF c, Call
  <1>2. /\ p \in Seq(Call) /\ Len(p) = Len(s) + 1 /\ Len(s) \in Nat
        /\ DOMAIN p = 1..(Len(s) + 1) /\ DOMAIN s = 1..Len(s)
        /\ \A i \in DOMAIN s : p[i] = s[i]
        /\ p[Len(s) + 1] = c
    <2>1. p = Append(s, c) /\ s \in Seq(Call)
      BY DEF c, Call
    <2>. QED BY <1>1, <2>1, Appended
  <1>3. DOMAIN p = DOMAIN s \cup {Len(s) + 1} /\ p # <<>>
    BY <1>2
  <1>4. \A i, j \in DOMAIN p : p[i].module = p[j].module => i = j
    BY <1>1, <1>2, <1>3
  <1>5. \A n : (\E i \in DOMAIN p : p[i].module = n) <=> n = m \/ \E i \in DOMAIN s : s[i].module = n
    BY <1>1, <1>2, <1>3
  <1>. QED BY <1>2, <1>3, <1>4, <1>5 DEF Call

\* What is left of a stack of startups when the last one returns.
Leaves(s, p) ==
  /\ p \in Seq([module : Module, asked : Nat])
  /\ Last(s) = s[Len(s)] /\ Len(s) \in DOMAIN s /\ Last(s).module \in Module
  /\ \A i, j \in DOMAIN p : p[i].module = p[j].module => i = j
  /\ \A n : (\E i \in DOMAIN p : p[i].module = n)
              <=> n # Last(s).module /\ \E i \in DOMAIN s : s[i].module = n
  /\ p # <<>> => Last(p) = p[Len(p)] /\ Len(p) \in DOMAIN p /\ Last(p).module \in Module

LEMMA StackPopped ==
  ASSUME NEW s \in Seq([module : Module, asked : Nat]), s # <<>>,
         \A i, j \in DOMAIN s : s[i].module = s[j].module => i = j
  PROVE  Leaves(s, Front(s))
  <1> DEFINE p == Front(s)
  <1> DEFINE Call == [module : Module, asked : Nat]
             l == Len(s)
  <1>1. /\ l \in Nat \ {0} /\ DOMAIN s = 1..l /\ l \in DOMAIN s /\ Last(s) = s[l]
        /\ \A i \in DOMAIN s : s[i].module \in Module
    <2>1. l \in Nat \ {0} /\ DOMAIN s = 1..l
      OBVIOUS
    <2>2. ASSUME NEW i \in DOMAIN s
          PROVE  s[i].module \in Module
      <3>1. s[i] \in Call
        <4>. HIDE DEF Call
        <4>1. s \in Seq(Call)
          BY DEF Call
        <4>. QED BY <4>1
      <3>. QED BY <3>1
    <2>. QED BY <2>1, <2>2 DEF Last
  <1>2. /\ p \in Seq(Call) /\ Len(p) = l - 1 /\ DOMAIN p = 1..(l - 1)
        /\ \A i \in DOMAIN p : p[i] = s[i]
    <2>. HIDE DEF Call
    <2>1. s \in Seq(Call)
      BY DEF Call
    <2>. QED BY <1>1, <2>1 DEF Front
  <1>. HIDE DEF p, l, Call
  <1>3. DOMAIN p = DOMAIN s \ {l} /\ (p # <<>> => Len(p) \in DOMAIN p)
    BY <1>1, <1>2
  <1>4. \A i, j \in DOMAIN p : p[i].module = p[j].module => i = j
    BY <1>2, <1>3
  <1>5. \A n : (\E i \in DOMAIN p : p[i].module = n)
                  <=> n # Last(s).module /\ \E i \in DOMAIN s : s[i].module = n
    BY <1>1, <1>2, <1>3
  <1>6. p # <<>> => Last(p) = p[Len(p)] /\ Last(p).module \in Module
    BY <1>1, <1>2, <1>3 DEF Last
  <1>7. Leaves(s, p)
    BY <1>1, <1>2, <1>3, <1>4, <1>5, <1>6 DEF l, Call, Leaves
  <1>. QED BY <1>7 DEF p

LEMMA Loads ==
  ASSUME ManagerTypeOK, ModulesInv, phase = "init", phase' = phase,
         NEW r \in Request, NEW s \in Seq([module : Module, asked : Nat]),
         DOMAIN s = DOMAIN stack, \A i \in DOMAIN s : s[i].module = stack[i].module,
         s = <<>> <=> stack = <<>>,
         Load(r, s)
  PROVE  ManagerTypeOK' /\ ModulesInv'
  <1> DEFINE m == r.module
             Call == [module : Module, asked : Nat]
  <1>1. /\ m \in Module
        /\ m_state \in {"idle", "loading"}
        /\ m_state' = StateIn(stack')
        /\ UNCHANGED <<loadOrder, m_nextLoadIndex, sorted>>
    BY DEF Load, Request
  <1>2. /\ m_modules \in [Module -> {"absent", "starting", "started", "finalized"}]
        /\ loadOrder \in [Module -> Nat] /\ m_nextLoadIndex \in Nat
        /\ obtained \in [Module -> SUBSET Module]
        /\ s \in Seq(Call)
    BY DEF ManagerTypeOK
  <1>3. /\ sorted = {} /\ sorted \subseteq Module
        /\ \A i, j \in DOMAIN s : s[i].module = s[j].module => i = j
        /\ \A n \in Module : m_modules[n] = "starting" <=> \E i \in DOMAIN s : s[i].module = n
    BY <1>1 DEF ModulesInv, SortedInv, StackInv, ShuttingDown
  <1>4. /\ m_modules' \in [Module -> {"absent", "starting", "started", "finalized"}]
        /\ obtained' \in [Module -> SUBSET Module]
        /\ stack' \in Seq(Call)
        /\ Loaded' = Loaded
        /\ \A n \in Module : m_modules'[n] = m_modules[n] \/ (n = m /\ m_modules[n] = "absent" /\ m_modules'[n] = "starting")
        /\ \A n \in Module : m_modules'[n] # "absent" =>
             \/ obtained'[n] \subseteq obtained[n] /\ m_modules[n] # "absent"
             \/ n \notin Loaded /\ obtained'[n] \subseteq (IF m_modules[n] = "absent" THEN {} ELSE obtained[n]) \cup Loaded
        /\ \A i, j \in DOMAIN stack' : stack'[i].module = stack'[j].module => i = j
        /\ \A n \in Module : m_modules'[n] = "starting" <=> \E i \in DOMAIN stack' : stack'[i].module = n
    <2>. HIDE DEF Call
    <2>1. CASE /\ r.by = "type" /\ m \in Loaded
               /\ obtained' = Receive(s, m)
               /\ stack' = s
               /\ UNCHANGED m_modules
      <3>1. Loaded' = Loaded
        BY <2>1 DEF Loaded
      <3>2. CASE s = <<>>
        BY <1>2, <1>3, <2>1, <3>1, <3>2 DEF Receive
      <3>3. CASE s # <<>>
        <4>1. Last(s) = s[Len(s)] /\ Len(s) \in DOMAIN s /\ Last(s).module \in Module
          BY <1>3, <3>3, StackPopped DEF Leaves
        <4>2. m_modules[Last(s).module] = "starting"
          BY <1>3, <4>1
        <4>3. Last(s).module \notin Loaded
          BY <4>2 DEF Loaded
        <4>4. obtained' = [obtained EXCEPT ![Last(s).module] = @ \cup {m}]
          BY <2>1, <3>3 DEF Receive
        <4>5. /\ obtained' \in [Module -> SUBSET Module]
              /\ \A n \in Module : n # Last(s).module => obtained'[n] = obtained[n]
              /\ obtained'[Last(s).module] = obtained[Last(s).module] \cup {m}
          BY <1>1, <1>2, <4>1, <4>4
        <4>. QED BY <1>2, <1>3, <2>1, <3>1, <4>1, <4>2, <4>3, <4>5
      <3>. QED BY <3>2, <3>3
    <2>2. CASE stack' = s /\ UNCHANGED <<m_modules, obtained>>
      BY <1>2, <1>3, <2>2 DEF Loaded
    <2>3. CASE /\ m_modules[m] = "absent"
               /\ m_modules' = [m_modules EXCEPT ![m] = "starting"]
               /\ obtained' = [obtained EXCEPT ![m] = {}]
               /\ stack' = Append(s, [module |-> m, asked |-> 0])
      <3>1. \A i \in DOMAIN s : s[i].module # m
        BY <1>1, <1>3, <2>3
      <3>2. /\ stack' \in Seq(Call)
            /\ \A i, j \in DOMAIN stack' : stack'[i].module = stack'[j].module => i = j
            /\ \A n : (\E i \in DOMAIN stack' : stack'[i].module = n) <=> n = m \/ \E i \in DOMAIN s : s[i].module = n
        <4>. DEFINE p == stack'
        <4>1. p = Append(s, [module |-> m, asked |-> 0]) /\ m \in Module
          BY <1>1, <2>3
        <4>2. \A i, j \in DOMAIN s : s[i].module = s[j].module => i = j
          BY <1>3
        <4>. HIDE DEF p, m
        <4>3. /\ p \in Seq([module : Module, asked : Nat]) /\ p # <<>>
              /\ \A i, j \in DOMAIN p : p[i].module = p[j].module => i = j
              /\ \A n : (\E i \in DOMAIN p : p[i].module = n) <=> n = m \/ \E i \in DOMAIN s : s[i].module = n
          BY <3>1, <4>1, <4>2, StackPushed
        <4>. QED BY <4>3 DEF Call, p, m
      <3>3. /\ m_modules' \in [Module -> {"absent", "starting", "started", "finalized"}]
            /\ obtained' \in [Module -> SUBSET Module]
            /\ \A n \in Module : m_modules'[n] = IF n = m THEN "starting" ELSE m_modules[n]
            /\ \A n \in Module : obtained'[n] = IF n = m THEN {} ELSE obtained[n]
        BY <1>1, <1>2, <2>3
      <3>4. Loaded' = Loaded
        BY <2>3, <3>3 DEF Loaded
      <3>5. m \notin Loaded
        BY <2>3 DEF Loaded
      <3>6. ASSUME NEW n \in Module
            PROVE  /\ m_modules'[n] = m_modules[n]
                        \/ (n = m /\ m_modules[n] = "absent" /\ m_modules'[n] = "starting")
                   /\ m_modules'[n] # "absent" =>
                        \/ obtained'[n] \subseteq obtained[n] /\ m_modules[n] # "absent"
                        \/ n \notin Loaded /\ obtained'[n] \subseteq (IF m_modules[n] = "absent" THEN {} ELSE obtained[n]) \cup Loaded
                   /\ m_modules'[n] = "starting" <=> \E i \in DOMAIN stack' : stack'[i].module = n
        <4>1. CASE n = m
          BY <2>3, <3>2, <3>3, <3>5, <4>1
        <4>2. CASE n # m
          BY <1>3, <3>2, <3>3, <4>2
        <4>. QED BY <4>1, <4>2
      <3>. QED BY <3>2, <3>3, <3>4, <3>6
    <2>. QED BY <2>1, <2>2, <2>3 DEF Load
  <1>5. m_state' = IF stack' = <<>> THEN "idle" ELSE "loading"
    BY <1>1 DEF StateIn
  <1>6. ManagerTypeOK'
    BY <1>1, <1>2, <1>3, <1>4, <1>5 DEF ManagerTypeOK
  <1>7. StackInv'
    BY <1>4, <1>5 DEF StackInv
  <1>8. OrderInv'
    BY <1>1, <1>4 DEF ModulesInv, OrderInv
  <1>9. ObtainedInv'
    <2>1. ASSUME NEW n \in Module, m_modules'[n] # "absent", NEW d \in obtained'[n]
          PROVE  d \in Loaded /\ (n \in Loaded => loadOrder[d] < loadOrder[n])
      BY <1>4, <2>1 DEF ModulesInv, ObtainedInv
    <2>. QED BY <1>1, <1>4, <2>1 DEF ObtainedInv
  <1>10. FinalizedInv'
    <2>1. Loaded \subseteq Module /\ \A n \in Loaded : m_modules'[n] = m_modules[n]
      BY <1>4 DEF Loaded
    <2>2. \A n \in Module : m_modules'[n] # "finalized"
      BY <1>1, <1>4 DEF ModulesInv, FinalizedInv
    <2>. QED BY <1>1, <1>4, <2>1, <2>2 DEF ModulesInv, FinalizedInv
  <1>11. SortedInv'
    BY <1>1, <1>3, <1>5 DEF SortedInv, ShuttingDown
  <1>. QED BY <1>6, <1>7, <1>8, <1>9, <1>10, <1>11 DEF ModulesInv

\* The startup at the top returns: what it leaves of the stack.
LEMMA Returned ==
  ASSUME ManagerTypeOK, ModulesInv, NEW m, StartupDone(m), stack' = Front(stack), m_state' = StateIn(stack')
  PROVE  /\ m \in Module /\ m_modules[m] = "starting" /\ m \notin Loaded
         /\ m_state \in {"loading"} /\ phase = "init" /\ sorted = {}
         /\ stack' \in Seq([module : Module, asked : Nat])
         /\ m_state' = IF stack' = <<>> THEN "idle" ELSE "loading"
         /\ \A i, j \in DOMAIN stack' : stack'[i].module = stack'[j].module => i = j
         /\ \A n \in Module : (\E i \in DOMAIN stack' : stack'[i].module = n)
                                <=> n # m /\ m_modules[n] = "starting"
         /\ stack' # <<>> => /\ Last(stack').module \in Module \ {m}
                             /\ m_modules[Last(stack').module] = "starting"
  <1>1. stack # <<>> /\ m = Last(stack).module
    BY DEF StartupDone
  <1>2. /\ \A i, j \in DOMAIN stack : stack[i].module = stack[j].module => i = j
        /\ \A n \in Module : m_modules[n] = "starting" <=> \E i \in DOMAIN stack : stack[i].module = n
        /\ m_state = "loading"
        /\ stack \in Seq([module : Module, asked : Nat])
    BY <1>1 DEF ModulesInv, StackInv, ManagerTypeOK
  <1>3. phase = "init" /\ sorted = {}
    BY <1>1, <1>2 DEF ModulesInv, SortedInv, ShuttingDown
  <1>4. m_state' = IF stack' = <<>> THEN "idle" ELSE "loading"
    BY DEF StateIn
  <1> DEFINE p == stack'
  <1>5. p = Front(stack)
    OBVIOUS
  <1>. HIDE DEF p
  <1>6. /\ p \in Seq([module : Module, asked : Nat])
        /\ Last(stack) = stack[Len(stack)] /\ Len(stack) \in DOMAIN stack /\ Last(stack).module \in Module
        /\ \A i, j \in DOMAIN p : p[i].module = p[j].module => i = j
        /\ \A n : (\E i \in DOMAIN p : p[i].module = n)
                    <=> n # Last(stack).module /\ \E i \in DOMAIN stack : stack[i].module = n
        /\ p # <<>> => Last(p) = p[Len(p)] /\ Len(p) \in DOMAIN p /\ Last(p).module \in Module
    <2>1. Leaves(stack, Front(stack))
      BY <1>1, <1>2, StackPopped
    <2>. QED BY <1>5, <2>1 DEF Leaves
  <1>7. m \in Module /\ m_modules[m] = "starting"
    BY <1>1, <1>2, <1>6
  <1>8. \A n \in Module : (\E i \in DOMAIN p : p[i].module = n) <=> n # m /\ m_modules[n] = "starting"
    BY <1>1, <1>2, <1>6
  <1>9. p # <<>> => Last(p).module \in Module \ {m} /\ m_modules[Last(p).module] = "starting"
    BY <1>6, <1>8
  <1>10. m \notin Loaded
    BY <1>7 DEF Loaded
  <1>. QED BY <1>2, <1>3, <1>4, <1>6, <1>7, <1>8, <1>9, <1>10 DEF p

LEMMA Starts ==
  ASSUME ManagerTypeOK, ModulesInv, NEW m, StartupSucceeds(m), phase' = phase
  PROVE  /\ ManagerTypeOK' /\ ModulesInv'
         /\ m \in Module \ Loaded /\ Loaded' = Loaded \cup {m} /\ phase = "init"
  <1>1. /\ StartupDone(m) /\ stack' = Front(stack) /\ m_state' = StateIn(stack')
        /\ m_modules' = [m_modules EXCEPT ![m] = "started"]
        /\ m_nextLoadIndex' = m_nextLoadIndex + 1
        /\ loadOrder' = [loadOrder EXCEPT ![m] = m_nextLoadIndex + 1]
        /\ obtained' = Receive(stack', m)
        /\ UNCHANGED sorted
    BY DEF StartupSucceeds
  <1>2. /\ m \in Module /\ m_modules[m] = "starting" /\ m \notin Loaded
        /\ m_state \in {"loading"} /\ phase = "init" /\ sorted = {}
        /\ stack' \in Seq([module : Module, asked : Nat])
        /\ m_state' = IF stack' = <<>> THEN "idle" ELSE "loading"
        /\ \A i, j \in DOMAIN stack' : stack'[i].module = stack'[j].module => i = j
        /\ \A n \in Module : (\E i \in DOMAIN stack' : stack'[i].module = n)
                               <=> n # m /\ m_modules[n] = "starting"
        /\ stack' # <<>> => /\ Last(stack').module \in Module \ {m}
                            /\ m_modules[Last(stack').module] = "starting"
    BY <1>1, Returned
  <1>3. /\ m_modules \in [Module -> {"absent", "starting", "started", "finalized"}]
        /\ loadOrder \in [Module -> Nat] /\ m_nextLoadIndex \in Nat
        /\ obtained \in [Module -> SUBSET Module]
    BY DEF ManagerTypeOK
  <1>4. /\ m_modules' \in [Module -> {"absent", "starting", "started", "finalized"}]
        /\ loadOrder' \in [Module -> Nat] /\ m_nextLoadIndex' \in Nat
        /\ \A n \in Module : m_modules'[n] = IF n = m THEN "started" ELSE m_modules[n]
        /\ \A n \in Module : loadOrder'[n] = IF n = m THEN m_nextLoadIndex + 1 ELSE loadOrder[n]
    BY <1>1, <1>2, <1>3
  <1>5. Loaded' = Loaded \cup {m}
    BY <1>2, <1>4 DEF Loaded
  <1>6. /\ obtained' \in [Module -> SUBSET Module]
        /\ \A n \in Module : \/ obtained'[n] = obtained[n]
                             \/ /\ n \notin Loaded' /\ m_modules[n] = "starting"
                                /\ obtained'[n] = obtained[n] \cup {m}
    <2>1. CASE stack' = <<>>
      BY <1>1, <1>3, <2>1 DEF Receive
    <2>2. CASE stack' # <<>>
      <3> DEFINE l == Last(stack').module
      <3>1. obtained' = [obtained EXCEPT ![l] = @ \cup {m}]
        BY <1>1, <2>2 DEF Receive
      <3>2. l \in Module \ {m} /\ m_modules[l] = "starting"
        BY <1>2, <2>2
      <3>3. l \notin Loaded'
        BY <1>5, <3>2 DEF Loaded
      <3>. HIDE DEF l
      <3>. QED BY <1>2, <1>3, <3>1, <3>2, <3>3
    <2>. QED BY <2>1, <2>2
  <1>7. ManagerTypeOK'
    BY <1>1, <1>2, <1>4, <1>6 DEF ManagerTypeOK
  <1>8. StackInv'
    BY <1>2, <1>4 DEF StackInv
  <1>9. OrderInv'
    <2>1. \A n \in Loaded : n \in Module /\ n # m /\ loadOrder[n] \in 1..m_nextLoadIndex
      BY <1>2 DEF ModulesInv, OrderInv, Loaded
    <2>2. \A n \in Loaded' : loadOrder'[n] \in 1..m_nextLoadIndex'
      BY <1>1, <1>2, <1>3, <1>4, <1>5, <2>1
    <2>3. \A n, k \in Loaded' : loadOrder'[n] = loadOrder'[k] => n = k
      BY <1>2, <1>3, <1>4, <1>5, <2>1 DEF ModulesInv, OrderInv
    <2>. QED BY <2>2, <2>3 DEF OrderInv
  <1>10. \A n \in Loaded : n \in Module /\ n # m /\ loadOrder'[n] = loadOrder[n]
                           /\ loadOrder[n] < loadOrder'[m] /\ m_modules'[n] = m_modules[n]
    <2>1. \A n \in Loaded : n \in Module /\ n # m /\ loadOrder[n] \in 1..m_nextLoadIndex
      BY <1>2 DEF ModulesInv, OrderInv, Loaded
    <2>. QED BY <1>2, <1>3, <1>4, <2>1
  <1>11. ObtainedInv'
    <2>1. ASSUME NEW n \in Module, m_modules'[n] # "absent", NEW d \in obtained'[n]
          PROVE  d \in Loaded' /\ (n \in Loaded' => loadOrder'[d] < loadOrder'[n])
      <3>1. m_modules[n] # "absent"
        BY <1>2, <1>4, <2>1
      <3>2. CASE d \in obtained[n]
        <4>1. d \in Loaded /\ (n \in Loaded => loadOrder[d] < loadOrder[n])
          BY <3>1, <3>2 DEF ModulesInv, ObtainedInv
        <4>. QED BY <1>5, <1>10, <4>1
      <3>3. CASE d \notin obtained[n]
        BY <1>5, <1>6, <2>1, <3>3
      <3>. QED BY <3>2, <3>3
    <2>. QED BY <2>1 DEF ObtainedInv
  <1>12. FinalizedInv'
    <2>1. m_modules'[m] = "started"
      BY <1>2, <1>4
    <2>2. ASSUME NEW n \in Loaded', NEW k \in Loaded', m_modules'[n] = "finalized", loadOrder'[k] < loadOrder'[n]
          PROVE  m_modules'[k] = "finalized"
      <3>1. n \in Loaded
        BY <1>5, <2>1, <2>2
      <3>2. loadOrder[n] \in Int /\ loadOrder'[m] \in Int
        BY <1>2, <1>3, <1>4, <1>10, <3>1
      <3>3. k \in Loaded
        BY <1>5, <1>10, <2>2, <3>1, <3>2
      <3>. QED BY <1>10, <2>2, <3>1, <3>3 DEF ModulesInv, FinalizedInv
    <2>3. \A n \in Module : m_modules'[n] # "finalized"
      BY <1>2, <1>4 DEF ModulesInv, FinalizedInv
    <2>. QED BY <2>2, <2>3 DEF FinalizedInv
  <1>13. SortedInv'
    BY <1>1, <1>2 DEF SortedInv, ShuttingDown
  <1>. QED BY <1>2, <1>5, <1>7, <1>8, <1>9, <1>11, <1>12, <1>13 DEF ModulesInv

LEMMA Fails ==
  ASSUME ManagerTypeOK, ModulesInv, NEW m, StartupFailsWith(m), phase' = phase
  PROVE  ManagerTypeOK' /\ ModulesInv' /\ Loaded' = Loaded
  <1>1. /\ StartupDone(m) /\ stack' = Front(stack) /\ m_state' = StateIn(stack')
        /\ m_modules' = [m_modules EXCEPT ![m] = "absent"]
        /\ UNCHANGED <<loadOrder, m_nextLoadIndex, sorted, obtained>>
    BY DEF StartupFailsWith
  <1>2. /\ m \in Module /\ m_modules[m] = "starting" /\ m \notin Loaded
        /\ m_state \in {"loading"} /\ phase = "init" /\ sorted = {}
        /\ stack' \in Seq([module : Module, asked : Nat])
        /\ m_state' = IF stack' = <<>> THEN "idle" ELSE "loading"
        /\ \A i, j \in DOMAIN stack' : stack'[i].module = stack'[j].module => i = j
        /\ \A n \in Module : (\E i \in DOMAIN stack' : stack'[i].module = n)
                               <=> n # m /\ m_modules[n] = "starting"
    BY <1>1, Returned
  <1>3. /\ m_modules' \in [Module -> {"absent", "starting", "started", "finalized"}]
        /\ \A n \in Module : m_modules'[n] = IF n = m THEN "absent" ELSE m_modules[n]
    BY <1>1, <1>2 DEF ManagerTypeOK
  <1>4. Loaded' = Loaded /\ \A n \in Loaded : m_modules'[n] = m_modules[n] /\ n \in Module
    BY <1>2, <1>3 DEF Loaded
  <1>5. ManagerTypeOK'
    BY <1>1, <1>2, <1>3 DEF ManagerTypeOK
  <1>6. StackInv'
    BY <1>2, <1>3 DEF StackInv
  <1>a. \A n \in Module : m_modules'[n] # "finalized"
    BY <1>2, <1>3 DEF ModulesInv, FinalizedInv
  <1>7. OrderInv' /\ FinalizedInv'
    BY <1>1, <1>4, <1>a DEF ModulesInv, OrderInv, FinalizedInv
  <1>8. ObtainedInv'
    BY <1>1, <1>3, <1>4 DEF ModulesInv, ObtainedInv
  <1>9. SortedInv'
    BY <1>1, <1>2 DEF SortedInv, ShuttingDown
  <1>. QED BY <1>4, <1>5, <1>6, <1>7, <1>8, <1>9 DEF ModulesInv

LEMMA Finalizes ==
  ASSUME ManagerTypeOK, ModulesInv, phase = "init", phase' = phase, FinalizeBegins \/ FinalizeStep
  PROVE  ManagerTypeOK' /\ ModulesInv' /\ Loaded' = Loaded
  <1>1. /\ m_modules \in [Module -> {"absent", "starting", "started", "finalized"}]
        /\ loadOrder \in [Module -> Nat]
    BY DEF ManagerTypeOK
  <1>2. UNCHANGED <<loadOrder, m_nextLoadIndex, stack, obtained>>
    BY DEF FinalizeBegins, FinalizeStep
  <1>3. sorted = IF m_state = "finalizing" THEN {m \in Loaded : m_modules[m] = "started"} ELSE {}
    BY DEF ModulesInv, SortedInv, ShuttingDown
  <1>a. CASE FinalizeBegins
    <2>1. stack = <<>> /\ m_state = "idle" /\ m_state' = "finalizing" /\ sorted' = Loaded /\ UNCHANGED m_modules
      BY <1>a DEF FinalizeBegins
    <2>2. Loaded' = Loaded /\ Loaded \subseteq Module
      BY <2>1 DEF Loaded
    <2>3. ManagerTypeOK'
      BY <1>2, <2>1, <2>2 DEF ManagerTypeOK
    <2>4. StackInv' /\ OrderInv' /\ ObtainedInv' /\ FinalizedInv'
      BY <1>2, <2>1, <2>2 DEF ModulesInv, StackInv, OrderInv, ObtainedInv, FinalizedInv
    <2>5. \A m \in Loaded : m_modules[m] = "started"
      BY <1>1, <2>1 DEF ModulesInv, FinalizedInv, Loaded
    <2>6. SortedInv'
      BY <2>1, <2>2, <2>5 DEF SortedInv, ShuttingDown
    <2>. QED BY <2>2, <2>3, <2>4, <2>6 DEF ModulesInv
  <1>b. CASE FinalizeStep
    <2>1. m_state = "finalizing" /\ sorted = {m \in Loaded : m_modules[m] = "started"} /\ stack' = stack
      BY <1>2, <1>3, <1>b DEF FinalizeStep
    <2>2. CASE \E m \in Module : FinalizeModule(m)
      <3>1. PICK m \in Module : FinalizeModule(m)
        BY <2>2
      <3>2. m \in sorted /\ m \in Loaded /\ m_modules[m] = "started" /\ \A n \in sorted : loadOrder[m] <= loadOrder[n]
        BY <2>1, <3>1 DEF FinalizeModule, NextInOrder
      <3>a. CASE /\ m_modules' = [m_modules EXCEPT ![m] = "finalized"]
                 /\ sorted' = sorted \ {m}
                 /\ UNCHANGED m_state
        <4>1. /\ m_modules' \in [Module -> {"absent", "starting", "started", "finalized"}]
              /\ \A n \in Module : m_modules'[n] = IF n = m THEN "finalized" ELSE m_modules[n]
          BY <1>1, <3>a
        <4>2. Loaded' = Loaded /\ Loaded \subseteq Module
          BY <3>2, <4>1 DEF Loaded
        <4>3. ManagerTypeOK'
          BY <1>2, <2>1, <3>a, <4>1, <4>2 DEF ManagerTypeOK
        <4>4. StackInv' /\ OrderInv' /\ ObtainedInv'
          <5>1. \A n \in Module : /\ m_modules'[n] = "starting" <=> m_modules[n] = "starting"
                                  /\ m_modules'[n] = "absent" <=> m_modules[n] = "absent"
            BY <3>2, <4>1
          <5>. QED BY <1>2, <2>1, <3>a, <4>2, <5>1 DEF ModulesInv, StackInv, OrderInv, ObtainedInv
        <4>5. FinalizedInv'
          <5>1. ASSUME NEW k \in Loaded, NEW n \in Loaded, m_modules'[k] = "finalized", loadOrder[n] < loadOrder[k]
                PROVE  m_modules'[n] = "finalized"
            <6>0. n \in Module /\ k \in Module /\ loadOrder[n] \in Nat /\ loadOrder[k] \in Nat /\ loadOrder[m] \in Nat
              BY <1>1, <4>2
            <6>1. CASE k = m
              <7>1. n \notin sorted
                BY <3>2, <5>1, <6>0, <6>1
              <7>2. m_modules[n] # "started" /\ m_modules[n] \in {"started", "finalized"}
                BY <2>1, <7>1 DEF Loaded
              <7>. QED BY <4>1, <6>0, <7>2
            <6>2. CASE k # m
              <7>1. m_modules[n] = "finalized"
                BY <4>1, <5>1, <6>0, <6>2 DEF ModulesInv, FinalizedInv
              <7>. QED BY <4>1, <6>0, <7>1
            <6>. QED BY <6>1, <6>2
          <5>. QED BY <1>2, <2>1, <3>a, <4>2, <5>1 DEF FinalizedInv
        <4>6. SortedInv'
          <5>1. sorted' = {n \in Loaded : m_modules'[n] = "started"}
            BY <2>1, <3>2, <3>a, <4>1, <4>2
          <5>. QED BY <2>1, <3>a, <4>2, <5>1 DEF SortedInv, ShuttingDown
        <4>. QED BY <4>2, <4>3, <4>4, <4>5, <4>6 DEF ModulesInv
      <3>b. CASE sorted' = {} /\ m_state' = "failed" /\ UNCHANGED m_modules
        <4>1. Loaded' = Loaded
          BY <3>b DEF Loaded
        <4>2. ManagerTypeOK'
          BY <1>2, <2>1, <3>b DEF ManagerTypeOK
        <4>3. StackInv' /\ OrderInv' /\ ObtainedInv' /\ FinalizedInv'
          BY <1>2, <2>1, <3>b, <4>1 DEF ModulesInv, StackInv, OrderInv, ObtainedInv, FinalizedInv
        <4>4. SortedInv'
          BY <2>1, <3>b DEF SortedInv, ShuttingDown
        <4>. QED BY <4>1, <4>2, <4>3, <4>4 DEF ModulesInv
      <3>. QED BY <3>1, <3>a, <3>b DEF FinalizeModule
    <2>3. CASE sorted = {} /\ m_state' = "finalized" /\ UNCHANGED <<m_modules, sorted>>
      <3>1. Loaded' = Loaded
        BY <2>3 DEF Loaded
      <3>2. ManagerTypeOK'
        BY <1>2, <2>1, <2>3 DEF ManagerTypeOK
      <3>3. StackInv' /\ OrderInv' /\ ObtainedInv' /\ FinalizedInv'
        BY <1>2, <2>1, <2>3, <3>1 DEF ModulesInv, StackInv, OrderInv, ObtainedInv, FinalizedInv
      <3>4. SortedInv'
        BY <2>1, <2>3 DEF SortedInv, ShuttingDown
      <3>. QED BY <3>1, <3>2, <3>3, <3>4 DEF ModulesInv
    <2>. QED BY <1>b, <2>2, <2>3 DEF FinalizeStep
  <1>. QED BY <1>a, <1>b

LEMMA ShutsDown ==
  ASSUME ManagerTypeOK, ModulesInv, NEW m, ShutdownStep(m), phase \in ShuttingDown, phase' \in ShuttingDown
  PROVE  ManagerTypeOK' /\ ModulesInv' /\ m \in Loaded /\ Loaded' = Loaded \ {m}
  <1>1. /\ m \in sorted /\ \A n \in sorted : loadOrder[m] >= loadOrder[n]
        /\ m_modules' = [m_modules EXCEPT ![m] = "absent"]
        /\ sorted' = sorted \ {m}
        /\ UNCHANGED <<loadOrder, m_nextLoadIndex, m_state, stack, obtained>>
    BY DEF ShutdownStep, NextInReverse
  <1>2. /\ sorted = Loaded /\ stack = <<>> /\ m_state # "finalizing"
        /\ Loaded \subseteq Module /\ m \in Module /\ m \in Loaded
    BY <1>1 DEF ModulesInv, SortedInv, ShuttingDown, Loaded
  <1>3. /\ m_modules' \in [Module -> {"absent", "starting", "started", "finalized"}]
        /\ \A n \in Module : m_modules'[n] = IF n = m THEN "absent" ELSE m_modules[n]
        /\ loadOrder \in [Module -> Nat]
    BY <1>1, <1>2 DEF ManagerTypeOK
  <1>4. Loaded' = Loaded \ {m}
    BY <1>2, <1>3 DEF Loaded
  <1>5. ManagerTypeOK'
    BY <1>1, <1>2, <1>3 DEF ManagerTypeOK
  <1>6. \A n \in Module : m_modules[n] # "starting"
    BY <1>2 DEF ModulesInv, StackInv
  <1>7. StackInv' /\ OrderInv'
    BY <1>1, <1>2, <1>3, <1>4, <1>6 DEF ModulesInv, StackInv, OrderInv
  <1>8. ObtainedInv'
    <2>1. ASSUME NEW n \in Module, m_modules'[n] # "absent", NEW d \in obtained[n]
          PROVE  d \in Loaded' /\ (n \in Loaded' => loadOrder[d] < loadOrder[n])
      <3>1. n # m /\ m_modules[n] # "absent"
        BY <1>3, <2>1
      <3>2. n \in Loaded
        BY <1>6, <3>1 DEF Loaded, ManagerTypeOK
      <3>3. d \in Loaded /\ loadOrder[d] < loadOrder[n]
        BY <2>1, <3>1, <3>2 DEF ModulesInv, ObtainedInv
      <3>4. loadOrder[n] <= loadOrder[m]
        BY <1>1, <1>2, <1>3, <3>2
      <3>5. d # m
        BY <1>2, <1>3, <3>2, <3>3, <3>4
      <3>. QED BY <1>4, <3>3, <3>5
    <2>. QED BY <1>1, <2>1 DEF ObtainedInv
  <1>9. FinalizedInv'
    <2>1. \A n \in Loaded' : n \in Loaded /\ n \in Module /\ m_modules'[n] = m_modules[n]
      BY <1>2, <1>3, <1>4
    <2>2. \A n \in Module : m_modules'[n] = "finalized" => m_modules[n] = "finalized"
      BY <1>3
    <2>. QED BY <1>1, <2>1, <2>2 DEF ModulesInv, FinalizedInv
  <1>10. SortedInv'
    BY <1>1, <1>2, <1>4 DEF SortedInv, ShuttingDown
  <1>. QED BY <1>2, <1>4, <1>5, <1>7, <1>8, <1>9, <1>10 DEF ModulesInv

\* What the other steps do to the modules: nothing, or begin to shut them down.
LEMMA ModulesKept ==
  ASSUME ManagerTypeOK, ModulesInv, UNCHANGED <<m_modules, loadOrder, m_nextLoadIndex, m_state, stack, obtained>>
  PROVE  /\ ManagerTypeOK' <=> sorted' \subseteq Module
         /\ Loaded' = Loaded /\ Loaded \subseteq Module
         /\ ModulesInv' <=> SortedInv'
  <1>1. Loaded' = Loaded /\ Loaded \subseteq Module
    BY DEF Loaded
  <1>2. ManagerTypeOK' <=> sorted' \subseteq Module
    BY DEF ManagerTypeOK
  <1>3. StackInv' /\ OrderInv' /\ ObtainedInv' /\ FinalizedInv'
    BY <1>1 DEF ModulesInv, StackInv, OrderInv, ObtainedInv, FinalizedInv
  <1>. QED BY <1>1, <1>2, <1>3 DEF ModulesInv

-------------------------------------------------------------------------------
(* Jobs and phases *)

LifeTypes ==
  /\ phase \in {"init", "run", "closing", "modules", "flushing", "jobs", "down", "undefined"}
  /\ root \in 0..Len(Roots)
  /\ queue \in Seq(Job)
  /\ running \in [Thread -> Job \cup {NoJob}]
  /\ waitFor \in Job \cup {NoJob}
  /\ ended \subseteq Job
  /\ pushed \in [{"import", "load"} -> Nat]

\* The jobs that threads run.
Running == {running[t] : t \in Thread}

\* A job that was pushed, with the counters p, the log started or shutting down if f.
WasPushed(j, p, f) ==
  \/ j = NoJob
  \/ j = FlushJob /\ f
  \/ \E i \in 1..p["import"] : j = Import(i)
  \/ \E i \in 1..p["load"] : j = LoadJob(i)

LEMMA JobNames ==
  /\ NoJob \notin Job /\ FlushJob \in Job /\ FlushJob # NoJob
  /\ \A i : Import(i) # FlushJob /\ Import(i) # NoJob
  /\ \A i : LoadJob(i) # FlushJob /\ LoadJob(i) # NoJob
  /\ \A i, k : Import(i) # LoadJob(k)
  /\ \A i, k : Import(i) = Import(k) => i = k
  /\ \A i, k : LoadJob(i) = LoadJob(k) => i = k
  BY DEF NoJob, Job, LoadJobs, FlushJob, Import, LoadJob

\* A step that leaves the jobs where they are, and does not begin a shutdown.
LEMMA JobsKept ==
  ASSUME JobInv, UNCHANGED <<queue, running, waitFor, ended, pushed, writing, flush, g_asyncQueues>>,
         Log \in Loaded' <=> Log \in Loaded,
         \/ phase' = phase
         \/ waitFor = NoJob /\ phase \notin ShuttingDown /\ phase' \notin ShuttingDown
  PROVE  JobInv'
  <1>1. phase' \in ShuttingDown <=> phase \in ShuttingDown
    OBVIOUS
  <1>2. JobsInv'
    BY <1>1 DEF JobInv, JobsInv
  <1>3. WaitInv'
    BY <1>1 DEF JobInv, WaitInv, ShuttingDown
  <1>4. WritingInv'
    BY <1>1 DEF JobInv, WritingInv, ShuttingDown
  <1>5. FreedInv'
    BY <1>1 DEF JobInv, FreedInv, ShuttingDown
  <1>. QED BY <1>2, <1>3, <1>4, <1>5 DEF JobInv

\* A new job at the end of the queue.
LEMMA JobPushed ==
  ASSUME LifeTypes, JobInv, NEW j \in Job, queue' = Append(queue, j),
         j \notin ToSet(queue) \cup ended \cup Running,
         UNCHANGED <<running, ended, phase>>,
         \A k : WasPushed(k, pushed, Log \in Loaded \/ phase \in ShuttingDown)
                  => WasPushed(k, pushed', Log \in Loaded' \/ phase \in ShuttingDown),
         WasPushed(j, pushed', Log \in Loaded' \/ phase \in ShuttingDown)
  PROVE  queue' \in Seq(Job) /\ JobsInv' /\ ToSet(queue)' = ToSet(queue) \cup {j}
  <1> DEFINE q == Append(queue, j)
             Pushed(k) == WasPushed(k, pushed, Log \in Loaded \/ phase \in ShuttingDown)
             Pushed1(k) == WasPushed(k, pushed', Log \in Loaded' \/ phase \in ShuttingDown)
  <1>1. /\ q \in Seq(Job) /\ Len(queue) \in Nat
        /\ DOMAIN q = 1..(Len(queue) + 1) /\ DOMAIN queue = 1..Len(queue)
        /\ \A i \in DOMAIN queue : q[i] = queue[i]
        /\ q[Len(queue) + 1] = j
        /\ ToSet(q) = ToSet(queue) \cup {j}
    <2>1. queue \in Seq(Job)
      BY DEF LifeTypes
    <2>. QED BY <2>1, Appended
  <1>2. queue' = q
    OBVIOUS
  <1>. HIDE DEF q
  <1>3. /\ \A i, k \in DOMAIN queue : queue[i] = queue[k] => i = k
        /\ \A t, u \in Thread : running[t] = running[u] /\ running[t] # NoJob => t = u
        /\ \A t \in Thread : running[t] \notin ToSet(queue) \cup ended
        /\ ToSet(queue) \cap ended = {}
        /\ \A k \in ToSet(queue) \cup ended \cup {running[t] : t \in Thread} : Pushed(k)
    BY DEF JobInv, JobsInv, WasPushed
  <1>4. \A i, k \in DOMAIN q : q[i] = q[k] => i = k
    <2>1. DOMAIN q = DOMAIN queue \cup {Len(queue) + 1}
      BY <1>1
    <2>2. \A i \in DOMAIN queue : queue[i] # j
      BY DEF ToSet
    <2>. QED BY <1>1, <1>3, <2>1, <2>2
  <1>5. \A t \in Thread : running[t] \notin ToSet(q) \cup ended
    BY <1>1, <1>3 DEF Running
  <1>6. ToSet(q) \cap ended = {}
    BY <1>1, <1>3
  <1>7. \A k \in ToSet(q) \cup ended \cup {running[t] : t \in Thread} : Pushed1(k)
    <2>1. \A k : Pushed(k) => Pushed1(k)
      OBVIOUS
    <2>2. Pushed1(j)
      OBVIOUS
    <2>. HIDE DEF Pushed, Pushed1
    <2>. QED BY <1>1, <1>3, <2>1, <2>2
  <1>8. JobsInv'
    BY <1>2, <1>3, <1>4, <1>5, <1>6, <1>7 DEF JobsInv, WasPushed
  <1>. QED BY <1>1, <1>2, <1>8

\* log_module::startup pushes the flush job.
LEMMA FlushPushed ==
  ASSUME LifeTypes, JobInv, phase = "init", Log \notin Loaded, Log \in Loaded',
         LogStartup, queue' = Append(queue, FlushJob),
         UNCHANGED <<phase, root, running, waitFor, ended, pushed>>
  PROVE  LifeTypes' /\ JobInv'
  <1>1. FlushJob \notin ToSet(queue) \cup ended \cup Running
    <2>1. phase \notin ShuttingDown
      BY DEF ShuttingDown
    <2>. QED BY <2>1, JobNames DEF JobInv, JobsInv, Running
  <1>2. /\ queue' \in Seq(Job) /\ JobsInv' /\ ToSet(queue)' = ToSet(queue) \cup {FlushJob}
    BY <1>1, JobNames, JobPushed DEF WasPushed
  <1>3. LifeTypes'
    BY <1>2 DEF LifeTypes
  <1>4. phase \notin ShuttingDown /\ phase # "flushing" /\ g_asyncQueues' = "alive"
        /\ UNCHANGED <<writing, flush>>
    BY DEF ShuttingDown, LogStartup
  <1>5. WaitInv'
    BY <1>2, <1>4, JobNames DEF JobInv, WaitInv
  <1>6. WritingInv'
    BY <1>4 DEF JobInv, WritingInv
  <1>7. FreedInv'
    BY <1>4 DEF JobInv, FreedInv
  <1>. QED BY <1>2, <1>3, <1>5, <1>6, <1>7 DEF JobInv

LEMMA ImportPushed ==
  ASSUME LifeTypes, JobInv, PushImport
  PROVE  LifeTypes' /\ JobInv' /\ UNCHANGED <<managerVars, logVars, phase, root>>
  <1> DEFINE n == pushed["import"] + 1
             j == Import(n)
  <1>1. /\ phase = "run" /\ waitFor = NoJob /\ pushed["import"] < MaxImports
        /\ pushed' = [pushed EXCEPT !["import"] = n]
        /\ UNCHANGED <<managerVars, logVars, phase, root, running, waitFor, ended>>
    BY DEF PushImport, MainFree
  <1>2. /\ pushed["import"] \in Nat /\ n \in Nat \ {0} /\ pushed'["import"] = n /\ pushed'["load"] = pushed["load"]
        /\ pushed' \in [{"import", "load"} -> Nat]
    BY <1>1 DEF LifeTypes
  <1>3. queue' = Append(queue, j)
    BY <1>2 DEF PushImport
  <1>4. Loaded' = Loaded /\ phase \notin ShuttingDown /\ UNCHANGED <<writing, flush, g_asyncQueues>>
    BY <1>1 DEF Loaded, managerVars, logVars, ShuttingDown
  <1>5. j \in Job
    BY <1>1, <1>2, BoundsAssumption DEF Job
  <1>6. n \notin 1..pushed["import"] /\ 1..pushed'["import"] = 1..pushed["import"] \cup {n}
    BY <1>2
  <1>7. j \notin ToSet(queue) \cup ended \cup Running
    <2>1. ASSUME j \in ToSet(queue) \cup ended \cup Running
          PROVE  \E i \in 1..pushed["import"] : j = Import(i)
      BY <2>1, JobNames DEF JobInv, JobsInv, Running
    <2>. QED BY <1>6, <2>1, JobNames
  <1>8. /\ queue' \in Seq(Job) /\ JobsInv' /\ ToSet(queue)' = ToSet(queue) \cup {j}
    <2>1. \A k : WasPushed(k, pushed, Log \in Loaded \/ phase \in ShuttingDown)
                   => WasPushed(k, pushed', Log \in Loaded' \/ phase \in ShuttingDown)
      BY <1>2, <1>4, <1>6 DEF WasPushed
    <2>2. WasPushed(j, pushed', Log \in Loaded' \/ phase \in ShuttingDown)
      BY <1>6 DEF WasPushed
    <2>. HIDE DEF j
    <2>. QED BY <1>1, <1>3, <1>5, <1>7, <2>1, <2>2, JobPushed
  <1>9. LifeTypes'
    BY <1>1, <1>2, <1>8 DEF LifeTypes
  <1>10. WaitInv'
    BY <1>1, <1>2, <1>4, <1>8, JobNames DEF JobInv, WaitInv
  <1>11. WritingInv' /\ FreedInv'
    BY <1>1, <1>4 DEF JobInv, WritingInv, FreedInv
  <1>. QED BY <1>1, <1>8, <1>9, <1>10, <1>11 DEF JobInv

LEMMA LoadPushed ==
  ASSUME LifeTypes, JobInv, StartLoad
  PROVE  LifeTypes' /\ JobInv' /\ UNCHANGED <<managerVars, logVars, phase, root>>
  <1> DEFINE n == pushed["load"] + 1
             j == LoadJob(n)
  <1>1. /\ phase = "run" /\ waitFor = NoJob /\ pushed["load"] < MaxLoads
        /\ pushed' = [pushed EXCEPT !["load"] = n]
        /\ UNCHANGED <<managerVars, logVars, phase, root, running, waitFor, ended>>
    BY DEF StartLoad, MainFree
  <1>2. /\ pushed["load"] \in Nat /\ n \in Nat \ {0} /\ pushed'["load"] = n /\ pushed'["import"] = pushed["import"]
        /\ pushed' \in [{"import", "load"} -> Nat]
    BY <1>1 DEF LifeTypes
  <1>3. queue' = Append(queue, j)
    BY <1>2 DEF StartLoad
  <1>4. Loaded' = Loaded /\ phase \notin ShuttingDown /\ UNCHANGED <<writing, flush, g_asyncQueues>>
    BY <1>1 DEF Loaded, managerVars, logVars, ShuttingDown
  <1>5. j \in Job
    BY <1>1, <1>2, BoundsAssumption DEF Job, LoadJobs
  <1>6. n \notin 1..pushed["load"] /\ 1..pushed'["load"] = 1..pushed["load"] \cup {n}
    BY <1>2
  <1>7. j \notin ToSet(queue) \cup ended \cup Running
    <2>1. ASSUME j \in ToSet(queue) \cup ended \cup Running
          PROVE  \E i \in 1..pushed["load"] : j = LoadJob(i)
      BY <2>1, JobNames DEF JobInv, JobsInv, Running
    <2>. QED BY <1>6, <2>1, JobNames
  <1>8. /\ queue' \in Seq(Job) /\ JobsInv' /\ ToSet(queue)' = ToSet(queue) \cup {j}
    <2>1. \A k : WasPushed(k, pushed, Log \in Loaded \/ phase \in ShuttingDown)
                   => WasPushed(k, pushed', Log \in Loaded' \/ phase \in ShuttingDown)
      BY <1>2, <1>4, <1>6 DEF WasPushed
    <2>2. WasPushed(j, pushed', Log \in Loaded' \/ phase \in ShuttingDown)
      BY <1>6 DEF WasPushed
    <2>. HIDE DEF j
    <2>. QED BY <1>1, <1>3, <1>5, <1>7, <2>1, <2>2, JobPushed
  <1>9. LifeTypes'
    BY <1>1, <1>2, <1>8 DEF LifeTypes
  <1>10. WaitInv'
    BY <1>1, <1>2, <1>4, <1>8, JobNames DEF JobInv, WaitInv
  <1>11. WritingInv' /\ FreedInv'
    BY <1>1, <1>4 DEF JobInv, WritingInv, FreedInv
  <1>. QED BY <1>1, <1>8, <1>9, <1>10, <1>11 DEF JobInv

LEMMA LoadAwaited ==
  ASSUME LifeTypes, JobInv, WaitForLoad
  PROVE  LifeTypes' /\ JobInv' /\ UNCHANGED <<managerVars, logVars, phase, root>>
  <1>1. /\ writing[Main] = NoBuffer
        /\ UNCHANGED <<managerVars, logVars, phase, root, queue, running, ended, pushed>>
        /\ phase \in {"run", "closing"}
    BY DEF WaitForLoad, MainFree
  <1>2. PICK i \in 1..MaxLoads : waitFor' = LoadJob(i)
    BY DEF WaitForLoad
  <1>3. waitFor' \in Job /\ waitFor' # NoJob /\ waitFor' # FlushJob
    BY <1>2, JobNames DEF Job, LoadJobs
  <1>4. Loaded' = Loaded /\ UNCHANGED <<writing, flush, g_asyncQueues>>
    BY <1>1 DEF Loaded, managerVars, logVars
  <1>5. LifeTypes'
    BY <1>1, <1>3 DEF LifeTypes
  <1>6. JobsInv' /\ FreedInv'
    BY <1>1, <1>4 DEF JobInv, JobsInv, FreedInv
  <1>7. WaitInv'
    BY <1>1, <1>3 DEF JobInv, WaitInv
  <1>8. WritingInv'
    BY <1>1, <1>4 DEF JobInv, WritingInv
  <1>. QED BY <1>1, <1>5, <1>6, <1>7, <1>8 DEF JobInv

LEMMA Waited ==
  ASSUME LifeTypes, JobInv, WaitEnds
  PROVE  LifeTypes' /\ JobInv' /\ UNCHANGED <<managerVars, logVars, phase, root>>
  <1>1. /\ waitFor \in ended /\ running[Main] = NoJob /\ waitFor' = NoJob
        /\ UNCHANGED <<managerVars, logVars, phase, root, queue, running, ended, pushed>>
    BY DEF WaitEnds
  <1>2. Loaded' = Loaded /\ UNCHANGED <<writing, flush, g_asyncQueues>>
    BY <1>1 DEF Loaded, managerVars, logVars
  <1>3. LifeTypes'
    BY <1>1 DEF LifeTypes
  <1>4. JobsInv' /\ FreedInv'
    BY <1>1, <1>2 DEF JobInv, JobsInv, FreedInv
  <1>5. WaitInv'
    <2>1. phase = "flushing" => FlushJob \in ended
      BY <1>1 DEF JobInv, WaitInv
    <2>. QED BY <1>1, <2>1, JobNames DEF JobInv, WaitInv
  <1>6. WritingInv'
    BY <1>1, <1>2 DEF JobInv, WritingInv
  <1>. QED BY <1>1, <1>3, <1>4, <1>5, <1>6 DEF JobInv

LEMMA Taken ==
  ASSUME LifeTypes, JobInv, NEW t \in Thread, Take(t)
  PROVE  LifeTypes' /\ JobInv' /\ UNCHANGED <<managerVars, phase, root>> /\ (FlushBegins \/ UNCHANGED logVars)
  <1> DEFINE j == Head(queue)
             rest == Tail(queue)
  <1>1. /\ queue # <<>> /\ running[t] = NoJob /\ queue' = rest
        /\ running' = [running EXCEPT ![t] = j]
        /\ IF j = FlushJob THEN FlushBegins ELSE UNCHANGED logVars
        /\ UNCHANGED <<managerVars, phase, root, waitFor, ended, pushed>>
        /\ t = Main => waitFor # NoJob
    BY DEF Take, MayTake
  <1>2. /\ \A i, k \in DOMAIN queue : queue[i] = queue[k] => i = k
        /\ \A u, v \in Thread : running[u] = running[v] /\ running[u] # NoJob => u = v
        /\ \A u \in Thread : running[u] \notin ToSet(queue) \cup ended
        /\ ToSet(queue) \cap ended = {}
    BY DEF JobInv, JobsInv
  <1>3. /\ rest \in Seq(Job) /\ j \in Job /\ j \in ToSet(queue)
        /\ DOMAIN rest \subseteq Nat
        /\ \A i \in DOMAIN rest : i + 1 \in DOMAIN queue /\ rest[i] = queue[i + 1]
        /\ ToSet(rest) = ToSet(queue) \ {j}
    BY <1>1, <1>2, Tailed DEF LifeTypes
  <1>. HIDE DEF rest, j
  <1>4. /\ running' \in [Thread -> Job \cup {NoJob}]
        /\ \A u \in Thread : running'[u] = IF u = t THEN j ELSE running[u]
        /\ j # NoJob /\ j \notin Running
    BY <1>1, <1>2, <1>3, JobNames DEF LifeTypes, Running
  <1>5. LifeTypes'
    BY <1>1, <1>3, <1>4 DEF LifeTypes
  <1>6. Loaded' = Loaded /\ UNCHANGED <<writing, g_asyncQueues>> /\ (j # FlushJob => flush' = flush)
    BY <1>1 DEF Loaded, managerVars, logVars, FlushBegins
  <1>7. {running'[u] : u \in Thread} \subseteq Running \cup {j}
    BY <1>4 DEF Running
  <1>8. JobsInv'
    <2>1. \A i, k \in DOMAIN rest : rest[i] = rest[k] => i = k
      <3>1. ASSUME NEW i \in DOMAIN rest, NEW k \in DOMAIN rest, rest[i] = rest[k]
            PROVE  i = k
        <4>1. i + 1 = k + 1 /\ i \in Nat /\ k \in Nat
          BY <1>2, <1>3, <3>1
        <4>. QED BY <4>1
      <3>. QED BY <3>1
    <2>2. \A u, v \in Thread : running'[u] = running'[v] /\ running'[u] # NoJob => u = v
      BY <1>2, <1>4 DEF Running
    <2>3. \A u \in Thread : running'[u] \notin ToSet(rest) \cup ended
      BY <1>2, <1>3, <1>4
    <2>4. ToSet(rest) \cap ended = {}
      BY <1>2, <1>3
    <2>5. ToSet(rest) \cup ended \cup {running'[u] : u \in Thread}
            \subseteq ToSet(queue) \cup ended \cup {running[u] : u \in Thread}
      BY <1>3, <1>7 DEF Running
    <2>6. \A k \in ToSet(queue) \cup ended \cup {running[u] : u \in Thread} :
            WasPushed(k, pushed, Log \in Loaded \/ phase \in ShuttingDown)
      BY DEF JobInv, JobsInv, WasPushed
    <2>7. \A k \in ToSet(rest) \cup ended \cup {running'[u] : u \in Thread} :
            WasPushed(k, pushed', Log \in Loaded' \/ phase' \in ShuttingDown)
      BY <1>1, <1>6, <2>5, <2>6
    <2>. QED BY <1>1, <2>1, <2>2, <2>3, <2>4, <2>7 DEF JobsInv, WasPushed
  <1>9. WaitInv'
    <2>1. ToSet(queue)' \cup {running'[u] : u \in Thread} \subseteq ToSet(queue) \cup {running[u] : u \in Thread}
      BY <1>1, <1>3, <1>7 DEF Running
    <2>2. phase \in ShuttingDown =>
            ToSet(queue)' \cup {running'[u] : u \in Thread} \subseteq {FlushJob, NoJob} \cup LoadJobs
      BY <2>1 DEF JobInv, WaitInv
    <2>3. running'[Main] # NoJob => waitFor # NoJob
      BY <1>1, <1>4, MainAssumption DEF JobInv, WaitInv
    <2>. QED BY <1>1, <2>2, <2>3 DEF JobInv, WaitInv
  <1>10. WritingInv'
    <2>1. writing[t] = NoBuffer
      BY <1>1 DEF JobInv, WritingInv
    <2>2. ASSUME NEW u \in Thread, writing[u] # NoBuffer
          PROVE  /\ running'[u] # FlushJob
                 /\ running'[u] = NoJob =>
                      /\ u = Main /\ Log \in Loaded /\ waitFor = NoJob
                      /\ phase \notin {"flushing", "jobs", "down", "undefined"}
      BY <1>4, <2>1, <2>2 DEF JobInv, WritingInv
    <2>. QED BY <1>1, <1>6, <2>2 DEF WritingInv
  <1>11. FreedInv'
    <2>1. FlushJob \in ended => j # FlushJob
      BY <1>2, <1>3
    <2>. QED BY <1>1, <1>6, <2>1 DEF JobInv, FreedInv
  <1>. QED BY <1>1, <1>5, <1>8, <1>9, <1>10, <1>11 DEF JobInv

LEMMA Ended ==
  ASSUME LifeTypes, JobInv, NEW t \in Thread, EndJob(t)
  PROVE  LifeTypes' /\ JobInv' /\ UNCHANGED <<managerVars, logVars, phase, root>>
  <1> DEFINE j == running[t]
  <1>1. /\ j # NoJob /\ j \in Job /\ writing[t] = NoBuffer /\ (j = FlushJob => flush = "ended")
        /\ ended' = ended \cup {j}
        /\ running' = [running EXCEPT ![t] = NoJob]
        /\ UNCHANGED <<managerVars, logVars, phase, root, queue, waitFor, pushed>>
    BY DEF EndJob, LifeTypes
  <1>2. /\ \A i, k \in DOMAIN queue : queue[i] = queue[k] => i = k
        /\ \A u, v \in Thread : running[u] = running[v] /\ running[u] # NoJob => u = v
        /\ \A u \in Thread : running[u] \notin ToSet(queue) \cup ended
        /\ ToSet(queue) \cap ended = {}
        /\ \A k \in ToSet(queue) \cup ended \cup {running[u] : u \in Thread} :
             WasPushed(k, pushed, Log \in Loaded \/ phase \in ShuttingDown)
    BY DEF JobInv, JobsInv, WasPushed
  <1>3. /\ running' \in [Thread -> Job \cup {NoJob}]
        /\ \A u \in Thread : running'[u] = IF u = t THEN NoJob ELSE running[u]
    BY <1>1 DEF LifeTypes
  <1>4. LifeTypes'
    BY <1>1, <1>3 DEF LifeTypes
  <1>5. Loaded' = Loaded /\ UNCHANGED <<writing, flush, g_asyncQueues>>
    BY <1>1 DEF Loaded, managerVars, logVars
  <1>6. NoJob \notin ToSet(queue) \cup ended'
    <2>1. queue \in Seq(Job) /\ ended \subseteq Job
      BY DEF LifeTypes
    <2>2. ToSet(queue) \subseteq Job
      BY <2>1 DEF ToSet
    <2>. QED BY <1>1, <2>1, <2>2, JobNames
  <1>7. JobsInv'
    <2>1. \A u, v \in Thread : running'[u] = running'[v] /\ running'[u] # NoJob => u = v
      BY <1>2, <1>3
    <2>2. \A u \in Thread : running'[u] \notin ToSet(queue) \cup ended'
      <3>1. ASSUME NEW u \in Thread
            PROVE  running'[u] \notin ToSet(queue) \cup ended'
        <4>1. CASE u = t
          BY <1>3, <1>6, <4>1
        <4>2. CASE u # t
          <5>1. running'[u] = running[u] /\ running[u] # j
            BY <1>1, <1>2, <1>3, <4>2
          <5>. QED BY <1>1, <1>2, <5>1
        <4>. QED BY <4>1, <4>2
      <3>. QED BY <3>1
    <2>3. ToSet(queue) \cap ended' = {}
      BY <1>1, <1>2
    <2>4. \A k \in ToSet(queue) \cup ended' \cup {running'[u] : u \in Thread} :
            WasPushed(k, pushed, Log \in Loaded \/ phase \in ShuttingDown)
      <3>1. WasPushed(NoJob, pushed, Log \in Loaded \/ phase \in ShuttingDown)
        BY DEF WasPushed
      <3>2. ToSet(queue) \cup ended' \cup {running'[u] : u \in Thread}
              \subseteq ToSet(queue) \cup ended \cup {running[u] : u \in Thread} \cup {NoJob}
        BY <1>1, <1>3
      <3>. QED BY <1>2, <3>1, <3>2
    <2>. QED BY <1>1, <1>2, <1>5, <2>1, <2>2, <2>3, <2>4 DEF JobsInv, WasPushed
  <1>8. WaitInv'
    <2>1. {running'[u] : u \in Thread} \subseteq {running[u] : u \in Thread} \cup {NoJob}
      BY <1>3
    <2>2. phase \in ShuttingDown =>
            ToSet(queue) \cup {running'[u] : u \in Thread} \subseteq {FlushJob, NoJob} \cup LoadJobs
      BY <2>1 DEF JobInv, WaitInv
    <2>3. running'[Main] # NoJob => waitFor # NoJob
      BY <1>3, MainAssumption DEF JobInv, WaitInv
    <2>4. phase = "flushing" => waitFor = FlushJob \/ FlushJob \in ended'
      BY <1>1 DEF JobInv, WaitInv
    <2>. QED BY <1>1, <2>2, <2>3, <2>4 DEF JobInv, WaitInv
  <1>9. WritingInv'
    BY <1>1, <1>3, <1>5 DEF JobInv, WritingInv
  <1>10. FreedInv'
    BY <1>1, <1>5 DEF JobInv, FreedInv
  <1>. QED BY <1>1, <1>4, <1>7, <1>8, <1>9, <1>10 DEF JobInv

LEMMA FlushRuns ==
  ASSUME LifeTypes, JobInv, NEW t \in Thread, RunFlush(t)
  PROVE  LifeTypes' /\ JobInv'
  <1>1. /\ running[t] = FlushJob
        /\ UNCHANGED <<managerVars, lifeVars>>
        /\ UNCHANGED <<writing, g_asyncQueues>>
    BY DEF RunFlush, FlushStep, FlushPolls, FlushDequeues, FlushSinks
  <1>2. LifeTypes'
    BY <1>1 DEF LifeTypes, lifeVars
  <1>3. Loaded' = Loaded
    BY <1>1 DEF Loaded, managerVars
  <1>4. FlushJob \notin ended
    BY <1>1 DEF JobInv, JobsInv
  <1>5. JobInv'
    BY <1>1, <1>3, <1>4 DEF JobInv, JobsInv, WaitInv, WritingInv, FreedInv, lifeVars
  <1>. QED BY <1>2, <1>5

LEMMA LogBegun ==
  ASSUME LogTypeOK, LifeTypes, JobInv, NEW t \in Thread, LogBegins(t)
  PROVE  LifeTypes' /\ JobInv'
  <1>1. /\ IF t = Main /\ running[Main] = NoJob
           THEN Log \in Loaded /\ waitFor = NoJob /\ phase \notin {"flushing", "jobs", "down", "undefined"}
           ELSE running[t] \notin {NoJob, FlushJob}
        /\ UNCHANGED <<managerVars, lifeVars>>
        /\ UNCHANGED <<flush, g_asyncQueues>>
        /\ \A u \in Thread : u # t => writing'[u] = writing[u]
    BY DEF LogBegins, AcquireBuffer, LogTypeOK
  <1>2. LifeTypes'
    BY <1>1 DEF LifeTypes, lifeVars
  <1>3. Loaded' = Loaded
    BY <1>1 DEF Loaded, managerVars
  <1>4. UNCHANGED <<phase, queue, running, waitFor, ended, pushed>>
    BY <1>1 DEF lifeVars
  <1>5. JobsInv' /\ WaitInv' /\ FreedInv'
    BY <1>1, <1>3, <1>4 DEF JobInv, JobsInv, WaitInv, FreedInv
  <1>6. WritingInv'
    BY <1>1, <1>3, <1>4, JobNames DEF JobInv, WritingInv
  <1>. QED BY <1>2, <1>5, <1>6 DEF JobInv

LEMMA LogEnded ==
  ASSUME LogTypeOK, LifeTypes, JobInv, NEW t \in Thread, LogEnds(t)
  PROVE  LifeTypes' /\ JobInv'
  <1>1. /\ UNCHANGED <<managerVars, lifeVars>>
        /\ UNCHANGED <<flush, g_asyncQueues>>
        /\ \A u \in Thread : writing'[u] = writing[u] \/ writing'[u] = NoBuffer
    BY DEF LogEnds, EnqueueMessage, LogTypeOK
  <1>2. LifeTypes'
    BY <1>1 DEF LifeTypes, lifeVars
  <1>3. Loaded' = Loaded
    BY <1>1 DEF Loaded, managerVars
  <1>4. UNCHANGED <<phase, queue, running, waitFor, ended, pushed>>
    BY <1>1 DEF lifeVars
  <1>5. JobsInv' /\ WaitInv' /\ FreedInv'
    BY <1>1, <1>3, <1>4 DEF JobInv, JobsInv, WaitInv, FreedInv
  <1>6. WritingInv'
    BY <1>1, <1>3, <1>4 DEF JobInv, WritingInv
  <1>. QED BY <1>2, <1>5, <1>6 DEF JobInv

\* When the imports have ended nothing is left but the flush job and loads.
LEMMA AssetsClosed ==
  ASSUME LifeTypes, JobInv, CloseAssets
  PROVE  LifeTypes' /\ JobInv'
  <1>1. /\ phase = "closing" /\ waitFor = NoJob /\ writing[Main] = NoBuffer
        /\ \A i \in 1..pushed["import"] : Import(i) \in ended
        /\ phase' = "modules"
        /\ UNCHANGED <<logVars, root, queue, running, waitFor, ended, pushed>>
        /\ UNCHANGED m_modules
    BY DEF CloseAssets, MainFree, ShutdownBegins
  <1>2. Loaded' = Loaded /\ UNCHANGED <<writing, flush, g_asyncQueues>>
    BY <1>1 DEF Loaded, logVars
  <1>3. LifeTypes'
    BY <1>1 DEF LifeTypes
  <1>4. phase \notin ShuttingDown /\ phase' \in ShuttingDown \ {"flushing"}
    BY <1>1 DEF ShuttingDown
  <1>5. JobsInv'
    BY <1>1, <1>4 DEF JobInv, JobsInv
  <1>6. ToSet(queue) \cup {running[t] : t \in Thread} \subseteq {FlushJob, NoJob} \cup LoadJobs
    <2>1. ASSUME NEW j \in ToSet(queue) \cup {running[t] : t \in Thread}
          PROVE  j \in {FlushJob, NoJob} \cup LoadJobs
      <3>1. j \notin ended \/ j = NoJob
        BY DEF JobInv, JobsInv
      <3>2. CASE \E i \in 1..pushed["import"] : j = Import(i)
        BY <1>1, <3>1, <3>2
      <3>3. CASE \E i \in 1..pushed["load"] : j = LoadJob(i)
        <4>1. queue \in Seq(Job) /\ running \in [Thread -> Job \cup {NoJob}]
          BY DEF LifeTypes
        <4>2. j \in Job \cup {NoJob}
          BY <2>1, <4>1 DEF ToSet
        <4>. QED BY <3>3, <4>2, JobNames DEF Job
      <3>. QED BY <2>1, <3>2, <3>3 DEF JobInv, JobsInv
    <2>. QED BY <2>1
  <1>7. WaitInv'
    BY <1>1, <1>4, <1>6, JobNames DEF JobInv, WaitInv
  <1>8. WritingInv'
    BY <1>1, <1>2 DEF JobInv, WritingInv
  <1>9. FreedInv'
    BY <1>1, <1>2, <1>4 DEF JobInv, FreedInv
  <1>. QED BY <1>3, <1>5, <1>7, <1>8, <1>9 DEF JobInv

\* Who is in sink_it while the main thread is not runs a job that logs.
LEMMA OnlyJobsWrite ==
  ASSUME JobInv, writing[Main] = NoBuffer
  PROVE  \A t \in Thread : writing[t] # NoBuffer => running[t] \notin {NoJob, FlushJob}
  BY DEF JobInv, WritingInv

LEMMA ModuleShut ==
  ASSUME TypeOK, ModulesInv, LifeTypes, JobInv, ShutdownModule
  PROVE  LifeTypes' /\ ManagerTypeOK' /\ ModulesInv' /\ JobInv' /\ (LogStops \/ UNCHANGED logVars)
  <1>1. /\ phase = "modules" /\ waitFor = NoJob /\ writing[Main] = NoBuffer
        /\ UNCHANGED <<root, queue, running, ended, pushed>>
        /\ phase \in ShuttingDown
    BY DEF ShutdownModule, MainFree, ShuttingDown
  <1>2. ManagerTypeOK
    BY DEF TypeOK
  <1>3. \A t \in Thread : writing[t] # NoBuffer => running[t] \notin {NoJob, FlushJob}
    BY <1>1, OnlyJobsWrite
  <1>4. CASE (\E m \in Module \ {Log} : ShutdownStep(m)) /\ UNCHANGED <<logVars, phase, waitFor>>
    <2>1. PICK m \in Module \ {Log} : ShutdownStep(m)
      BY <1>4
    <2>2. ManagerTypeOK' /\ ModulesInv' /\ Loaded' = Loaded \ {m}
      BY <1>1, <1>2, <1>4, <2>1, ShutsDown
    <2>3. LifeTypes'
      BY <1>1, <1>4 DEF LifeTypes
    <2>4. JobInv'
      <3>1. UNCHANGED <<writing, flush, g_asyncQueues, waitFor, phase>>
        BY <1>4 DEF logVars
      <3>2. Log \in Loaded' <=> Log \in Loaded
        BY <2>2
      <3>. QED BY <1>1, <3>1, <3>2, JobsKept
    <2>. QED BY <1>4, <2>2, <2>3, <2>4
  <1>5. CASE NextInReverse(Log) /\ phase' = "flushing" /\ LogStops /\ waitFor' = FlushJob /\ UNCHANGED managerVars
    <2>1. phase' \in ShuttingDown
      BY <1>5 DEF ShuttingDown
    <2>2. Loaded' = Loaded /\ ManagerTypeOK' /\ ModulesInv'
      <3>1. UNCHANGED <<m_modules, loadOrder, m_nextLoadIndex, m_state, stack, obtained, sorted>>
        BY <1>5 DEF managerVars
      <3>2. sorted \subseteq Module
        BY <1>2 DEF ManagerTypeOK
      <3>3. Loaded' = Loaded
        BY <3>1 DEF Loaded
      <3>4. SortedInv'
        BY <1>1, <2>1, <3>1, <3>3 DEF ModulesInv, SortedInv
      <3>. QED BY <1>2, <3>1, <3>2, <3>3, <3>4, ModulesKept
    <2>3. UNCHANGED <<writing, flush, g_asyncQueues>>
      BY <1>5 DEF LogStops
    <2>4. LifeTypes'
      BY <1>1, <1>5, JobNames DEF LifeTypes
    <2>5. Log \in Loaded
      BY <1>1, <1>5 DEF NextInReverse, ModulesInv, SortedInv
    <2>6. JobsInv'
      BY <1>1, <2>1, <2>2 DEF JobInv, JobsInv
    <2>7. WaitInv'
      <3>1. waitFor' = FlushJob /\ FlushJob # NoJob /\ phase' = "flushing"
        BY <1>5, JobNames
      <3>. QED BY <1>1, <2>1, <3>1 DEF JobInv, WaitInv
    <2>8. WritingInv'
      BY <1>1, <1>3, <2>3 DEF WritingInv
    <2>9. FreedInv'
      BY <1>1, <2>2, <2>3, <2>5 DEF JobInv, FreedInv
    <2>. QED BY <1>5, <2>2, <2>4, <2>6, <2>7, <2>8, <2>9 DEF JobInv
  <1>6. CASE sorted = {} /\ phase' = "jobs" /\ UNCHANGED <<managerVars, logVars, waitFor>>
    <2>1. phase' \in ShuttingDown \ {"flushing"}
      BY <1>6 DEF ShuttingDown
    <2>2. Loaded' = Loaded /\ ManagerTypeOK' /\ ModulesInv'
      <3>1. UNCHANGED <<m_modules, loadOrder, m_nextLoadIndex, m_state, stack, obtained, sorted>>
        BY <1>6 DEF managerVars
      <3>2. sorted \subseteq Module
        BY <1>2 DEF ManagerTypeOK
      <3>3. Loaded' = Loaded
        BY <3>1 DEF Loaded
      <3>4. SortedInv'
        BY <1>1, <2>1, <3>1, <3>3 DEF ModulesInv, SortedInv
      <3>. QED BY <1>2, <3>1, <3>2, <3>3, <3>4, ModulesKept
    <2>3. UNCHANGED <<writing, flush, g_asyncQueues, waitFor>>
      BY <1>6 DEF logVars
    <2>4. LifeTypes'
      BY <1>1, <1>6 DEF LifeTypes
    <2>5. JobsInv'
      BY <1>1, <2>1, <2>2 DEF JobInv, JobsInv
    <2>6. WaitInv'
      BY <1>1, <2>1, <2>3 DEF JobInv, WaitInv
    <2>7. WritingInv'
      BY <1>1, <1>3, <2>3 DEF WritingInv
    <2>8. FreedInv'
      BY <1>1, <2>1, <2>2, <2>3 DEF JobInv, FreedInv
    <2>. QED BY <1>6, <2>2, <2>4, <2>5, <2>6, <2>7, <2>8 DEF JobInv
  <1>. QED BY <1>4, <1>5, <1>6 DEF ShutdownModule

LEMMA LogShut ==
  ASSUME TypeOK, ModulesInv, LifeTypes, JobInv, LogShutdownEnds
  PROVE  LifeTypes' /\ ManagerTypeOK' /\ ModulesInv' /\ JobInv' /\ LogFrees
  <1>1. /\ phase = "flushing" /\ waitFor = NoJob /\ writing[Main] = NoBuffer
        /\ LogFrees /\ ShutdownStep(Log) /\ phase' = "modules"
        /\ UNCHANGED <<root, queue, running, waitFor, ended, pushed>>
        /\ phase \in ShuttingDown /\ phase' \in ShuttingDown \ {"flushing"}
    BY DEF LogShutdownEnds, MainFree, ShuttingDown
  <1>2. ManagerTypeOK
    BY DEF TypeOK
  <1>3. ManagerTypeOK' /\ ModulesInv' /\ Loaded' = Loaded \ {Log}
    BY <1>1, <1>2, ShutsDown
  <1>4. \A t \in Thread : writing[t] # NoBuffer => running[t] \notin {NoJob, FlushJob}
    BY <1>1, OnlyJobsWrite
  <1>5. UNCHANGED <<writing, flush>>
    BY <1>1 DEF LogFrees
  <1>6. FlushJob \in ended
    BY <1>1, JobNames DEF JobInv, WaitInv
  <1>7. LifeTypes'
    BY <1>1 DEF LifeTypes
  <1>8. JobsInv'
    BY <1>1 DEF JobInv, JobsInv
  <1>9. WaitInv'
    BY <1>1, JobNames DEF JobInv, WaitInv
  <1>10. WritingInv'
    BY <1>1, <1>4, <1>5 DEF WritingInv
  <1>11. FreedInv'
    BY <1>1, <1>3, <1>5, <1>6 DEF JobInv, FreedInv
  <1>. QED BY <1>1, <1>3, <1>7, <1>8, <1>9, <1>10, <1>11 DEF JobInv

-------------------------------------------------------------------------------
(* Steps *)

LEMMA Types == TypeOK <=> ManagerTypeOK /\ LogTypeOK /\ LifeTypes
  BY DEF TypeOK, LifeTypes

\* A step of the modules' layer, of the log's and of the jobs'.
LEMMA Composed ==
  ASSUME ManagerTypeOK' /\ ModulesInv', LogTypeOK' /\ LogInv', LifeTypes' /\ JobInv'
  PROVE  IInv'
  BY DEF IInv, TypeOK, LifeTypes

\* The modules' layer in the steps that are not its own.
LEMMA ModulesStay ==
  ASSUME ManagerTypeOK, ModulesInv, UNCHANGED managerVars,
         \/ phase' = phase
         \/ phase # "init"
         \/ stack = <<>> /\ m_state # "finalizing",
         phase' \in ShuttingDown <=> phase \in ShuttingDown
  PROVE  ManagerTypeOK' /\ ModulesInv' /\ Loaded' = Loaded
  <1>1. UNCHANGED <<m_modules, loadOrder, m_nextLoadIndex, m_state, stack, obtained, sorted>>
    BY DEF managerVars
  <1>2. Loaded' = Loaded /\ sorted' \subseteq Module
    BY <1>1 DEF Loaded, ManagerTypeOK
  <1>3. SortedInv'
    BY <1>1, <1>2 DEF ModulesInv, SortedInv
  <1>. QED BY <1>1, <1>2, <1>3, ModulesKept

LEMMA RootLoaded ==
  ASSUME IInv, LoadRoot
  PROVE  IInv'
  <1>1. /\ phase = "init" /\ MainFree /\ root < Len(Roots)
        /\ Load(Roots[root + 1], stack) /\ root' = root + 1
        /\ UNCHANGED <<logVars, phase, queue, running, waitFor, ended, pushed>>
    BY DEF LoadRoot
  <1>2. ManagerTypeOK /\ ModulesInv /\ LogTypeOK /\ LogInv /\ LifeTypes /\ JobInv
    BY Types DEF IInv
  <1>3. Roots[root + 1] \in Request /\ root + 1 \in 0..Len(Roots)
    BY <1>1, <1>2, RootsAssumption DEF LifeTypes
  <1>4. stack \in Seq([module : Module, asked : Nat])
    BY <1>2 DEF ManagerTypeOK
  <1>5. ManagerTypeOK' /\ ModulesInv'
    BY <1>1, <1>2, <1>3, <1>4, Loads
  <1>6. Loaded' = Loaded
    BY <1>1, <1>2, <1>3 DEF Load, Loaded, ManagerTypeOK
  <1>7. LogTypeOK' /\ LogInv'
    BY <1>1, <1>2, LogControls
  <1>8. LifeTypes'
    BY <1>1, <1>2, <1>3 DEF LifeTypes
  <1>9. JobInv'
    <2>1. UNCHANGED <<writing, flush, g_asyncQueues>>
      BY <1>1 DEF logVars
    <2>. QED BY <1>1, <1>2, <1>6, <2>1, JobsKept
  <1>. QED BY <1>5, <1>7, <1>8, <1>9, Composed

\* The startup at the top of the stack asks for its next load.
LEMMA Asks ==
  ASSUME ManagerTypeOK, ModulesInv, StartupAsks, phase' = phase
  PROVE  ManagerTypeOK' /\ ModulesInv' /\ Loaded' = Loaded
  <1> DEFINE top == Last(stack)
             r == Requests[top.module][top.asked + 1]
             s == [stack EXCEPT ![Len(stack)].asked = @ + 1]
  <1>1. stack # <<>> /\ top.asked < Len(Requests[top.module]) /\ Load(r, s)
    BY DEF StartupAsks
  <1>2. /\ stack \in Seq([module : Module, asked : Nat]) /\ Len(stack) \in Nat \ {0}
        /\ DOMAIN stack = 1..Len(stack) /\ Last(stack) = stack[Len(stack)]
    BY <1>1 DEF ManagerTypeOK, Last
  <1>3. top \in [module : Module, asked : Nat]
    <2>1. Len(stack) \in 1..Len(stack)
      BY <1>2
    <2>2. stack[Len(stack)] \in [module : Module, asked : Nat]
      BY <1>2, <2>1, Elements
    <2>. QED BY <1>2, <2>2
  <1>4. r \in Request
    <2>1. Requests[top.module] \in Seq(Request)
      BY <1>3, RequestsAssumption
    <2>2. top.asked + 1 \in 1..Len(Requests[top.module])
      BY <1>1, <1>3, <2>1
    <2>. QED BY <2>1, <2>2
  <1>5. /\ DOMAIN s = DOMAIN stack
        /\ \A i \in DOMAIN stack : s[i] = IF i = Len(stack) THEN [top EXCEPT !.asked = @ + 1] ELSE stack[i]
    BY <1>2
  <1>6. [top EXCEPT !.asked = @ + 1] \in [module : Module, asked : Nat]
        /\ [top EXCEPT !.asked = @ + 1].module = top.module
    BY <1>3
  <1> DEFINE asking == [top EXCEPT !.asked = @ + 1]
  <1>7. \A i \in DOMAIN stack : s[i] \in [module : Module, asked : Nat] /\ s[i].module = stack[i].module
    <2>1. top = stack[Len(stack)]
      BY <1>2
    <2>2. /\ asking \in [module : Module, asked : Nat] /\ asking.module = top.module
          /\ \A i \in DOMAIN stack : s[i] = IF i = Len(stack) THEN asking ELSE stack[i]
      BY <1>5, <1>6
    <2>3. \A i \in DOMAIN stack : stack[i] \in [module : Module, asked : Nat]
      BY <1>2, Elements
    <2>. HIDE DEF asking, s, top
    <2>. QED BY <2>1, <2>2, <2>3
  <1>. HIDE DEF r, asking
  <1>8. s \in Seq([module : Module, asked : Nat])
    BY <1>2, <1>5, <1>7
  <1>9. s = <<>> <=> stack = <<>>
    BY <1>1, <1>2, <1>5, <1>8
  <1>10. phase = "init"
    BY <1>1 DEF ModulesInv, SortedInv
  <1>. HIDE DEF s, top
  <1>11. \A i \in DOMAIN s : s[i].module = stack[i].module
    BY <1>5, <1>7
  <1>12. ManagerTypeOK' /\ ModulesInv'
    BY <1>1, <1>4, <1>5, <1>8, <1>9, <1>10, <1>11, Loads
  <1>13. Loaded' = Loaded
    BY <1>1, <1>4 DEF Load, Loaded, ManagerTypeOK
  <1>. QED BY <1>12, <1>13

LEMMA StartedUp ==
  ASSUME IInv, StartupStep
  PROVE  IInv'
  <1>1. ManagerTypeOK /\ ModulesInv /\ LogTypeOK /\ LogInv /\ LifeTypes /\ JobInv
    BY Types DEF IInv
  <1>2. UNCHANGED <<phase, root, running, waitFor, ended, pushed>>
    BY DEF StartupStep
  <1>3. CASE StartupSucceeds(Log) /\ LogStartup /\ queue' = Append(queue, FlushJob)
    <2>1. /\ ManagerTypeOK' /\ ModulesInv'
          /\ Log \in Module \ Loaded /\ Loaded' = Loaded \cup {Log} /\ phase = "init"
      BY <1>1, <1>2, <1>3, Starts
    <2>2. LifeTypes' /\ JobInv'
      BY <1>1, <1>2, <1>3, <2>1, FlushPushed
    <2>3. LogTypeOK' /\ LogInv'
      BY <1>1, <1>3, LogControls
    <2>. QED BY <2>1, <2>2, <2>3, Composed
  <1>4. ASSUME ManagerTypeOK' /\ ModulesInv', Log \in Loaded' <=> Log \in Loaded,
               UNCHANGED <<logVars, queue>>
        PROVE  IInv'
    <2>1. UNCHANGED <<writing, flush, g_asyncQueues>>
      BY <1>4 DEF logVars
    <2>2. JobInv'
      BY <1>1, <1>2, <1>4, <2>1, JobsKept
    <2>3. LifeTypes'
      BY <1>1, <1>2, <1>4 DEF LifeTypes
    <2>4. LogTypeOK' /\ LogInv'
      BY <1>1, <1>4, LogControls
    <2>. QED BY <1>4, <2>2, <2>3, <2>4, Composed
  <1>5. CASE StartupAsks /\ UNCHANGED <<logVars, queue>>
    BY <1>1, <1>2, <1>4, <1>5, Asks
  <1>6. CASE \E m \in Module \ {Log} : StartupSucceeds(m) /\ UNCHANGED <<logVars, queue>>
    <2>1. PICK m \in Module \ {Log} : StartupSucceeds(m) /\ UNCHANGED <<logVars, queue>>
      BY <1>6
    <2>2. ManagerTypeOK' /\ ModulesInv' /\ Loaded' = Loaded \cup {m}
      BY <1>1, <1>2, <2>1, Starts
    <2>3. Log \in Loaded' <=> Log \in Loaded
      BY <2>1, <2>2
    <2>. QED BY <1>4, <2>1, <2>2, <2>3
  <1>7. CASE \E m \in Module : StartupFailsWith(m) /\ UNCHANGED <<logVars, queue>>
    <2>1. PICK m \in Module : StartupFailsWith(m) /\ UNCHANGED <<logVars, queue>>
      BY <1>7
    <2>2. ManagerTypeOK' /\ ModulesInv' /\ Loaded' = Loaded
      BY <1>1, <1>2, <2>1, Fails
    <2>. QED BY <1>4, <2>1, <2>2
  <1>. QED BY <1>3, <1>5, <1>6, <1>7 DEF StartupStep

\* The main thread goes on to another phase before the shutdown of the modules.
LEMMA PhaseMoves ==
  ASSUME IInv, waitFor = NoJob, stack = <<>>, m_state # "finalizing",
         phase \notin ShuttingDown, phase' \in {"run", "closing"},
         UNCHANGED <<managerVars, logVars, root, queue, running, waitFor, ended, pushed>>
  PROVE  IInv'
  <1>1. ManagerTypeOK /\ ModulesInv /\ LogTypeOK /\ LogInv /\ LifeTypes /\ JobInv
    BY Types DEF IInv
  <1>2. phase' \notin ShuttingDown
    BY DEF ShuttingDown
  <1>3. ManagerTypeOK' /\ ModulesInv' /\ Loaded' = Loaded
    BY <1>1, <1>2, ModulesStay
  <1>4. LogTypeOK' /\ LogInv'
    BY <1>1, LogControls
  <1>5. LifeTypes'
    BY <1>1 DEF LifeTypes
  <1>6. JobInv'
    <2>1. UNCHANGED <<writing, flush, g_asyncQueues>>
      BY DEF logVars
    <2>. QED BY <1>1, <1>2, <1>3, <2>1, JobsKept
  <1>. QED BY <1>3, <1>4, <1>5, <1>6, Composed

LEMMA Finalized ==
  ASSUME IInv, FinalizeModules
  PROVE  IInv'
  <1>1. ManagerTypeOK /\ ModulesInv /\ LogTypeOK /\ LogInv /\ LifeTypes /\ JobInv
    BY Types DEF IInv
  <1>2. /\ phase = "init" /\ waitFor = NoJob
        /\ UNCHANGED <<logVars, root, queue, running, waitFor, ended, pushed>>
    BY DEF FinalizeModules, MainFree
  <1>3. CASE (FinalizeBegins \/ FinalizeStep) /\ UNCHANGED phase
    <2>1. ManagerTypeOK' /\ ModulesInv' /\ Loaded' = Loaded
      BY <1>1, <1>2, <1>3, Finalizes
    <2>2. LogTypeOK' /\ LogInv'
      BY <1>1, <1>2, LogControls
    <2>3. LifeTypes'
      BY <1>1, <1>2, <1>3 DEF LifeTypes
    <2>4. UNCHANGED <<writing, flush, g_asyncQueues>>
      BY <1>2 DEF logVars
    <2>5. JobInv'
      BY <1>1, <1>2, <1>3, <2>1, <2>4, JobsKept
    <2>. QED BY <2>1, <2>2, <2>3, <2>5, Composed
  <1>4. CASE m_state \in {"finalized", "failed"} /\ phase' \in {"run", "closing"} /\ UNCHANGED managerVars
    <2>1. stack = <<>>
      BY <1>4, <1>1 DEF ModulesInv, StackInv
    <2>2. phase \notin ShuttingDown
      BY <1>2 DEF ShuttingDown
    <2>. QED BY <1>2, <1>4, <2>1, <2>2, PhaseMoves
  <1>. QED BY <1>3, <1>4 DEF FinalizeModules

LEMMA Closes ==
  ASSUME IInv, ProjectFails \/ Close
  PROVE  IInv'
  <1>1. /\ phase \in {"init", "run"} /\ waitFor = NoJob /\ phase' = "closing"
        /\ UNCHANGED <<managerVars, logVars, root, queue, running, waitFor, ended, pushed>>
    BY DEF ProjectFails, Close, MainFree
  <1>2. stack = <<>> /\ m_state # "finalizing"
    <2>1. CASE ProjectFails
      BY <2>1 DEF ProjectFails
    <2>2. CASE Close
      BY <2>2 DEF Close, IInv, ModulesInv, SortedInv
    <2>. QED BY <2>1, <2>2
  <1>. QED BY <1>1, <1>2, PhaseMoves DEF ShuttingDown

LEMMA ShutdownBegun ==
  ASSUME IInv, CloseAssets
  PROVE  IInv'
  <1>1. ManagerTypeOK /\ ModulesInv /\ LogTypeOK /\ LogInv /\ LifeTypes /\ JobInv
    BY Types DEF IInv
  <1>2. /\ phase = "closing" /\ phase' = "modules" /\ sorted' = Loaded
        /\ UNCHANGED <<m_modules, loadOrder, m_nextLoadIndex, m_state, stack, obtained>>
        /\ UNCHANGED logVars
    BY DEF CloseAssets, ShutdownBegins
  <1>3. LifeTypes' /\ JobInv'
    BY <1>1, AssetsClosed
  <1>4. ManagerTypeOK' /\ ModulesInv'
    <2>1. Loaded' = Loaded /\ sorted' \subseteq Module
      BY <1>1, <1>2, ModulesKept
    <2>2. SortedInv'
      BY <1>1, <1>2, <2>1 DEF ModulesInv, SortedInv, ShuttingDown
    <2>. QED BY <1>1, <1>2, <2>1, <2>2, ModulesKept
  <1>5. LogTypeOK' /\ LogInv'
    BY <1>1, <1>2, LogControls
  <1>. QED BY <1>3, <1>4, <1>5, Composed

LEMMA ShutDown ==
  ASSUME IInv, ShutdownModule \/ LogShutdownEnds
  PROVE  IInv'
  <1>1. TypeOK /\ ModulesInv /\ LogTypeOK /\ LogInv /\ LifeTypes /\ JobInv
    BY Types DEF IInv
  <1>2. LifeTypes' /\ ManagerTypeOK' /\ ModulesInv' /\ JobInv' /\ (LogStops \/ LogFrees \/ UNCHANGED logVars)
    BY <1>1, ModuleShut, LogShut
  <1>3. LogTypeOK' /\ LogInv'
    BY <1>1, <1>2, LogControls
  <1>. QED BY <1>2, <1>3, Composed

LEMMA Joined ==
  ASSUME IInv, JobsShutdown
  PROVE  IInv'
  <1>1. ManagerTypeOK /\ ModulesInv /\ LogTypeOK /\ LogInv /\ LifeTypes /\ JobInv
    BY Types DEF IInv
  <1>2. /\ phase = "jobs" /\ phase' = "down"
        /\ UNCHANGED <<managerVars, logVars, root, queue, running, waitFor, ended, pushed>>
        /\ phase \in ShuttingDown /\ phase' \in ShuttingDown
    BY DEF JobsShutdown, ShuttingDown
  <1>3. ManagerTypeOK' /\ ModulesInv' /\ Loaded' = Loaded
    BY <1>1, <1>2, ModulesStay
  <1>4. LogTypeOK' /\ LogInv'
    BY <1>1, <1>2, LogControls
  <1>5. LifeTypes'
    BY <1>1, <1>2 DEF LifeTypes
  <1>6. UNCHANGED <<writing, flush, g_asyncQueues>>
    BY <1>2 DEF logVars
  <1>7. JobsInv'
    BY <1>1, <1>2, <1>3 DEF JobInv, JobsInv
  <1>8. WaitInv'
    BY <1>1, <1>2 DEF JobInv, WaitInv
  <1>9. WritingInv'
    BY <1>1, <1>2, <1>6 DEF JobInv, WritingInv
  <1>10. FreedInv'
    BY <1>1, <1>2, <1>3, <1>6 DEF JobInv, FreedInv
  <1>. QED BY <1>3, <1>4, <1>5, <1>7, <1>8, <1>9, <1>10, Composed DEF JobInv

\* A load that logs after the queues are freed.
LEMMA FreedUsed ==
  ASSUME IInv, NEW t \in Thread, UseFreedQueues(t)
  PROVE  IInv'
  <1>1. ManagerTypeOK /\ ModulesInv /\ LogTypeOK /\ LogInv /\ LifeTypes /\ JobInv
    BY Types DEF IInv
  <1>2. /\ g_asyncQueues = "freed" /\ phase' = "undefined"
        /\ UNCHANGED <<managerVars, logVars, root, queue, running, waitFor, ended, pushed>>
    BY DEF UseFreedQueues
  <1>3. FlushJob \in ended /\ Log \notin Loaded /\ phase \in ShuttingDown \ {"flushing"}
    BY <1>1, <1>2 DEF JobInv, FreedInv
  <1>4. phase' \in ShuttingDown \ {"flushing"} /\ phase \notin {"init", "run", "closing"}
    BY <1>2, <1>3 DEF ShuttingDown
  <1>5. ManagerTypeOK' /\ ModulesInv' /\ Loaded' = Loaded
    BY <1>1, <1>2, <1>3, <1>4, ModulesStay
  <1>6. LogTypeOK' /\ LogInv'
    BY <1>1, <1>2, LogControls
  <1>7. LifeTypes'
    BY <1>1, <1>2 DEF LifeTypes
  <1>8. UNCHANGED <<writing, flush, g_asyncQueues>>
    BY <1>2 DEF logVars
  <1>9. JobsInv' /\ FreedInv'
    BY <1>1, <1>2, <1>3, <1>4, <1>5, <1>8 DEF JobInv, JobsInv, FreedInv
  <1>10. WaitInv'
    <2>1. waitFor = NoJob
      BY <1>1, <1>3, <1>4 DEF JobInv, WaitInv
    <2>. QED BY <1>1, <1>2, <1>3, <1>4, <2>1, JobNames DEF JobInv, WaitInv
  <1>11. WritingInv'
    BY <1>1, <1>2, <1>3, <1>8 DEF JobInv, WritingInv
  <1>. QED BY <1>5, <1>6, <1>7, <1>9, <1>10, <1>11, Composed DEF JobInv

\* The steps of the jobs' layer and of the log's.
LEMMA JobsStep ==
  ASSUME IInv,
         \/ WaitEnds \/ PushImport \/ StartLoad \/ WaitForLoad
         \/ \E t \in Thread : JobStep(t) \/ LogBegins(t) \/ LogEnds(t)
  PROVE  IInv'
  <1>1. ManagerTypeOK /\ ModulesInv /\ LogTypeOK /\ LogInv /\ LifeTypes /\ JobInv
    BY Types DEF IInv
  <1>2. ASSUME UNCHANGED <<managerVars, phase>>, LogTypeOK' /\ LogInv', LifeTypes' /\ JobInv'
        PROVE  IInv'
    <2>1. ManagerTypeOK' /\ ModulesInv'
      BY <1>1, <1>2, ModulesStay
    <2>. QED BY <1>2, <2>1, Composed
  <1>3. CASE WaitEnds \/ PushImport \/ StartLoad \/ WaitForLoad
    <2>1. LifeTypes' /\ JobInv' /\ UNCHANGED <<managerVars, logVars, phase, root>>
      BY <1>1, <1>3, Waited, ImportPushed, LoadPushed, LoadAwaited
    <2>2. LogTypeOK' /\ LogInv'
      BY <1>1, <2>1, LogControls
    <2>. QED BY <1>2, <2>1, <2>2
  <1>4. ASSUME NEW t \in Thread, JobStep(t) \/ LogBegins(t) \/ LogEnds(t)
        PROVE  IInv'
    <2>1. CASE Take(t)
      <3>1. LifeTypes' /\ JobInv' /\ UNCHANGED <<managerVars, phase, root>> /\ (FlushBegins \/ UNCHANGED logVars)
        BY <1>1, <2>1, Taken
      <3>2. LogTypeOK' /\ LogInv'
        BY <1>1, <3>1, LogControls
      <3>. QED BY <1>2, <3>1, <3>2
    <2>2. CASE EndJob(t)
      <3>1. LifeTypes' /\ JobInv' /\ UNCHANGED <<managerVars, logVars, phase, root>>
        BY <1>1, <2>2, Ended
      <3>2. LogTypeOK' /\ LogInv'
        BY <1>1, <3>1, LogControls
      <3>. QED BY <1>2, <3>1, <3>2
    <2>3. CASE RunFlush(t)
      <3>1. LifeTypes' /\ JobInv'
        BY <1>1, <2>3, FlushRuns
      <3>2. UNCHANGED <<managerVars, phase>> /\ FlushStep
        BY <2>3 DEF RunFlush, lifeVars
      <3>3. LogTypeOK' /\ LogInv'
        BY <1>1, <3>2, Flushes
      <3>. QED BY <1>2, <3>1, <3>2, <3>3
    <2>4. CASE LogBegins(t)
      <3>1. LifeTypes' /\ JobInv'
        BY <1>1, <2>4, LogBegun
      <3>2. UNCHANGED <<managerVars, phase>> /\ AcquireBuffer(t)
        BY <2>4 DEF LogBegins, lifeVars
      <3>3. LogTypeOK' /\ LogInv'
        BY <1>1, <3>2, Acquires
      <3>. QED BY <1>2, <3>1, <3>2, <3>3
    <2>5. CASE LogEnds(t)
      <3>1. LifeTypes' /\ JobInv'
        BY <1>1, <2>5, LogEnded
      <3>2. UNCHANGED <<managerVars, phase>> /\ EnqueueMessage(t)
        BY <2>5 DEF LogEnds, lifeVars
      <3>3. LogTypeOK' /\ LogInv'
        BY <1>1, <3>2, Enqueues
      <3>. QED BY <1>2, <3>1, <3>2, <3>3
    <2>. QED BY <1>4, <2>1, <2>2, <2>3, <2>4, <2>5 DEF JobStep
  <1>. QED BY <1>3, <1>4

LEMMA Preserved ==
  ASSUME IInv, [Next]_vars
  PROVE  IInv'
  <1>1. CASE Next
    <2>1. CASE LoadRoot
      BY <2>1, RootLoaded
    <2>2. CASE StartupStep
      BY <2>2, StartedUp
    <2>3. CASE FinalizeModules
      BY <2>3, Finalized
    <2>4. CASE ProjectFails \/ Close
      BY <2>4, Closes
    <2>5. CASE CloseAssets
      BY <2>5, ShutdownBegun
    <2>6. CASE ShutdownModule \/ LogShutdownEnds
      BY <2>6, ShutDown
    <2>7. CASE JobsShutdown
      BY <2>7, Joined
    <2>8. CASE \/ WaitEnds \/ PushImport \/ StartLoad \/ WaitForLoad
               \/ \E t \in Thread : JobStep(t) \/ LogBegins(t) \/ LogEnds(t)
      BY <2>8, JobsStep
    <2>9. CASE \E t \in Thread : UseFreedQueues(t)
      BY <2>9, FreedUsed
    <2>. QED BY <1>1, <2>1, <2>2, <2>3, <2>4, <2>5, <2>6, <2>7, <2>8, <2>9 DEF Next, MainStep
  <1>2. CASE UNCHANGED vars
    <2>1. ManagerTypeOK /\ ModulesInv /\ LogTypeOK /\ LogInv /\ LifeTypes /\ JobInv
      BY Types DEF IInv
    <2>2. UNCHANGED <<managerVars, logVars, lifeVars>>
      BY <1>2 DEF vars
    <2>3. UNCHANGED <<phase, root, queue, running, waitFor, ended, pushed>>
      BY <2>2 DEF lifeVars
    <2>4. ManagerTypeOK' /\ ModulesInv' /\ Loaded' = Loaded
      BY <2>1, <2>2, <2>3, ModulesStay
    <2>5. LogTypeOK' /\ LogInv'
      BY <2>1, <2>2, LogControls
    <2>6. LifeTypes'
      BY <2>1, <2>3 DEF LifeTypes
    <2>7. UNCHANGED <<writing, flush, g_asyncQueues>>
      BY <2>2 DEF logVars
    <2>8. JobInv'
      BY <2>1, <2>3, <2>4, <2>7, JobsKept
    <2>. QED BY <2>4, <2>5, <2>6, <2>8, Composed
  <1>. QED BY <1>1, <1>2

LEMMA Begins ==
  ASSUME Init
  PROVE  IInv
  <1>1. /\ m_modules = [m \in Module |-> "absent"] /\ loadOrder = [m \in Module |-> 0]
        /\ m_nextLoadIndex = 0 /\ m_state = "idle" /\ stack = <<>> /\ sorted = {}
        /\ obtained = [m \in Module |-> {}]
    BY DEF Init, ManagerInit
  <1>2. /\ g_isAsync = FALSE /\ g_stopFlushJob = FALSE /\ g_asyncQueues = "none" /\ chunks = 0
        /\ buffers = {} /\ logs = [t \in Thread |-> <<>>] /\ data = [b \in Buffer |-> NoMessage]
        /\ writing = [t \in Thread |-> NoBuffer] /\ logged = [t \in Thread |-> 0]
        /\ flush = "none" /\ batch = <<>> /\ next = 0 /\ sunk = <<>>
    BY DEF Init, LogInit
  <1>3. /\ phase = "init" /\ root = 0 /\ queue = <<>> /\ running = [t \in Thread |-> NoJob]
        /\ waitFor = NoJob /\ ended = {} /\ pushed = [k \in {"import", "load"} |-> 0]
    BY DEF Init
  <1>4. Loaded = {} /\ phase \notin ShuttingDown
    BY <1>1, <1>3 DEF Loaded, ShuttingDown
  <1>5. ManagerTypeOK
    BY <1>1 DEF ManagerTypeOK
  <1>6. LogTypeOK
    <2>1. chunks \in 0..MaxChunks /\ next \in 0..Len(batch) /\ batch \in Seq(Buffer) /\ sunk \in Seq(Message)
      BY <1>2, BufferAssumption
    <2>2. logs \in [Thread -> Seq(Buffer)] /\ writing \in [Thread -> Buffer \cup {NoBuffer}]
      BY <1>2
    <2>3. logged \in [Thread -> Nat] /\ data \in [Buffer -> Message \cup {NoMessage}]
      BY <1>2
    <2>. QED BY <1>2, <2>1, <2>2, <2>3 DEF LogTypeOK
  <1>7. Len(Roots) \in Nat
    BY RootsAssumption
  <1>8. LifeTypes
    BY <1>3, <1>7 DEF LifeTypes
  <1>9. ModulesInv
    <2>1. StackInv
      BY <1>1 DEF StackInv
    <2>2. OrderInv /\ ObtainedInv /\ FinalizedInv /\ SortedInv
      BY <1>1, <1>3, <1>4 DEF OrderInv, ObtainedInv, FinalizedInv, SortedInv
    <2>. QED BY <2>1, <2>2 DEF ModulesInv
  <1>10. ToSet(batch) = {} /\ ToSet(queue) = {} /\ Queued = {}
    BY <1>2, <1>3 DEF ToSet, Queued
  <1>11. OwnedInv
    <2>1. Allocated = {}
      BY <1>2 DEF Allocated
    <2>2. \A t \in Thread : writing[t] = NoBuffer /\ DOMAIN logs[t] = {}
      BY <1>2
    <2>3. {writing[t] : t \in Thread} \ {NoBuffer} = {}
      BY <2>2
    <2>4. DOMAIN batch = {}
      BY <1>2
    <2>. QED BY <1>2, <1>10, <2>1, <2>2, <2>3, <2>4 DEF OwnedInv
  <1>12. NumberInv
    <2>1. Len(sunk) = 0 /\ Len(batch) = 0 /\ next = 0
      BY <1>2
    <2>2. 1..(Len(sunk) + Len(batch) - next) = {}
      BY <2>1
    <2>3. DOMAIN Out = {}
      BY <2>2 DEF Out
    <2>4. Out \in Seq({}) /\ Len(Out) = 0
      BY <2>1, <2>2 DEF Out
    <2>5. ASSUME NEW t \in Thread
          PROVE  CountOf(Out, t, Len(Out)) = 0
      <3>1. {j \in 1..Len(Out) : Out[j].thread = t} = {}
        BY <2>4
      <3>. QED BY <3>1, FS_EmptySet DEF CountOf
    <2>6. \A t \in Thread : writing[t] = NoBuffer /\ logs[t] = <<>> /\ logged[t] = 0
      BY <1>2
    <2>7. ASSUME NEW t \in Thread
          PROVE  LET left == CountOf(Out, t, Len(Out))
                 IN  /\ logged[t] = left + Len(logs[t])
                     /\ \A i \in DOMAIN logs[t] : data[logs[t][i]] = [thread |-> t, number |-> left + i]
                     /\ writing[t] # NoBuffer => data[writing[t]] = [thread |-> t, number |-> logged[t] + 1]
      <3>1. logged[t] = CountOf(Out, t, Len(Out)) + Len(logs[t]) /\ DOMAIN logs[t] = {} /\ writing[t] = NoBuffer
        BY <2>5, <2>6
      <3>. QED BY <3>1
    <2>. QED BY <2>3, <2>7 DEF NumberInv
  <1>13. JobInv
    <2>1. \A t \in Thread : running[t] = NoJob /\ writing[t] = NoBuffer
      BY <1>2, <1>3
    <2>2. pushed["import"] = 0 /\ pushed["load"] = 0 /\ 1..0 = {}
      BY <1>3
    <2>3. JobsInv
      BY <1>3, <1>10, <2>1 DEF JobsInv
    <2>4. WaitInv
      BY <1>3, <1>4, <2>1, JobNames, MainAssumption DEF WaitInv
    <2>5. WritingInv /\ FreedInv
      BY <1>2, <1>3, <2>1 DEF WritingInv, FreedInv
    <2>. QED BY <2>3, <2>4, <2>5 DEF JobInv
  <1>. QED BY <1>5, <1>6, <1>8, <1>9, <1>11, <1>12, <1>13, Types DEF IInv, LogInv

\* IInv holds in every state of the engine, whatever the modules load in their
\* startups, the threads, the imports and loads, which the shutdown may find queued
\* or running, and the messages they log.
THEOREM Inductive == Spec => []IInv
  <1>1. Init => IInv
    BY Begins
  <1>2. IInv /\ [Next]_vars => IInv'
    BY Preserved
  <1>. QED BY <1>1, <1>2, PTL DEF Spec

-------------------------------------------------------------------------------
(* What IInv implies *)

\* The modules a startup obtained are loaded as long as its module, and were
\* finalized before it: the load order, given when a startup returns
\* (module_manager.cpp:440), is one that finalize can follow and shutdown reverse.
THEOREM ModulesNest == Spec => []ModulesNested
  <1>1. ASSUME IInv
        PROVE  ModulesNested
    <2>1. ASSUME NEW m \in Module, m_modules[m] # "absent", NEW d \in obtained[m]
          PROVE  d \in Loaded /\ (m_modules[m] = "finalized" => m_modules[d] = "finalized")
      <3>1. d \in Loaded /\ (m \in Loaded => loadOrder[d] < loadOrder[m])
        BY <1>1, <2>1 DEF IInv, ModulesInv, ObtainedInv
      <3>2. m_modules[m] = "finalized" => m \in Loaded
        BY DEF Loaded
      <3>. QED BY <1>1, <3>1, <3>2 DEF IInv, ModulesInv, FinalizedInv
    <2>. QED BY <2>1 DEF ModulesNested
  <1>. QED BY <1>1, Inductive, PTL

\* Each position of a queue that holds a buffer is its only place.
LEMMA Owned ==
  ASSUME LogTypeOK, OwnedInv
  PROVE  BuffersOwned
  <1>1. SUFFICES ASSUME NEW b \in Allocated
                 PROVE  \E p \in Places(b) : Places(b) = {p}
    BY DEF BuffersOwned, Allocated
  <1>2. NoBuffer # b
    <2>1. chunks \in 0..MaxChunks /\ MaxChunks \in Nat
      BY BufferAssumption DEF LogTypeOK
    <2>2. Allocated \subseteq Buffer
      BY <2>1 DEF Allocated, Buffer
    <2>. QED BY <2>2, BufferAssumption
  <1> DEFINE free == {p \in {<<"free">>} : b \in buffers}
             inBatch == {<<"batch", i>> : i \in {j \in DOMAIN batch : batch[j] = b}}
             written == {<<"writing", t>> : t \in {u \in Thread : writing[u] = b}}
             queuedBy(t) == {<<"queued", t, i>> : i \in {j \in DOMAIN logs[t] : logs[t][j] = b}}
  <1>3. Places(b) = free \cup inBatch \cup written \cup UNION {queuedBy(t) : t \in Thread}
    BY DEF Places
  <1>4. b \notin buffers => free = {}
    OBVIOUS
  <1>5. b \notin ToSet(batch) => inBatch = {}
    BY DEF ToSet
  <1>6. b \notin Queued => UNION {queuedBy(t) : t \in Thread} = {}
    BY DEF Queued, ToSet
  <1>7. (\A t \in Thread : writing[t] # b) => written = {}
    OBVIOUS
  <1>8. /\ b \in buffers \cup Queued \cup ToSet(batch) \cup ({writing[t] : t \in Thread} \ {NoBuffer})
        /\ \A t \in Thread : writing[t] \notin buffers \cup Queued \cup ToSet(batch)
        /\ buffers \cap Queued = {} /\ buffers \cap ToSet(batch) = {} /\ Queued \cap ToSet(batch) = {}
        /\ \A t, u \in Thread : writing[t] = writing[u] /\ writing[t] # NoBuffer => t = u
        /\ \A t, u \in Thread : \A i \in DOMAIN logs[t], j \in DOMAIN logs[u] :
             logs[t][i] = logs[u][j] => t = u /\ i = j
        /\ \A i, j \in DOMAIN batch : batch[i] = batch[j] => i = j
    BY DEF OwnedInv
  <1>9. CASE b \in buffers
    <2>1. free = {<<"free">>}
      BY <1>9
    <2>2. inBatch = {} /\ written = {} /\ UNION {queuedBy(t) : t \in Thread} = {}
      BY <1>5, <1>6, <1>7, <1>8, <1>9
    <2>. QED BY <1>3, <2>1, <2>2
  <1>10. CASE b \in ToSet(batch)
    <2>1. PICK i \in DOMAIN batch : batch[i] = b
      BY <1>10 DEF ToSet
    <2>2. {j \in DOMAIN batch : batch[j] = b} = {i}
      BY <1>8, <2>1
    <2>3. inBatch = {<<"batch", i>>}
      BY <2>2
    <2>4. free = {} /\ written = {} /\ UNION {queuedBy(t) : t \in Thread} = {}
      BY <1>4, <1>6, <1>7, <1>8, <1>10
    <2>. QED BY <1>3, <2>3, <2>4
  <1>11. CASE b \in Queued
    <2>1. PICK t \in Thread : b \in ToSet(logs[t])
      BY <1>11 DEF Queued
    <2>2. PICK i \in DOMAIN logs[t] : logs[t][i] = b
      BY <2>1 DEF ToSet
    <2>3. {j \in DOMAIN logs[t] : logs[t][j] = b} = {i}
      BY <1>8, <2>2
    <2>4. \A u \in Thread : u # t => {j \in DOMAIN logs[u] : logs[u][j] = b} = {}
      BY <1>8, <2>2
    <2>5. queuedBy(t) = {<<"queued", t, i>>}
      BY <2>3
    <2>6. \A u \in Thread : u # t => queuedBy(u) = {}
      BY <2>4
    <2>7. UNION {queuedBy(u) : u \in Thread} = {<<"queued", t, i>>}
      <3>. HIDE DEF queuedBy
      <3>. QED BY <2>5, <2>6
    <2>8. free = {} /\ written = {} /\ inBatch = {}
      BY <1>4, <1>5, <1>7, <1>8, <1>11
    <2>. QED BY <1>3, <2>7, <2>8
  <1>12. CASE b \in {writing[t] : t \in Thread}
    <2>1. PICK t \in Thread : writing[t] = b
      BY <1>12
    <2>2. {u \in Thread : writing[u] = b} = {t}
      BY <1>2, <1>8, <2>1
    <2>3. written = {<<"writing", t>>}
      BY <2>2
    <2>4. b \notin buffers \cup Queued \cup ToSet(batch)
      BY <1>8, <2>1
    <2>5. free = {} /\ inBatch = {} /\ UNION {queuedBy(u) : u \in Thread} = {}
      BY <1>4, <1>5, <1>6, <2>4
    <2>. QED BY <1>3, <2>3, <2>5
  <1>. QED BY <1>8, <1>9, <1>10, <1>11, <1>12

\* The messages sunk are the first of Out.
LEMMA InOrder ==
  ASSUME LogTypeOK, NumberInv
  PROVE  SunkInOrder
  <1>1. /\ sunk \in Seq(Message) /\ Len(sunk) \in Nat /\ DOMAIN sunk = 1..Len(sunk)
        /\ next \in 0..Len(batch) /\ Len(batch) \in Nat
    BY DEF LogTypeOK
  <1>2. ASSUME NEW i \in DOMAIN sunk
        PROVE  i \in DOMAIN Out /\ Out[i] = sunk[i]
    <2>1. i \in 1..(Len(sunk) + Len(batch) - next) /\ i <= Len(sunk)
      BY <1>1
    <2>. QED BY <2>1 DEF Out
  <1>3. ASSUME NEW i \in DOMAIN sunk
        PROVE  sunk[i].number = Cardinality({j \in 1..i : sunk[j].thread = sunk[i].thread})
    <2>1. sunk[i].number = CountOf(Out, sunk[i].thread, i)
      BY <1>2 DEF NumberInv
    <2>2. \A j \in 1..i : j \in DOMAIN sunk
      BY <1>1
    <2>3. {j \in 1..i : Out[j].thread = sunk[i].thread} = {j \in 1..i : sunk[j].thread = sunk[i].thread}
      BY <1>2, <2>2
    <2>. QED BY <2>1, <2>3 DEF CountOf
  <1>. QED BY <1>3 DEF SunkInOrder

\* Every buffer has one owner, and the messages of a thread are sunk once each and
\* in order, whichever threads log, allocate chunks and run the flush job
\* (log_module.cpp:94-111, 145-182).
THEOREM MessagesStayIntact == Spec => []MessagesIntact
  <1>1. ASSUME IInv
        PROVE  MessagesIntact
    BY <1>1, Types, Owned, InOrder DEF IInv, LogInv, MessagesIntact
  <1>. QED BY <1>1, Inductive, PTL

\* Once log_module::shutdown has freed the queues (log_module.cpp:130) the flush job
\* has ended, because the shutdown waited for it, and whoever runs a job or is in
\* sink_it is a worker with a load: the imports have ended before the modules shut
\* down (asset_registry.cpp:451-462), nothing waits for the loads.
THEOREM QueuesOutlive == Spec => []QueuesOutliveUsers
  <1>1. ASSUME IInv, g_asyncQueues = "freed"
        PROVE  /\ flush = "ended"
               /\ \A t \in Thread :
                    running[t] # NoJob \/ writing[t] # NoBuffer => t # Main /\ running[t] \in LoadJobs
    <2>1. LifeTypes /\ JobInv
      BY <1>1, Types DEF IInv
    <2>2. FlushJob \in ended /\ flush = "ended" /\ Log \notin Loaded /\ phase \in ShuttingDown \ {"flushing"}
      BY <1>1, <2>1 DEF JobInv, FreedInv
    <2>3. waitFor = NoJob
      BY <2>1, <2>2 DEF JobInv, WaitInv, ShuttingDown
    <2>4. running[Main] = NoJob
      BY <2>1, <2>3 DEF JobInv, WaitInv
    <2>5. ASSUME NEW t \in Thread, running[t] # NoJob \/ writing[t] # NoBuffer
          PROVE  t # Main /\ running[t] \in LoadJobs
      <3>1. running[t] # NoJob
        BY <2>1, <2>2, <2>5 DEF JobInv, WritingInv
      <3>2. running[t] # FlushJob
        BY <2>1, <2>2 DEF JobInv, JobsInv
      <3>. QED BY <2>1, <2>2, <2>4, <3>1, <3>2 DEF JobInv, WaitInv
    <2>. QED BY <2>2, <2>5
  <1>2. IInv => QueuesOutliveUsers
    BY <1>1 DEF QueuesOutliveUsers
  <1>. QED BY <1>2, Inductive, PTL
=============================================================================
