--------------------------- MODULE StreamsProofs ---------------------------
(***************************************************************************)
(* Safety of the machines of MCStreams for every number of browsers,       *)
(* events, restarts, agents, workers, requests, rounds and attempts.       *)
(***************************************************************************)
EXTENDS MCStreams, FiniteSetTheorems, TLAPS

(***************************************************************************)
(* The browsers that follow a run.  What a browser has received are the    *)
(* first events of the log, and a stream that is open continues where they *)
(* end; so a stream whose cursor has reached the last event has sent all.  *)
(***************************************************************************)
UpTo(n) == [i \in 1 .. n |-> i - 1]

Received(b) ==
  /\ cursor[b] \in Int /\ batch[b] \in Nat /\ batch[b] <= count
  /\ \E n \in 0 .. count :
       /\ got[b] = UpTo(n)
       /\ stream[b] # "off" => cursor[b] = n - 1

EventsInv ==
  /\ count \in Nat /\ count > 0
  /\ DOMAIN stream = Browsers /\ DOMAIN cursor = Browsers
  /\ DOMAIN batch = Browsers /\ DOMAIN got = Browsers
  /\ \A b \in Browsers : Received(b)

LEMMA UpToFacts ==
  ASSUME NEW n \in Nat
  PROVE  /\ Len(UpTo(n)) = n /\ UpTo(n) \in Seq(Int)
         /\ Append(UpTo(n), n) = UpTo(n + 1)
         /\ \A m \in 0 .. n : SubSeq(UpTo(n), 1, m) = UpTo(m)
         /\ UpTo(n) = <<>> <=> n = 0
         /\ n # 0 => UpTo(n)[n] = n - 1
<1>1. Len(UpTo(n)) = n /\ UpTo(n) \in Seq(Int)
  BY DEF UpTo
<1>2. \A i \in 1 .. n : UpTo(n)[i] = i - 1
  BY DEF UpTo
<1>3. Append(UpTo(n), n) = UpTo(n + 1)
  BY DEF UpTo
<1>4. \A m \in 0 .. n : SubSeq(UpTo(n), 1, m) = UpTo(m)
  BY DEF UpTo
<1>5. UpTo(n) = <<>> <=> n = 0
  BY <1>1
<1> QED
  BY <1>1, <1>2, <1>3, <1>4, <1>5

\* What a step of one browser leaves as it was for the others.
LEMMA OneBrowser ==
  ASSUME EventsInv, NEW b \in Browsers, count' = count,
         DOMAIN stream' = Browsers, DOMAIN cursor' = Browsers,
         DOMAIN batch' = Browsers, DOMAIN got' = Browsers,
         \A c \in Browsers : c # b =>
           stream'[c] = stream[c] /\ cursor'[c] = cursor[c] /\ batch'[c] = batch[c] /\ got'[c] = got[c],
         Received(b)'
  PROVE  EventsInv'
  BY DEF EventsInv, Received

LEMMA FollowsPreserves == ASSUME EventsInv, NEW b \in Browsers, E!Follows(b) PROVE EventsInv'
<1>1. /\ count \in Nat /\ cursor[b] \in Int /\ batch[b] \in Nat /\ batch[b] <= count
      /\ DOMAIN stream = Browsers /\ DOMAIN cursor = Browsers
      /\ DOMAIN batch = Browsers /\ DOMAIN got = Browsers
  BY DEF EventsInv, Received
<1>2. PICK n \in Nat : n <= count /\ got[b] = UpTo(n) /\ (stream[b] # "off" => cursor[b] = n - 1)
  BY <1>1 DEF EventsInv, Received
<1>3. CASE E!Opens(b)
  <2>1. /\ stream' = [stream EXCEPT ![b] = "read"] /\ cursor' = [cursor EXCEPT ![b] = E!Last(b)]
        /\ UNCHANGED <<count, batch, got>>
    BY <1>3 DEF E!Opens
  <2>2. E!Last(b) = n - 1
    <3>1. Len(UpTo(n)) = n /\ (UpTo(n) = <<>> <=> n = 0) /\ (n # 0 => UpTo(n)[n] = n - 1)
      BY <1>2, UpToFacts, Zenon
    <3> QED
      BY <1>2, <3>1 DEF E!Last
  <2>3. cursor'[b] = n - 1
    BY <1>1, <2>1, <2>2
  <2>4. Received(b)'
    BY <1>1, <1>2, <2>1, <2>3 DEF Received
  <2> QED
    BY <1>1, <2>1, <2>4, OneBrowser
<1>4. CASE E!Reads(b)
  <2>1. /\ stream[b] # "off" /\ stream' = [stream EXCEPT ![b] = "send"]
        /\ batch' = [batch EXCEPT ![b] = count] /\ UNCHANGED <<count, cursor, got>>
    BY <1>4 DEF E!Reads
  <2>2. Received(b)'
    BY <1>1, <1>2, <2>1 DEF Received
  <2> QED
    BY <1>1, <2>1, <2>2, OneBrowser
<1>5. CASE E!Sends(b)
  <2>1. stream[b] = "send" /\ UNCHANGED <<count, batch>> /\ cursor[b] = n - 1
    BY <1>2, <1>5 DEF E!Sends
  <2>2. CASE cursor[b] + 1 < batch[b]
    <3>1. /\ cursor' = [cursor EXCEPT ![b] = @ + 1]
          /\ got' = [got EXCEPT ![b] = Append(@, cursor'[b])] /\ UNCHANGED stream
      BY <1>5, <2>2 DEF E!Sends
    <3>2. cursor'[b] = n
      BY <1>1, <2>1, <3>1
    <3>3. got'[b] = UpTo(n + 1)
      <4>1. Append(UpTo(n), n) = UpTo(n + 1)
        BY <1>2, UpToFacts, Zenon
      <4>2. got'[b] = Append(got[b], n)
        BY <1>1, <3>1, <3>2
      <4> QED
        BY <1>2, <4>1, <4>2
    <3>4. n + 1 \in 0 .. count
      BY <1>1, <2>1, <2>2
    <3>5. Received(b)'
      BY <1>1, <2>1, <3>2, <3>3, <3>4 DEF Received
    <3> QED
      BY <1>1, <2>1, <3>1, <3>5, OneBrowser
  <2>3. CASE ~(cursor[b] + 1 < batch[b])
    <3>1. stream' = [stream EXCEPT ![b] = "check"] /\ UNCHANGED <<cursor, got>>
      BY <1>5, <2>3 DEF E!Sends
    <3>2. Received(b)'
      BY <1>1, <1>2, <2>1, <3>1 DEF Received
    <3> QED
      BY <1>1, <2>1, <3>1, <3>2, OneBrowser
  <2> QED
    BY <2>2, <2>3
<1>6. CASE E!Checks(b) \/ E!Wakes(b)
  <2>1. /\ stream[b] # "off" /\ DOMAIN stream' = Browsers
        /\ \A c \in Browsers : c # b => stream'[c] = stream[c]
        /\ UNCHANGED <<count, cursor, batch, got>>
    BY <1>1, <1>6 DEF E!Checks, E!Wakes
  <2>2. Received(b)'
    BY <1>1, <1>2, <2>1 DEF Received
  <2> QED
    BY <1>1, <2>1, <2>2, OneBrowser
<1> QED
  BY <1>3, <1>4, <1>5, <1>6 DEF E!Follows

LEMMA EventsPreserved == EventsInv /\ [E!Next]_(E!vars) => EventsInv'
<1> SUFFICES ASSUME EventsInv, [E!Next]_(E!vars) PROVE EventsInv'
  OBVIOUS
<1>1. ASSUME NEW rest \in BOOLEAN, E!AppendEvent(rest) PROVE EventsInv'
  BY <1>1 DEF E!AppendEvent, E!reader, EventsInv, Received
<1>2. CASE E!Restart
  <2>1. /\ stream' = [b \in Browsers |-> IF stream[b] = "ended" THEN "ended" ELSE "off"]
        /\ count' = (IF resting THEN count ELSE count + 1) /\ UNCHANGED <<cursor, batch, got>>
    BY <1>2 DEF E!Restart
  <2>2. count' \in Nat /\ count' >= count
    BY <2>1 DEF EventsInv
  <2>3. \A b \in Browsers : stream'[b] # "off" => stream[b] # "off"
    BY <2>1
  <2> QED
    BY <2>1, <2>2, <2>3 DEF EventsInv, Received
<1>3. ASSUME NEW b \in Browsers, NEW n \in Len(got[b]) - 1 .. Len(got[b]), n >= 0, E!Drops(b, n)
      PROVE  EventsInv'
  <2>1. /\ stream' = [stream EXCEPT ![b] = "off"] /\ got' = [got EXCEPT ![b] = SubSeq(@, 1, n)]
        /\ UNCHANGED <<count, cursor, batch>>
    BY <1>3 DEF E!Drops
  <2>2. PICK m \in Nat : m <= count /\ got[b] = UpTo(m)
    BY DEF EventsInv, Received
  <2>3. Len(UpTo(m)) = m /\ \A k \in 0 .. m : SubSeq(UpTo(m), 1, k) = UpTo(k)
    BY <2>2, UpToFacts, Zenon
  <2>4. n \in 0 .. m /\ n \in 0 .. count
    BY <1>3, <2>2, <2>3 DEF EventsInv
  <2>5. got'[b] = SubSeq(got[b], 1, n) /\ stream'[b] = "off"
    BY <2>1 DEF EventsInv
  <2>6. got'[b] = UpTo(n)
    BY <2>2, <2>3, <2>4, <2>5
  <2>7. Received(b)'
    BY <2>1, <2>4, <2>5, <2>6 DEF EventsInv, Received
  <2> QED
    BY <2>1, <2>7, OneBrowser DEF EventsInv
<1>4. CASE UNCHANGED E!vars
  BY <1>4 DEF E!vars, E!reader, EventsInv, Received
<1> QED
  BY <1>1, <1>2, <1>3, <1>4, FollowsPreserves DEF E!Next

(***************************************************************************)
(* EndsWithEverything: whatever breaks, restarts or is appended meanwhile, *)
(* a stream that ends has given its browser the whole log, once and in     *)
(* order.                                                                  *)
(***************************************************************************)
THEOREM EndsWhole == E!Spec => EndsWithEverything
<1>1. E!Init => EventsInv
  <2> SUFFICES ASSUME E!Init PROVE EventsInv
    OBVIOUS
  <2>1. UpTo(0) = <<>>
    BY UpToFacts
  <2>2. 0 \in 0 .. 1
    OBVIOUS
  <2> QED
    BY <2>1, <2>2 DEF E!Init, EventsInv, Received
<1>2. EventsInv /\ [E!Next]_(E!vars) =>
        [\A b \in Browsers : stream[b] # "ended" /\ stream'[b] = "ended" =>
           got[b] = [i \in 1 .. count |-> i - 1]]_(E!vars)
  <2> SUFFICES ASSUME EventsInv, [E!Next]_(E!vars), NEW b \in Browsers,
                      stream[b] # "ended", stream'[b] = "ended"
               PROVE  got[b] = [i \in 1 .. count |-> i - 1]
    OBVIOUS
  <2>1. E!Checks(b) /\ E!AllSent(b)
    <3>1. DOMAIN stream = Browsers
      BY DEF EventsInv
    <3>2. CASE \E rest \in BOOLEAN : E!AppendEvent(rest)
      BY <3>2 DEF E!AppendEvent, E!reader
    <3>3. CASE E!Restart
      BY <3>3 DEF E!Restart
    <3>4. ASSUME NEW c \in Browsers, E!Follows(c) PROVE E!Checks(b) /\ E!AllSent(b)
      BY <3>1, <3>4 DEF E!Follows, E!Opens, E!Reads, E!Sends, E!Checks, E!Wakes
    <3>5. ASSUME NEW c \in Browsers, NEW n, E!Drops(c, n) PROVE FALSE
      BY <3>1, <3>5 DEF E!Drops
    <3>6. CASE UNCHANGED E!vars
      BY <3>6 DEF E!vars, E!reader
    <3> QED
      BY <3>2, <3>3, <3>4, <3>5, <3>6 DEF E!Next
  <2>2. PICK n \in 0 .. count : got[b] = UpTo(n) /\ (stream[b] # "off" => cursor[b] = n - 1)
    BY DEF EventsInv, Received
  <2>3. stream[b] # "off" /\ count - 1 <= cursor[b]
    BY <2>1 DEF E!Checks, E!AllSent
  <2>4. n = count
    BY <2>2, <2>3 DEF EventsInv
  <2> QED
    BY <2>2, <2>4 DEF UpTo
<1> QED
  BY <1>1, <1>2, EventsPreserved, PTL DEF E!Spec, EndsWithEverything, E!EndsWithEverything

(***************************************************************************)
(* A layer of agents.  The gate of an agent is closed with the verdict on  *)
(* it, so that only the event its worker has in hand by then can still     *)
(* come; and a worker that has returned has none in hand.                  *)
(***************************************************************************)
LayerType ==
  /\ turn \in 1 .. L!Size + 1
  /\ DOMAIN future = Agents /\ DOMAIN hand = Agents /\ DOMAIN node = Agents
  /\ output \in [Agents -> {"none", "whole", "failed"}] /\ late \in [Agents -> Nat]

JudgedInv(a) ==
  /\ output[a] = "none" => late[a] = 0
  /\ output[a] # "none" => a \notin gates /\ (late[a] = 0 \/ (late[a] = 1 /\ hand[a] = "none"))
  /\ output[a] = "whole" => future[a] = "done" /\ late[a] = 0
  /\ future[a] = "done" => hand[a] = "none"
  /\ lead = "submit" => output[a] = "none"
  /\ lead \in {"post", "over"} => output[a] # "none"

Told(i) == late[Order[i]] = 0 => node[Order[i]] = L!Node(output[Order[i]])

LayerInv ==
  /\ LayerType
  /\ \A a \in Agents : JudgedInv(a)
  /\ lead = "timeout" => \A i \in 1 .. turn - 1 : output[Order[i]] # "none"
  /\ lead = "post" => \A i \in 1 .. turn - 1 : Told(i)
  /\ lead = "over" => \A i \in 1 .. L!Size : Told(i)

LEMMA SizeOfLayer ==
  /\ L!Size \in Nat /\ Order \in [1 .. L!Size -> Agents]
  /\ \A a \in Agents : \E i \in 1 .. L!Size : Order[i] = a
<1>1. L!Size = Cardinality(Agents)
  BY DEF L!Size, L!Cardinality, Cardinality
<1> QED
  BY <1>1, LayerAssumption, FS_CardinalityType

\* A verdict.
LEMMA JudgePreserves ==
  ASSUME LayerInv, NEW a \in Agents, NEW v \in {"whole", "failed"}, L!Judge(a, v),
         lead \in {"collect", "timeout"}, lead' = lead, output[a] = "none",
         v = "whole" => future[a] = "done", DOMAIN future' = Agents,
         \A c \in Agents : future'[c] = future[c] \/ (future[c] = "queued" /\ future'[c] = "dropped"),
         UNCHANGED <<hand, late>>
  PROVE  /\ \A c \in Agents : JudgedInv(c)'
         /\ DOMAIN node' = Agents /\ output' \in [Agents -> {"none", "whole", "failed"}]
         /\ output'[a] # "none" /\ \A c \in Agents : output[c] # "none" => output'[c] # "none"
<1>1. output' = [output EXCEPT ![a] = v] /\ gates' = gates \ {a} /\ node' = L!Replayed(a, v)
  BY DEF L!Judge
<1>2. output'[a] = v /\ \A c \in Agents : c # a => output'[c] = output[c]
  BY <1>1 DEF LayerInv, LayerType
<1>3. DOMAIN node' = Agents
  BY <1>1 DEF L!Replayed, LayerInv, LayerType
<1>4. ASSUME NEW c \in Agents PROVE JudgedInv(c)'
  <2>1. CASE c = a
    BY <1>1, <1>2, <2>1 DEF LayerInv, JudgedInv
  <2>2. CASE c # a
    BY <1>1, <1>2, <2>2 DEF LayerInv, JudgedInv
  <2> QED
    BY <2>1, <2>2
<1> QED
  BY <1>1, <1>2, <1>3, <1>4 DEF LayerInv, LayerType

LEMMA LeadingPreserves == ASSUME LayerInv, L!Leading PROVE LayerInv'
<1>0. /\ L!Size \in Nat /\ Order \in [1 .. L!Size -> Agents] /\ turn \in 1 .. L!Size + 1
      /\ \A a \in Agents : \E i \in 1 .. L!Size : Order[i] = a
  BY SizeOfLayer DEF LayerInv, LayerType
<1>1. CASE L!Submit
  <2>1. /\ lead = "submit" /\ turn <= L!Size /\ turn' = turn + 1
        /\ UNCHANGED <<lead, hand, output, late>>
    BY <1>1 DEF L!Submit, L!worker
  <2>2. PICK a : /\ node' = L!Replayed(a, "running") /\ gates' = gates \cup {a}
                 /\ future' = [future EXCEPT ![a] = "queued"]
    BY <1>1 DEF L!Submit
  <2>3. LayerType'
    BY <1>0, <2>1, <2>2 DEF LayerInv, LayerType, L!Replayed
  <2>4. ASSUME NEW c \in Agents PROVE JudgedInv(c)'
    BY <2>1, <2>2 DEF LayerInv, LayerType, JudgedInv
  <2> QED
    BY <2>1, <2>3, <2>4 DEF LayerInv
<1>2. CASE L!Submitted \/ L!TimesOut
  <2>1. /\ (lead = "submit" /\ lead' = "collect" /\ UNCHANGED turn)
             \/ (lead = "collect" /\ lead' = "timeout" /\ turn' = 1)
        /\ UNCHANGED <<gates, future, hand, output, node, late>>
    BY <1>2 DEF L!Submitted, L!TimesOut, L!worker, L!file
  <2>2. LayerType' /\ \A c \in Agents : JudgedInv(c)'
    BY <1>0, <2>1 DEF LayerInv, LayerType, JudgedInv
  <2> QED
    BY <2>1, <2>2 DEF LayerInv
<1>3. ASSUME NEW a \in Agents, L!Collect(a) PROVE LayerInv'
  <2>1. /\ lead = "collect" /\ output[a] = "none" /\ L!Judge(a, L!Result(a))
        /\ UNCHANGED <<lead, turn, future, hand, late>>
    BY <1>3 DEF L!Collect, L!worker
  <2>2. L!Result(a) \in {"whole", "failed"} /\ (L!Result(a) = "whole" => future[a] = "done")
    BY DEF L!Result
  <2>3. DOMAIN future' = Agents
    BY <2>1 DEF LayerInv, LayerType
  <2>4. /\ \A c \in Agents : JudgedInv(c)'
        /\ DOMAIN node' = Agents /\ output' \in [Agents -> {"none", "whole", "failed"}]
    BY <2>1, <2>2, <2>3, JudgePreserves
  <2> QED
    BY <2>1, <2>3, <2>4 DEF LayerInv, LayerType
<1>4. CASE L!AfterTimeout
  <2>1. lead = "timeout" /\ turn <= L!Size /\ turn' = turn + 1 /\ UNCHANGED <<lead, hand, late>>
    BY <1>4 DEF L!AfterTimeout, L!worker
  <2>2. PICK a \in Agents : a = Order[turn]
    BY <1>0, <2>1
  <2>3. \/ output[a] # "none" /\ UNCHANGED <<output, gates, node, future>>
        \/ output[a] = "none" /\ L!Judge(a, L!Result(a)) /\ UNCHANGED future
        \/ output[a] = "none" /\ L!GiveUp(a)
    BY <1>4, <2>2 DEF L!AfterTimeout
  <2>4. /\ \A c \in Agents : JudgedInv(c)'
        /\ DOMAIN node' = Agents /\ DOMAIN future' = Agents
        /\ output' \in [Agents -> {"none", "whole", "failed"}]
        /\ output'[a] # "none" /\ \A c \in Agents : output[c] # "none" => output'[c] # "none"
    <3>1. CASE output[a] # "none" /\ UNCHANGED <<output, gates, node, future>>
      BY <2>1, <3>1 DEF LayerInv, LayerType, JudgedInv
    <3>2. CASE output[a] = "none" /\ L!Judge(a, L!Result(a)) /\ UNCHANGED future
      <4>1. L!Result(a) \in {"whole", "failed"} /\ (L!Result(a) = "whole" => future[a] = "done")
        BY DEF L!Result
      <4>2. DOMAIN future' = Agents
        BY <3>2 DEF LayerInv, LayerType
      <4> QED
        BY <2>1, <3>2, <4>1, <4>2, JudgePreserves
    <3>3. CASE output[a] = "none" /\ L!GiveUp(a)
      <4>1. /\ L!Judge(a, "failed")
            /\ future' = IF future[a] = "queued" THEN [future EXCEPT ![a] = "dropped"] ELSE future
        BY <3>3 DEF L!GiveUp
      <4>2. /\ DOMAIN future' = Agents
            /\ \A c \in Agents : future'[c] = future[c] \/ (future[c] = "queued" /\ future'[c] = "dropped")
        BY <4>1 DEF LayerInv, LayerType
      <4> QED
        BY <2>1, <3>3, <4>1, <4>2, JudgePreserves
    <3> QED
      BY <2>3, <3>1, <3>2, <3>3
  <2>5. \A i \in 1 .. turn' - 1 : output'[Order[i]] # "none"
    <3> SUFFICES ASSUME NEW i \in 1 .. turn' - 1 PROVE output'[Order[i]] # "none"
      OBVIOUS
    <3>1. i \in 1 .. L!Size /\ Order[i] \in Agents /\ (i = turn \/ i \in 1 .. turn - 1)
      BY <1>0, <2>1
    <3> QED
      BY <2>1, <2>2, <2>4, <3>1 DEF LayerInv
  <2>6. LayerType'
    BY <1>0, <2>1, <2>4 DEF LayerInv, LayerType
  <2> QED
    BY <2>1, <2>4, <2>5, <2>6 DEF LayerInv
<1>5. CASE L!Return
  <2>1. /\ \/ lead = "collect" /\ \A a \in Agents : output[a] # "none"
           \/ lead = "timeout" /\ turn > L!Size
        /\ lead' = "post" /\ turn' = 1 /\ L!Shutdown
        /\ UNCHANGED <<gates, hand, output, node, late>>
    BY <1>5 DEF L!Return, L!worker, L!file
  <2>2. ASSUME NEW a \in Agents PROVE output[a] # "none"
    <3>1. PICK i \in 1 .. L!Size : Order[i] = a
      BY <1>0
    <3> QED
      BY <1>0, <2>1, <3>1 DEF LayerInv
  <2>3. \A c \in Agents : future'[c] = IF future[c] = "queued" THEN "dropped" ELSE future[c]
    BY <2>1 DEF L!Shutdown
  <2>4. LayerType'
    BY <1>0, <2>1 DEF LayerInv, LayerType, L!Shutdown
  <2>5. ASSUME NEW c \in Agents PROVE JudgedInv(c)'
    BY <2>1, <2>2, <2>3 DEF LayerInv, JudgedInv
  <2> QED
    BY <2>1, <2>4, <2>5 DEF LayerInv
<1>6. CASE L!Post
  <2>1. lead = "post" /\ UNCHANGED <<gates, future, hand, output, late>>
    BY <1>6 DEF L!Post, L!worker
  <2>2. CASE turn > L!Size
    <3>1. lead' = "over" /\ UNCHANGED <<turn, node>>
      BY <1>6, <2>2 DEF L!Post
    <3>2. LayerType' /\ \A c \in Agents : JudgedInv(c)'
      BY <1>0, <2>1, <3>1 DEF LayerInv, LayerType, JudgedInv
    <3>3. \A i \in 1 .. L!Size : Told(i)'
      BY <1>0, <2>1, <2>2, <3>1 DEF LayerInv, Told
    <3> QED
      BY <3>1, <3>2, <3>3 DEF LayerInv
  <2>3. CASE ~(turn > L!Size)
    <3>1. /\ node' = L!Replayed(Order[turn], output[Order[turn]]) /\ turn' = turn + 1 /\ lead' = lead
      BY <1>6, <2>3 DEF L!Post
    <3>2. PICK a \in Agents : a = Order[turn]
      BY <1>0, <2>3
    <3>3. output[a] # "delta"
      BY DEF LayerInv, LayerType
    <3>4. /\ DOMAIN node' = Agents /\ node'[a] = L!Node(output[a])
          /\ \A c \in Agents : c # a => node'[c] = node[c]
      BY <3>1, <3>2, <3>3 DEF L!Replayed, LayerInv, LayerType
    <3>5. LayerType' /\ \A c \in Agents : JudgedInv(c)'
      BY <1>0, <2>1, <2>3, <3>1, <3>4 DEF LayerInv, LayerType, JudgedInv
    <3>6. ASSUME NEW i \in 1 .. turn' - 1 PROVE Told(i)'
      <4>1. i \in 1 .. L!Size /\ Order[i] \in Agents /\ (i = turn \/ i \in 1 .. turn - 1)
        BY <1>0, <2>3, <3>1
      <4>2. CASE Order[i] = a
        BY <2>1, <3>4, <4>2 DEF Told
      <4>3. CASE Order[i] # a
        BY <2>1, <3>2, <3>4, <4>1, <4>3 DEF LayerInv, Told
      <4> QED
        BY <4>2, <4>3
    <3> QED
      BY <2>1, <3>1, <3>5, <3>6 DEF LayerInv
  <2> QED
    BY <2>2, <2>3
<1>7. CASE L!Cancels
  <2>1. /\ lead' = "cancelled" /\ gates' \subseteq gates /\ L!Shutdown
        /\ UNCHANGED <<turn, hand, output, node, late>>
    BY <1>7 DEF L!Cancels, L!worker, L!file
  <2>2. \A c \in Agents : future'[c] = IF future[c] = "queued" THEN "dropped" ELSE future[c]
    BY <2>1 DEF L!Shutdown
  <2>3. LayerType'
    BY <1>0, <2>1 DEF LayerInv, LayerType, L!Shutdown
  <2>4. ASSUME NEW c \in Agents PROVE JudgedInv(c)'
    BY <2>1, <2>2 DEF LayerInv, JudgedInv
  <2> QED
    BY <2>1, <2>3, <2>4 DEF LayerInv
<1> QED
  BY <1>1, <1>2, <1>3, <1>4, <1>5, <1>6, <1>7 DEF L!Leading

LEMMA WorkerPreserves == ASSUME LayerInv, NEW a \in Agents, L!Working(a) PROVE LayerInv'
<1>0. /\ DOMAIN future = Agents /\ DOMAIN hand = Agents /\ DOMAIN node = Agents
      /\ output \in [Agents -> {"none", "whole", "failed"}] /\ late \in [Agents -> Nat]
      /\ Order \in [1 .. L!Size -> Agents] /\ turn \in 1 .. L!Size + 1 /\ L!Size \in Nat
  BY SizeOfLayer DEF LayerInv, LayerType
<1>1. ASSUME UNCHANGED <<lead, turn, gates, output, node, late>>,
             DOMAIN future' = Agents, DOMAIN hand' = Agents,
             \A c \in Agents : c # a => future'[c] = future[c] /\ hand'[c] = hand[c],
             future[a] \in {"queued", "running"},
             future'[a] = "done" => hand'[a] = "none",
             hand'[a] = hand[a] \/ a \in gates \/ hand'[a] = "none"
      PROVE  LayerInv'
  <2>1. LayerType'
    BY <1>1 DEF LayerInv, LayerType
  <2>2. ASSUME NEW c \in Agents PROVE JudgedInv(c)'
    <3>1. CASE c = a
      BY <1>1, <3>1 DEF LayerInv, JudgedInv
    <3>2. CASE c # a
      BY <1>1, <3>2 DEF LayerInv, JudgedInv
    <3> QED
      BY <3>1, <3>2
  <2> QED
    BY <1>1, <2>1, <2>2 DEF LayerInv, Told
<1>2. CASE L!Begin(a)
  <2>1. /\ future[a] = "queued" /\ future' = [future EXCEPT ![a] = "running"]
        /\ UNCHANGED <<lead, turn, gates, output, node, late, hand>>
    BY <1>2 DEF L!Begin, L!file
  <2> QED
    BY <1>0, <1>1, <2>1
<1>3. CASE L!Says(a) \/ L!Retries(a) \/ L!Announces(a)
  <2>1. /\ future[a] = "running" /\ UNCHANGED <<lead, turn, gates, output, node, late, future>>
        /\ \E e : L!Pass(a, e)
    BY <1>3 DEF L!Says, L!Retries, L!Announces, L!Free, L!file
  <2>2. /\ DOMAIN hand' = Agents /\ \A c \in Agents : c # a => hand'[c] = hand[c]
        /\ hand'[a] = hand[a] \/ a \in gates
    BY <1>0, <2>1 DEF L!Pass
  <2> QED
    BY <1>0, <1>1, <2>1, <2>2
<1>4. CASE L!Emits(a)
  <2>1. /\ future[a] = "running" /\ hand[a] # "none" /\ hand' = [hand EXCEPT ![a] = "none"]
        /\ UNCHANGED <<lead, turn, gates, output>>
    BY <1>4 DEF L!Emits
  <2>2. CASE L!Cancelled
    <3>1. UNCHANGED <<node, late>> /\ future' = [future EXCEPT ![a] = "failed"]
      BY <1>4, <2>2 DEF L!Emits, L!file
    <3> QED
      BY <1>0, <1>1, <2>1, <3>1
  <2>3. CASE ~L!Cancelled
    <3>1. /\ node' = L!Replayed(a, hand[a]) /\ UNCHANGED future
          /\ late' = IF output[a] = "none" THEN late ELSE [late EXCEPT ![a] = @ + 1]
      BY <1>4, <2>3 DEF L!Emits
    <3>2. /\ DOMAIN node' = Agents /\ late' \in [Agents -> Nat]
          /\ \A c \in Agents : c # a => node'[c] = node[c] /\ late'[c] = late[c] /\ hand'[c] = hand[c]
          /\ output[a] = "none" => late'[a] = 0
          /\ output[a] # "none" => late'[a] = 1
      BY <1>0, <2>1, <3>1 DEF L!Replayed, LayerInv, JudgedInv
    <3>3. LayerType'
      BY <1>0, <2>1, <3>1, <3>2 DEF LayerInv, LayerType
    <3>4. ASSUME NEW c \in Agents PROVE JudgedInv(c)'
      <4>1. CASE c = a
        <5>1. hand'[a] = "none"
          BY <1>0, <2>1
        <5> QED
          BY <2>1, <3>1, <3>2, <4>1, <5>1 DEF LayerInv, JudgedInv
      <4>2. CASE c # a
        BY <2>1, <3>1, <3>2, <4>2 DEF LayerInv, JudgedInv
      <4> QED
        BY <4>1, <4>2
    <3>5. ASSUME NEW i \in 1 .. L!Size, lead \in {"post", "over"}, Told(i) PROVE Told(i)'
      <4>1. Order[i] \in Agents
        BY <1>0
      <4>2. CASE Order[i] = a
        BY <3>2, <3>5, <4>2 DEF LayerInv, JudgedInv, Told
      <4>3. CASE Order[i] # a
        BY <2>1, <3>2, <3>5, <4>1, <4>3 DEF Told
      <4> QED
        BY <4>2, <4>3
    <3>6. \A i \in 1 .. turn - 1 : i \in 1 .. L!Size
      BY <1>0
    <3> QED
      BY <2>1, <3>3, <3>4, <3>5, <3>6 DEF LayerInv
  <2> QED
    BY <2>2, <2>3
<1>5. ASSUME NEW how \in L!Ended, L!Ends(a, how) PROVE LayerInv'
  <2>1. /\ future[a] = "running" /\ hand[a] = "none" /\ future' = [future EXCEPT ![a] = how]
        /\ UNCHANGED <<lead, turn, gates, hand, output, node, late>>
    BY <1>5 DEF L!Ends, L!Free, L!worker, L!file
  <2> QED
    BY <1>0, <1>1, <2>1
<1> QED
  BY <1>2, <1>3, <1>4, <1>5 DEF L!Working

LEMMA LayerPreserved == LayerInv /\ [L!Next]_(L!vars) => LayerInv'
<1> SUFFICES ASSUME LayerInv, [L!Next]_(L!vars) PROVE LayerInv'
  OBVIOUS
<1>1. CASE L!SetCancel \/ UNCHANGED L!vars
  <2>1. UNCHANGED <<lead, turn, gates, future, hand, output, node, late>>
    BY <1>1 DEF L!SetCancel, L!vars, L!worker, L!file
  <2> QED
    BY <2>1 DEF LayerInv, LayerType, JudgedInv, Told
<1> QED
  BY <1>1, LeadingPreserves, WorkerPreserves DEF L!Next

(***************************************************************************)
(* VerdictIsFinal, for every number of agents, workers and deltas: an      *)
(* output that was taken is never reset, of a worker that was given up one *)
(* late event comes at most, and at the end the run file says of the other *)
(* agents what the next layer was told.                                    *)
(***************************************************************************)
THEOREM VerdictFinal == L!Spec => []VerdictIsFinal
<1>1. L!Init => LayerInv
  <2> SUFFICES ASSUME L!Init PROVE LayerInv
    OBVIOUS
  <2>1. LayerType
    BY SizeOfLayer DEF L!Init, LayerType
  <2> QED
    BY <2>1 DEF L!Init, LayerInv, JudgedInv
<1>2. LayerInv => VerdictIsFinal
  <2> SUFFICES ASSUME LayerInv, NEW a \in Agents
               PROVE  /\ output[a] = "whole" => future[a] = "done" /\ hand[a] = "none" /\ late[a] = 0
                      /\ late[a] <= 1
                      /\ lead = "over" /\ late[a] = 0 => node[a] = L!Node(output[a])
    BY DEF VerdictIsFinal, L!VerdictIsFinal
  <2>1. PICK i \in 1 .. L!Size : Order[i] = a
    BY SizeOfLayer
  <2>2. lead = "over" /\ late[a] = 0 => node[a] = L!Node(output[a])
    BY <2>1 DEF LayerInv, Told
  <2> QED
    BY <2>2 DEF LayerInv, LayerType, JudgedInv
<1> QED
  BY <1>1, <1>2, LayerPreserved, PTL DEF L!Spec

(***************************************************************************)
(* The answers.  Before a request is closing it has told of progress only, *)
(* and what it has told of the answer is as long as the answer that is     *)
(* being built; a request that is closing has told its verdict, or its     *)
(* client has left.                                                        *)
(***************************************************************************)
Event == [type : {"content", "note", "done", "error", "none"}, n : Nat]
Open(r) == pc[r] \notin {"closing", "end"}

ChatType ==
  /\ body \in [Requests -> Bodies] /\ DOMAIN pc = Requests
  /\ text \in [Requests -> Nat] /\ sent \in [Requests -> Seq(Event)]
  /\ client \in [Requests -> Clients] /\ DOMAIN cache = 1 .. 2

\* The browser has been told n chunks of the answer, perhaps after a part of
\* another one.
Heard(r, n) == ComesAfter(sent[r], Len(sent[r]) + 1, n) \/ (n = 0 /\ r \in Local)

SoFar(r) ==
  /\ r \in Streams => Heard(r, text[r]) /\ (pc[r] = "start" => text[r] = 0)
  /\ Kind(r) = "cascade" /\ pc[r] # "replay" => Heard(r, 0)
  /\ pc[r] = "replay" => Heard(r, text[r])

RequestInv(r) ==
  /\ pc[r] \in {"judge", "replay"} => Kind(r) = "cascade"
  /\ Open(r) => /\ \A i \in 1 .. Len(sent[r]) : sent[r][i].type \in {"content", "note"}
                /\ SoFar(r)
  /\ pc[r] = "closing" =>
       /\ \A i \in 1 .. Len(sent[r]) : sent[r][i] # Sentinel
       /\ client[r] = "left" \/
            (Len(sent[r]) > 0 /\ sent[r][Len(sent[r])].type \in Verdicts)
  /\ client[r] = "served" => pc[r] = "end"

\* OneVerdict and DoneTellsAll, of one request.
VerdictOf(r) ==
  \A i \in 1 .. Len(sent[r]) :
    /\ sent[r][i].type \in Verdicts => \A j \in i + 1 .. Len(sent[r]) : sent[r][j] = Sentinel
    /\ sent[r][i] = Sentinel /\ client[r] \in {"on", "served"} =>
         i > 1 /\ sent[r][i - 1].type \in Verdicts

Follows(told, event, i, local) ==
  LET n == IF event.type = "content" THEN event.n - 1 ELSE event.n IN
  event.type \in {"content", "done"} => ComesAfter(told, i, n) \/ (n = 0 /\ local)

WholeOf(r) ==
  r \in Browsed => \A i \in 1 .. Len(sent[r]) : Follows(sent[r], sent[r][i], i, r \in Local)

ChatInv ==
  /\ ChatType
  /\ \A r \in Requests : RequestInv(r) /\ VerdictOf(r) /\ WholeOf(r)

\* A step of one request.
Alone(r) ==
  /\ body' = body /\ DOMAIN pc' = Requests
  /\ text' \in [Requests -> Nat] /\ sent' \in [Requests -> Seq(Event)]
  /\ client' \in [Requests -> Clients]
  /\ DOMAIN cache' = 1 .. 2
  /\ \A q \in Requests : q # r =>
       pc'[q] = pc[q] /\ text'[q] = text[q] /\ sent'[q] = sent[q] /\ client'[q] = client[q]

LEMMA AlonePreserves ==
  ASSUME ChatInv, NEW r \in Requests, Alone(r),
         RequestInv(r)', VerdictOf(r)', WholeOf(r)'
  PROVE  ChatInv'
<1>1. ASSUME NEW q \in Requests, q # r PROVE RequestInv(q)' /\ VerdictOf(q)' /\ WholeOf(q)'
  <2>1. /\ pc'[q] = pc[q] /\ text'[q] = text[q] /\ sent'[q] = sent[q] /\ client'[q] = client[q]
        /\ RequestInv(q) /\ VerdictOf(q) /\ WholeOf(q)
    BY <1>1 DEF ChatInv, Alone
  <2>2. /\ Streams' = Streams /\ Browsed' = Browsed /\ Local' = Local /\ Kind(q)' = Kind(q)
    BY DEF Alone, Streams, Browsed, Local, Kind
  <2>3. VerdictOf(q)' /\ WholeOf(q)'
    BY <2>1, <2>2 DEF VerdictOf, WholeOf
  <2>4. \A n : Heard(q, n)' <=> Heard(q, n)
    BY <2>1, <2>2 DEF Heard
  <2>5. SoFar(q)' <=> SoFar(q)
    BY <2>1, <2>2, <2>4 DEF SoFar
  <2>6. RequestInv(q)'
    BY <2>1, <2>2, <2>5 DEF RequestInv, Open
  <2> QED
    BY <2>3, <2>6
<1>2. ChatType'
  BY DEF ChatInv, ChatType, Alone
<1> QED
  BY <1>1, <1>2 DEF ChatInv

LEMMA Events == 
  /\ Note \in Event /\ Failure \in Event /\ Sentinel \in Event
  /\ \A n \in Nat : Content(n) \in Event /\ Done(n) \in Event
  /\ Note.type = "note" /\ Failure.type = "error" /\ Sentinel.type = "none"
  /\ \A n : Content(n).type = "content" /\ Content(n).n = n /\ Done(n).type = "done" /\ Done(n).n = n
  BY DEF Note, Failure, Sentinel, Content, Done, Event

LEMMA Appended ==
  ASSUME NEW s \in Seq(Event), NEW e \in Event
  PROVE  /\ Append(s, e) \in Seq(Event) /\ Len(s) \in Nat /\ Len(Append(s, e)) = Len(s) + 1
         /\ \A i \in 1 .. Len(s) : Append(s, e)[i] = s[i]
         /\ Append(s, e)[Len(s) + 1] = e
  OBVIOUS

LEMMA SameBefore ==
  ASSUME NEW s, NEW t, NEW i \in Nat, NEW n, \A k \in 1 .. i - 1 : t[k] = s[k], ComesAfter(s, i, n)
  PROVE  ComesAfter(t, i, n)
<1>1. PICK j \in 0 .. i - 1 : /\ IF n = 0 THEN j = 0 ELSE j > 0 /\ s[j] = Content(n)
                              /\ \A k \in j + 1 .. i - 1 : s[k].type # "content"
  BY DEF ComesAfter
<1>2. \A k \in j + 1 .. i - 1 : t[k].type # "content"
  BY <1>1
<1>3. IF n = 0 THEN j = 0 ELSE j > 0 /\ t[j] = Content(n)
  BY <1>1
<1> QED
  BY <1>2, <1>3 DEF ComesAfter

LEMMA AfterChunk ==
  ASSUME NEW s, NEW i \in Nat \ {0}, NEW n \in Nat \ {0}, s[i] = Content(n)
  PROVE  ComesAfter(s, i + 1, n)
<1>1. i \in 0 .. (i + 1) - 1 /\ \A k \in i + 1 .. (i + 1) - 1 : FALSE
  OBVIOUS
<1> QED
  BY <1>1 DEF ComesAfter

LEMMA AfterNoChunk ==
  ASSUME NEW s, NEW i \in Nat \ {0}, NEW n, s[i].type # "content", ComesAfter(s, i, n)
  PROVE  ComesAfter(s, i + 1, n)
<1>1. PICK j \in 0 .. i - 1 : /\ IF n = 0 THEN j = 0 ELSE j > 0 /\ s[j] = Content(n)
                              /\ \A k \in j + 1 .. i - 1 : s[k].type # "content"
  BY DEF ComesAfter
<1>2. \A k \in j + 1 .. (i + 1) - 1 : s[k].type # "content"
  <2> SUFFICES ASSUME NEW k \in j + 1 .. (i + 1) - 1 PROVE s[k].type # "content"
    OBVIOUS
  <2>1. k = i \/ k \in j + 1 .. i - 1
    OBVIOUS
  <2> QED
    BY <1>1, <2>1
<1>3. j \in 0 .. (i + 1) - 1
  OBVIOUS
<1> QED
  BY <1>1, <1>2, <1>3 DEF ComesAfter

\* What another event does to what was told before.
LEMMA WholeKept ==
  ASSUME ChatInv, NEW r \in Requests, NEW e \in Event, body' = body,
         sent'[r] = Append(sent[r], e), 
         r \in Browsed => Follows(sent[r], e, Len(sent[r]) + 1, r \in Local)
  PROVE  /\ WholeOf(r)'
         /\ \A n : e.type # "content" => (Heard(r, n) => Heard(r, n)')
         /\ \A n \in Nat \ {0} : e = Content(n) => Heard(r, n)'
<1>1. /\ sent[r] \in Seq(Event) /\ Len(sent[r]) \in Nat /\ Len(sent'[r]) = Len(sent[r]) + 1
      /\ \A i \in 1 .. Len(sent[r]) : sent'[r][i] = sent[r][i]
      /\ sent'[r][Len(sent[r]) + 1] = e
  BY Appended DEF ChatInv, ChatType
<1> DEFINE m == Len(sent[r]) + 1
<1>2. m \in Nat \ {0} /\ Len(sent'[r]) = m /\ sent'[r][m] = e
      /\ \A k \in 1 .. m - 1 : sent'[r][k] = sent[r][k]
  BY <1>1
<1> HIDE DEF m
<1>3. ASSUME NEW i \in 1 .. m, NEW n, ComesAfter(sent[r], i, n)
      PROVE  ComesAfter(sent'[r], i, n)
  <2>1. \A k \in 1 .. i - 1 : sent'[r][k] = sent[r][k]
    BY <1>2
  <2>2. i \in Nat
    BY <1>2
  <2> QED
    BY <1>3, <2>1, <2>2, SameBefore
<1>4. (r \in Local)' <=> r \in Local
  BY DEF Local
<1>5. ASSUME r \in Browsed, NEW i \in 1 .. m
      PROVE  Follows(sent'[r], sent'[r][i], i, r \in Local)
  <2>1. Follows(sent[r], sent'[r][i], i, r \in Local)
    <3>1. CASE i = m
      BY <1>2, <1>5, <3>1 DEF m
    <3>2. CASE i # m
      <4>1. i \in 1 .. Len(sent[r]) /\ sent'[r][i] = sent[r][i]
        BY <1>1, <1>2, <3>2 DEF m
      <4> QED
        BY <1>5, <4>1 DEF ChatInv, WholeOf
    <3> QED
      BY <3>1, <3>2
  <2> QED
    BY <1>3, <2>1 DEF Follows
<1>6. WholeOf(r)'
  <2>1. Browsed' = Browsed /\ Local' = Local
    BY DEF Browsed, Local, Kind
  <2> QED
    BY <1>2, <1>5, <2>1 DEF WholeOf
<1>7. ASSUME NEW n, e.type # "content", Heard(r, n) PROVE Heard(r, n)'
  <2>1. CASE n = 0 /\ r \in Local
    BY <1>4, <2>1 DEF Heard
  <2>2. CASE ComesAfter(sent[r], m, n)
    <3>1. ComesAfter(sent'[r], m, n)
      BY <1>2, <1>3, <2>2
    <3>2. ComesAfter(sent'[r], m + 1, n)
      BY <1>2, <1>7, <3>1, AfterNoChunk
    <3> QED
      BY <1>2, <3>2 DEF Heard
  <2> QED
    BY <1>7, <2>1, <2>2 DEF Heard, m
<1>8. ASSUME NEW n \in Nat \ {0}, e = Content(n) PROVE Heard(r, n)'
  <2>1. ComesAfter(sent'[r], m + 1, n)
    BY <1>2, <1>8, AfterChunk
  <2> QED
    BY <1>2, <2>1 DEF Heard
<1> QED
  BY <1>6, <1>7, <1>8

LEMMA AloneIfOne ==
  ASSUME ChatInv, NEW r \in Requests, UNCHANGED <<body, client, cache>>,
         pc' = pc \/ \E p : Move(r, p),
         text' = text \/ \E n \in Nat : text' = [text EXCEPT ![r] = n],
         sent' = sent \/ \E e \in Event : sent' = [sent EXCEPT ![r] = Append(@, e)]
  PROVE  Alone(r)
<1>1. DOMAIN pc' = Requests /\ \A q \in Requests : q # r => pc'[q] = pc[q]
  BY DEF ChatInv, ChatType, Move
<1>2. text' \in [Requests -> Nat] /\ \A q \in Requests : q # r => text'[q] = text[q]
  BY DEF ChatInv, ChatType
<1>3. sent' \in [Requests -> Seq(Event)] /\ \A q \in Requests : q # r => sent'[q] = sent[q]
  <2>1. sent \in [Requests -> Seq(Event)]
    BY DEF ChatInv, ChatType
  <2>2. ASSUME NEW e \in Event, sent' = [sent EXCEPT ![r] = Append(@, e)]
        PROVE  sent' \in [Requests -> Seq(Event)] /\ \A q \in Requests : q # r => sent'[q] = sent[q]
    <3>1. Append(sent[r], e) \in Seq(Event)
      BY <2>1, Appended
    <3> QED
      BY <2>1, <2>2, <3>1
  <2> QED
    BY <2>1, <2>2
<1>4. DOMAIN cache' = 1 .. 2 /\ client' \in [Requests -> Clients]
  BY DEF ChatInv, ChatType
<1> QED
  BY <1>1, <1>2, <1>3, <1>4 DEF Alone

LEMMA SameKinds ==
  ASSUME body' = body
  PROVE  /\ Streams' = Streams /\ Browsed' = Browsed /\ Local' = Local
         /\ \A r : Kind(r)' = Kind(r)
  BY DEF Streams, Browsed, Local, Kind

LEMMA KindsApart ==
  \A r : (r \in Streams => Kind(r) = "stream" /\ r \in Browsed) /\ (Kind(r) = "cascade" => r \notin Streams)
  BY DEF Streams, Browsed

\* A request that is open goes on, with a note or without.
LEMMA ProgressKeeps ==
  ASSUME ChatInv, NEW r \in Requests, Alone(r), Open(r), Open(r)', client'[r] = client[r],
         sent'[r] = sent[r] \/ sent'[r] = Append(sent[r], Note),
         r \in Streams => text'[r] = text[r] \/ (text'[r] = 0 /\ r \in Local),
         r \in Streams => pc'[r] # "start", pc'[r] = "judge" => Kind(r) = "cascade",
         pc[r] # "replay", pc'[r] # "replay"
  PROVE  ChatInv'
<1>1. /\ body' = body /\ sent[r] \in Seq(Event) /\ RequestInv(r) /\ VerdictOf(r) /\ WholeOf(r)
      /\ \A i \in 1 .. Len(sent[r]) : sent[r][i].type \in {"content", "note"}
      /\ SoFar(r) /\ client[r] # "served"
  BY DEF ChatInv, ChatType, Alone, RequestInv, Open
<1>2. /\ Streams' = Streams /\ Browsed' = Browsed /\ Local' = Local /\ Kind(r)' = Kind(r)
  BY <1>1, SameKinds
<1>3. /\ \A i \in 1 .. Len(sent'[r]) : sent'[r][i].type \in {"content", "note"}
      /\ WholeOf(r)' /\ \A n : Heard(r, n) => Heard(r, n)'
  <2>1. CASE sent'[r] = sent[r]
    BY <1>1, <1>2, <2>1 DEF WholeOf, Heard
  <2>2. CASE sent'[r] = Append(sent[r], Note)
    <3>1. Note \in Event /\ Note.type = "note"
      BY Events
    <3>2. Follows(sent[r], Note, Len(sent[r]) + 1, r \in Local)
      BY <3>1 DEF Follows
    <3>3. WholeOf(r)' /\ \A n : Heard(r, n) => Heard(r, n)'
      BY <1>1, <2>2, <3>1, <3>2, WholeKept
    <3> QED
      BY <1>1, <2>2, <3>1, <3>3, Appended
  <2> QED
    BY <2>1, <2>2
<1>4. VerdictOf(r)'
  BY <1>3, Events DEF VerdictOf, Verdicts
<1>5. SoFar(r)'
  <2>1. r \in Streams => (Heard(r, text[r]))'
    <3>0. PICK m : m = text'[r]
      OBVIOUS
    <3>1. ASSUME r \in Streams, text'[r] = text[r] PROVE Heard(r, m)'
      <4>1. Heard(r, m)
        BY <1>1, <3>0, <3>1 DEF SoFar
      <4> QED
        BY <1>3, <4>1
    <3>2. ASSUME text'[r] = 0, r \in Local PROVE Heard(r, m)'
      BY <1>2, <3>0, <3>2 DEF Heard
    <3>3. r \in Streams => Heard(r, m)'
      BY <3>1, <3>2
    <3> QED
      BY <3>0, <3>3
  <2>2. Kind(r) = "cascade" => Heard(r, 0)'
    BY <1>1, <1>3 DEF SoFar
  <2> QED
    BY <1>2, <2>1, <2>2 DEF SoFar
<1>6. RequestInv(r)'
  BY <1>1, <1>2, <1>3, <1>5 DEF RequestInv, Open
<1> QED
  BY <1>3, <1>4, <1>6, AlonePreserves

\* A stream hands on the next chunk.
LEMMA ChunkKeeps ==
  ASSUME ChatInv, NEW r \in Requests, Alone(r), Open(r), client'[r] = client[r],
         r \in Streams, text'[r] = text[r] + 1, sent'[r] = Append(sent[r], Content(text'[r])),
         pc'[r] \in {"reading", "settling", "edge", "done"}
  PROVE  ChatInv'
<1>1. /\ body' = body /\ sent[r] \in Seq(Event) /\ RequestInv(r)
      /\ \A i \in 1 .. Len(sent[r]) : sent[r][i].type \in {"content", "note"}
      /\ SoFar(r) /\ client[r] # "served" /\ text[r] \in Nat /\ Heard(r, text[r])
  BY DEF ChatInv, ChatType, Alone, RequestInv, Open, SoFar
<1>2. /\ Streams' = Streams /\ Browsed' = Browsed /\ Local' = Local /\ Kind(r)' = Kind(r)
      /\ Kind(r) = "stream"
  BY <1>1, SameKinds, KindsApart
<1>0. PICK m \in Nat \ {0} : m = text'[r]
  BY <1>1
<1>3. /\ Content(m) \in Event /\ Content(m).type = "content" /\ Content(m).n = m
      /\ m = text[r] + 1 /\ sent'[r] = Append(sent[r], Content(m))
  BY <1>0, Events
<1>4. Follows(sent[r], Content(m), Len(sent[r]) + 1, r \in Local)
  <2>1. Content(m).n - 1 = text[r]
    BY <1>1, <1>3
  <2> QED
    BY <1>1, <1>3, <2>1 DEF Follows, Heard
<1>5. WholeOf(r)' /\ (Heard(r, text[r]))'
  <2>1. WholeOf(r)' /\ Heard(r, m)'
    BY <1>1, <1>3, <1>4, WholeKept
  <2> QED
    BY <1>0, <2>1
<1>6. \A i \in 1 .. Len(sent'[r]) : sent'[r][i].type \in {"content", "note"}
  BY <1>1, <1>3, Appended
<1>7. VerdictOf(r)'
  BY <1>6, Events DEF VerdictOf, Verdicts
<1>8. RequestInv(r)'
  BY <1>1, <1>2, <1>5, <1>6 DEF RequestInv, Open, SoFar
<1> QED
  BY <1>5, <1>7, <1>8, AlonePreserves

\* The verdict.
LEMMA VerdictKeeps ==
  ASSUME ChatInv, NEW r \in Requests, Alone(r), Open(r), client'[r] = client[r],
         NEW e \in Event, sent'[r] = Append(sent[r], e), e.type \in Verdicts,
         r \in Browsed => Follows(sent[r], e, Len(sent[r]) + 1, r \in Local),
         pc'[r] = "closing"
  PROVE  ChatInv'
<1>1. /\ body' = body /\ sent[r] \in Seq(Event) /\ RequestInv(r)
      /\ \A i \in 1 .. Len(sent[r]) : sent[r][i].type \in {"content", "note"}
      /\ client[r] # "served"
  BY DEF ChatInv, ChatType, Alone, RequestInv, Open
<1>2. WholeOf(r)'
  BY <1>1, WholeKept
<1>3. /\ Len(sent[r]) \in Nat /\ Len(sent'[r]) = Len(sent[r]) + 1
      /\ \A i \in 1 .. Len(sent[r]) : sent'[r][i].type \in {"content", "note"}
      /\ sent'[r][Len(sent[r]) + 1] = e
  BY <1>1, Appended
<1>4. \A i \in 1 .. Len(sent'[r]) : sent'[r][i] # Sentinel
  <2> SUFFICES ASSUME NEW i \in 1 .. Len(sent'[r]) PROVE sent'[r][i] # Sentinel
    OBVIOUS
  <2>1. i \in 1 .. Len(sent[r]) \/ i = Len(sent[r]) + 1
    BY <1>3
  <2> QED
    BY <1>3, <2>1, Events DEF Verdicts
<1>5. VerdictOf(r)'
  <2> SUFFICES ASSUME NEW i \in 1 .. Len(sent'[r]), sent'[r][i].type \in Verdicts
               PROVE  \A j \in i + 1 .. Len(sent'[r]) : FALSE
    BY <1>4 DEF VerdictOf
  <2>1. i = Len(sent[r]) + 1
    BY <1>3 DEF Verdicts
  <2> QED
    BY <1>3, <2>1
<1>6. RequestInv(r)'
  BY <1>1, <1>3, <1>4 DEF RequestInv, Open
<1> QED
  BY <1>2, <1>5, <1>6, AlonePreserves

\* The same, of the way the actions are written.
Between == {"start", "waiting", "called", "tools", "settling", "edge", "judge",
            "done", "checked", "opening", "asleep", "reading"}

Moves(r) ==
  /\ pc[r] \in Between
  /\ \/ pc' = pc /\ pc[r] # "start"
     \/ \E p \in Between : /\ Move(r, p)
                           /\ r \in Streams => p # "start"
                           /\ p = "judge" => Kind(r) = "cascade"
Keeps(r) ==
  \/ text' = text
  \/ \E n \in Nat : /\ text' = [text EXCEPT ![r] = n]
                    /\ r \in Streams => n = 0 /\ r \in Local
Notes(r) == sent' = sent \/ sent' = [sent EXCEPT ![r] = Append(@, Note)]

LEMMA GoesOnKeeps ==
  ASSUME ChatInv, NEW r \in Requests, UNCHANGED <<body, client, cache>>,
         Moves(r), Keeps(r), Notes(r)
  PROVE  ChatInv'
<1>1. /\ DOMAIN pc = Requests /\ text \in [Requests -> Nat] /\ sent \in [Requests -> Seq(Event)]
      /\ (pc[r] = "judge" => Kind(r) = "cascade") /\ client' = client
  BY DEF ChatInv, ChatType, RequestInv
<1>2. Alone(r)
  <2>1. pc' = pc \/ \E p : Move(r, p)
    BY DEF Moves
  <2>2. text' = text \/ \E n \in Nat : text' = [text EXCEPT ![r] = n]
    BY DEF Keeps
  <2>3. sent' = sent \/ \E e \in Event : sent' = [sent EXCEPT ![r] = Append(@, e)]
    BY Events DEF Notes
  <2> QED
    BY <2>1, <2>2, <2>3, AloneIfOne
<1>3. /\ pc[r] \in Between /\ pc'[r] \in Between /\ (pc'[r] = "judge" => Kind(r) = "cascade")
      /\ r \in Streams => pc'[r] # "start"
  BY <1>1 DEF Moves, Move
<1>4. Open(r) /\ Open(r)' /\ pc[r] # "replay" /\ pc'[r] # "replay"
  BY <1>3 DEF Open, Between
<1>5. sent'[r] = sent[r] \/ sent'[r] = Append(sent[r], Note)
  BY <1>1 DEF Notes
<1>6. r \in Streams => text'[r] = text[r] \/ (text'[r] = 0 /\ r \in Local)
  BY <1>1 DEF Keeps
<1> QED
  BY <1>1, <1>2, <1>3, <1>4, <1>5, <1>6, ProgressKeeps

LEMMA TellNotes == ASSUME NEW r, Tell(r) PROVE Notes(r)
  BY DEF Tell, Emit, Notes

LEMMA RoundKeeps ==
  ASSUME NEW r, NextRound(r), pc[r] \in Between PROVE Moves(r) /\ Keeps(r)
  BY DEF NextRound, Moves, Keeps, Between

\* An error is told, or the local model takes over.
LEMMA ReportKeeps ==
  ASSUME ChatInv, NEW r \in Requests, Report(r), Open(r), UNCHANGED <<body, text, client, cache>>
  PROVE  ChatInv'
<1>1. /\ sent' = [sent EXCEPT ![r] = Append(@, Failure)] /\ Move(r, "closing")
  BY DEF Report
<1>2. Failure \in Event /\ Failure.type = "error"
  BY Events
<1>3. Alone(r)
  BY <1>1, <1>2, AloneIfOne
<1>4. sent'[r] = Append(sent[r], Failure) /\ pc'[r] = "closing" /\ client'[r] = client[r]
  BY <1>1 DEF Move, ChatInv, ChatType
<1>5. Follows(sent[r], Failure, Len(sent[r]) + 1, r \in Local) /\ Failure.type \in Verdicts
  BY <1>2 DEF Follows, Verdicts
<1> QED
  BY <1>2, <1>3, <1>4, <1>5, VerdictKeeps

LEMMA FallBackKeeps ==
  ASSUME NEW r, FallBack(r), pc[r] \in Between PROVE Moves(r) /\ Keeps(r) /\ Notes(r)
  BY TellNotes DEF FallBack, Moves, Keeps, Between

\* A chunk of an answer that does not stream goes to nobody.
LEMMA EmitKeeps ==
  ASSUME ChatInv, NEW r \in Requests, UNCHANGED <<body, client, cache>>,
         pc[r] \in Between, pc[r] # "start" \/ text[r] = 0 \/ r \notin Streams,
         NEW n \in Nat, text' = [text EXCEPT ![r] = n], r \in Streams => n = text[r] + 1,
         Emit(r, Content(n)),
         \/ pc' = pc /\ pc[r] \in {"reading", "edge"}
         \/ \E p \in {"settling", "done", "judge"} : Move(r, p) /\ (p = "judge" => Kind(r) = "cascade")
  PROVE  ChatInv'
<1>1. CASE r \notin Streams
  <2>1. Notes(r) /\ Keeps(r)
    BY <1>1 DEF Emit, Notes, Keeps
  <2>2. Moves(r)
    BY DEF Moves, Between
  <2> QED
    BY <2>1, <2>2, GoesOnKeeps
<1>2. CASE r \in Streams
  <2>1. sent' = [sent EXCEPT ![r] = Append(@, Content(n))] /\ Content(n) \in Event
    BY <1>2, Events DEF Emit
  <2>2. Alone(r)
    BY <2>1, AloneIfOne
  <2>3. Kind(r) # "cascade"
    BY <1>2, KindsApart
  <2>4. pc'[r] \in {"reading", "settling", "edge", "done"}
    BY <2>3 DEF Move, ChatInv, ChatType
  <2>5. text'[r] = text[r] + 1 /\ sent'[r] = Append(sent[r], Content(text'[r])) /\ client'[r] = client[r]
    BY <1>2, <2>1 DEF ChatInv, ChatType
  <2>6. Open(r)
    BY DEF Open, Between
  <2> QED
    BY <1>2, <2>2, <2>4, <2>5, <2>6, ChunkKeeps
<1> QED
  BY <1>1, <1>2

LEMMA StartKeeps == ASSUME ChatInv, NEW r \in Requests, Start(r) PROVE ChatInv'
<1>1. pc[r] = "start" /\ UNCHANGED <<body, client, cache>> /\ pc[r] \in Between /\ Open(r)
  BY DEF Start, Between, Open
<1>2. r \in Streams => text[r] = 0
  BY <1>1 DEF ChatInv, RequestInv, SoFar
<1>3. CASE Hit(r) /\ text' = [text EXCEPT ![r] = 1] /\ Emit(r, Content(1)) /\ Move(r, Answered(r))
  <2>1. Answered(r) \in {"settling", "done", "judge"} /\ (Answered(r) = "judge" => Kind(r) = "cascade")
    BY DEF Answered
  <2>2. 1 \in Nat /\ (r \in Streams => 1 = text[r] + 1)
    BY <1>2
  <2> QED
    BY <1>1, <1>2, <1>3, <2>1, <2>2, EmitKeeps
<1>4. CASE NextRound(r) /\ UNCHANGED <<holders, sent>>
  <2>1. Notes(r)
    BY <1>4 DEF Notes
  <2> QED
    BY <1>1, <1>4, <2>1, RoundKeeps, GoesOnKeeps
<1>5. CASE Report(r) /\ UNCHANGED text
  BY <1>1, <1>5, ReportKeeps
<1>6. CASE Tell(r) /\ Move(r, "edge") /\ UNCHANGED text
  <2>1. Moves(r) /\ Keeps(r) /\ Notes(r)
    BY <1>1, <1>6, TellNotes DEF Moves, Keeps, Between
  <2> QED
    BY <1>1, <2>1, GoesOnKeeps
<1> QED
  BY <1>3, <1>4, <1>5, <1>6 DEF Start, gate

LEMMA LeaseKeeps ==
  ASSUME ChatInv, NEW r \in Requests,
         Acquire(r) \/ Send(r) \/ Opened(r) \/ Wake(r) \/ ToolsStart(r) \/ Judge(r)
  PROVE  ChatInv'
<1>1. CASE Judge(r) /\ pc'[r] = "start"
  <2>1. pc[r] = "judge" /\ UNCHANGED <<body, client, cache, sent>> /\ Kind(r) = "cascade"
    BY <1>1 DEF Judge, ChatInv, RequestInv
  <2>2. r \notin Streams
    BY <2>1, KindsApart
  <2>3. Moves(r) /\ Keeps(r)
    BY <1>1, <2>1, <2>2 DEF Judge, Moves, Keeps, Between
  <2> QED
    BY <2>1, <2>3, GoesOnKeeps DEF Notes
<1>2. CASE ~(Judge(r) /\ pc'[r] = "start")
  <2>1. /\ UNCHANGED <<body, client, cache, sent, text>>
        /\ pc[r] \in {"waiting", "checked", "opening", "asleep", "called", "judge"}
        /\ \E p \in {"checked", "opening", "reading", "tools", "done"} : Move(r, p)
    BY <1>2 DEF Acquire, Send, Opened, Wake, ToolsStart, Judge, call, gate, Move, ChatInv, ChatType
  <2>2. Moves(r) /\ Keeps(r) /\ Notes(r)
    BY <2>1 DEF Moves, Keeps, Notes, Between
  <2> QED
    BY <2>1, <2>2, GoesOnKeeps
<1> QED
  BY <1>1, <1>2

LEMMA OpenFailsKeeps == ASSUME ChatInv, NEW r \in Requests, OpenFails(r) PROVE ChatInv'
<1>1. pc[r] = "opening" /\ UNCHANGED <<body, client, cache>> /\ pc[r] \in Between /\ Open(r)
  BY DEF OpenFails, Between, Open
<1>2. CASE Tell(r) /\ Move(r, "asleep") /\ UNCHANGED text
  <2>1. Moves(r) /\ Keeps(r) /\ Notes(r)
    BY <1>1, <1>2, TellNotes DEF Moves, Keeps, Between
  <2> QED
    BY <1>1, <2>1, GoesOnKeeps
<1>3. CASE Report(r) /\ UNCHANGED text
  BY <1>1, <1>3, ReportKeeps
<1>4. CASE FallBack(r)
  BY <1>1, <1>4, FallBackKeeps, GoesOnKeeps
<1> QED
  BY <1>2, <1>3, <1>4 DEF OpenFails, gate

LEMMA ChunksKeep == ASSUME ChatInv, NEW r \in Requests, Chunk(r) \/ EdgeChunk(r) PROVE ChatInv'
<1>1. /\ pc[r] \in {"reading", "edge"} /\ UNCHANGED <<body, client, cache, pc>>
      /\ text' = [text EXCEPT ![r] = @ + 1] /\ Emit(r, Content(text'[r]))
  BY DEF Chunk, EdgeChunk
<1>2. PICK n \in Nat : n = text'[r] /\ n = text[r] + 1 /\ text' = [text EXCEPT ![r] = n]
  <2>1. text[r] \in Nat /\ DOMAIN text = Requests
    BY DEF ChatInv, ChatType
  <2>2. PICK n : n = text[r] + 1
    OBVIOUS
  <2>3. n \in Nat /\ text' = [text EXCEPT ![r] = n]
    BY <1>1, <2>1, <2>2
  <2>4. text'[r] = n
    BY <2>1, <2>3
  <2> QED
    BY <2>2, <2>3, <2>4
<1>3. pc[r] \in Between /\ pc[r] # "start"
  BY <1>1 DEF Between
<1> QED
  BY <1>1, <1>2, <1>3, EmitKeeps

LEMMA RoundEndsKeeps ==
  ASSUME ChatInv, NEW r \in Requests, NEW how, NEW calls, RoundEnds(r, how, calls)
  PROVE  ChatInv'
<1>1. pc[r] = "reading" /\ UNCHANGED <<body, client, cache>> /\ pc[r] \in Between
  BY DEF RoundEnds, Between
<1>2. CASE Move(r, "settling") /\ UNCHANGED <<line, round, text, sent>>
  <2>1. Moves(r) /\ Keeps(r) /\ Notes(r)
    BY <1>1, <1>2 DEF Moves, Keeps, Notes, Between
  <2> QED
    BY <1>1, <2>1, GoesOnKeeps
<1>3. CASE Tell(r) /\ Move(r, "called") /\ UNCHANGED <<line, round, text>>
  <2>1. Moves(r) /\ Keeps(r) /\ Notes(r)
    BY <1>1, <1>3, TellNotes DEF Moves, Keeps, Between
  <2> QED
    BY <1>1, <2>1, GoesOnKeeps
<1>4. CASE Tell(r) /\ IF round[r] > MaxToolRounds THEN Move(r, "settling") /\ UNCHANGED <<line, text>>
                                                  ELSE NextRound(r)
  <2>1. Moves(r) /\ Keeps(r)
    BY <1>1, <1>4, RoundKeeps DEF Moves, Keeps, Between
  <2> QED
    BY <1>1, <1>4, <2>1, TellNotes, GoesOnKeeps
<1> QED
  BY <1>2, <1>3, <1>4 DEF RoundEnds

LEMMA ToolsEndKeeps == ASSUME ChatInv, NEW r \in Requests, ToolsEnd(r) PROVE ChatInv'
<1>1. pc[r] = "tools" /\ UNCHANGED <<body, client, cache>> /\ pc[r] \in Between
  BY DEF ToolsEnd, Between
<1>2. CASE Tell(r) /\ NextRound(r)
  BY <1>1, <1>2, TellNotes, RoundKeeps, GoesOnKeeps
<1>3. CASE /\ text' = [text EXCEPT ![r] = IF r \in Streams THEN @ + 1 ELSE 1]
           /\ Emit(r, Content(text'[r])) /\ Move(r, "settling")
  <2>1. PICK n \in Nat : n = text'[r] /\ (r \in Streams => n = text[r] + 1)
    BY <1>3 DEF ChatInv, ChatType
  <2>2. text' = [text EXCEPT ![r] = n]
    BY <1>3, <2>1 DEF ChatInv, ChatType
  <2> QED
    BY <1>1, <1>3, <2>1, <2>2, EmitKeeps
<1> QED
  BY <1>2, <1>3 DEF ToolsEnd

LEMMA EdgeEndsKeeps == ASSUME ChatInv, NEW r \in Requests, EdgeEnds(r) PROVE ChatInv'
<1>1. pc[r] = "edge" /\ UNCHANGED <<body, client, cache, text>> /\ pc[r] \in Between /\ Open(r)
  BY DEF EdgeEnds, Between, Open, call
<1>2. CASE Move(r, Answered(r)) /\ UNCHANGED <<gate, sent>>
  <2>1. Answered(r) \in Between \ {"start"} /\ (Answered(r) = "judge" => Kind(r) = "cascade")
    BY DEF Answered, Between
  <2>2. Moves(r) /\ Keeps(r) /\ Notes(r)
    BY <1>1, <1>2, <2>1 DEF Moves, Keeps, Notes
  <2> QED
    BY <1>1, <2>2, GoesOnKeeps
<1>3. CASE Report(r)
  BY <1>1, <1>3, ReportKeeps
<1> QED
  BY <1>2, <1>3 DEF EdgeEnds

LEMMA FailsKeep == ASSUME ChatInv, NEW r \in Requests, ReadFails(r) \/ Refused(r) PROVE ChatInv'
<1>1. /\ pc[r] \in {"reading", "waiting"} /\ Report(r) /\ UNCHANGED <<body, client, cache, text>>
  BY DEF ReadFails, Refused, call
<1>2. Open(r)
  BY <1>1 DEF Open
<1> QED
  BY <1>1, <1>2, ReportKeeps

LEMMA SettleKeeps == ASSUME ChatInv, NEW r \in Requests, Settle(r) PROVE ChatInv'
<1>1. /\ pc[r] = "settling" /\ Move(r, Answered(r)) /\ UNCHANGED <<body, text, sent, client>>
      /\ cache' = cache \/ cache' = [cache EXCEPT ![pass[r]] = [by |-> r, n |-> text[r]]]
  BY DEF Settle
<1>2. DOMAIN cache' = 1 .. 2
  BY <1>1 DEF ChatInv, ChatType
<1>3. Answered(r) \in {"judge", "done"} /\ (Answered(r) = "judge" => Kind(r) = "cascade")
  BY DEF Answered
<1>4. Alone(r) /\ pc'[r] = Answered(r)
  BY <1>1, <1>2 DEF Alone, ChatInv, ChatType, Move
<1>5. Open(r) /\ Open(r)'
  BY <1>1, <1>3, <1>4 DEF Open
<1> QED
  BY <1>1, <1>3, <1>4, <1>5, ProgressKeeps

\* The answer is whole when it is told that it is.
LEMMA FinishKeeps == ASSUME ChatInv, NEW r \in Requests, Finish(r) PROVE ChatInv'
<1>1. /\ pc[r] = "done" /\ UNCHANGED <<body, client, cache>> /\ text[r] \in Nat /\ Open(r)
      /\ client[r] # "served" /\ SoFar(r) /\ sent[r] \in Seq(Event)
  BY DEF Finish, Open, ChatInv, ChatType, RequestInv
<1>2. CASE Kind(r) = "cascade" /\ text[r] > 0
  <2>1. /\ text' = [text EXCEPT ![r] = 1] /\ sent' = [sent EXCEPT ![r] = Append(@, Content(1))]
        /\ Move(r, "replay")
    BY <1>2 DEF Finish
  <2>2. Content(1) \in Event /\ Content(1).type = "content" /\ Content(1).n = 1
    BY Events
  <2>3. Alone(r)
    BY <1>1, <2>1, <2>2, AloneIfOne
  <2>4. /\ sent'[r] = Append(sent[r], Content(1)) /\ text'[r] = 1 /\ pc'[r] = "replay"
    BY <2>1 DEF ChatInv, ChatType, Move
  <2>5. Follows(sent[r], Content(1), Len(sent[r]) + 1, r \in Local)
    <3>1. Heard(r, 0) /\ Content(1).n - 1 = 0
      BY <1>1, <1>2, <2>2 DEF SoFar
    <3> QED
      BY <2>2, <3>1 DEF Follows, Heard
  <2>6. WholeOf(r)' /\ Heard(r, 1)'
    BY <1>1, <2>2, <2>4, <2>5, WholeKept
  <2>7. Streams' = Streams /\ Kind(r)' = Kind(r) /\ r \notin Streams
    BY <1>1, <1>2, SameKinds, KindsApart
  <2>8. \A i \in 1 .. Len(sent'[r]) : sent'[r][i].type \in {"content", "note"}
    BY <1>1, <2>2, <2>4, Appended DEF ChatInv, RequestInv
  <2>9. VerdictOf(r)'
    BY <2>8, Events DEF VerdictOf, Verdicts
  <2>10. RequestInv(r)'
    <3>1. SoFar(r)'
      BY <2>4, <2>6, <2>7 DEF SoFar
    <3> QED
      BY <1>1, <1>2, <2>4, <2>7, <2>8, <3>1 DEF RequestInv, Open
  <2> QED
    BY <2>3, <2>6, <2>9, <2>10, AlonePreserves
<1>3. CASE ~(Kind(r) = "cascade" /\ text[r] > 0)
  <2>1. /\ sent' = [sent EXCEPT ![r] = Append(@, Done(text[r]))] /\ Move(r, "closing") /\ UNCHANGED text
    BY <1>3 DEF Finish
  <2>2. Done(text[r]) \in Event /\ Done(text[r]).type = "done" /\ Done(text[r]).n = text[r]
    BY <1>1, Events
  <2>3. Alone(r)
    BY <1>1, <2>1, <2>2, AloneIfOne
  <2>4. sent'[r] = Append(sent[r], Done(text[r])) /\ pc'[r] = "closing" /\ client'[r] = client[r]
    BY <1>1, <2>1 DEF ChatInv, ChatType, Move
  <2>5. r \in Browsed => Heard(r, text[r])
    <3>1. r \in Browsed => r \in Streams \/ Kind(r) = "cascade"
      BY DEF Browsed, Streams, Kind, ChatInv, ChatType, Bodies
    <3>2. Kind(r) = "cascade" => text[r] = 0
      BY <1>1, <1>3
    <3> QED
      BY <1>1, <3>1, <3>2 DEF SoFar
  <2>6. r \in Browsed => Follows(sent[r], Done(text[r]), Len(sent[r]) + 1, r \in Local)
    BY <2>2, <2>5 DEF Follows, Heard
  <2>7. Done(text[r]).type \in Verdicts
    BY <2>2 DEF Verdicts
  <2> QED
    BY <1>1, <2>2, <2>3, <2>4, <2>6, <2>7, VerdictKeeps
<1> QED
  BY <1>2, <1>3

LEMMA ReplayedKeeps == ASSUME ChatInv, NEW r \in Requests, Replayed(r) PROVE ChatInv'
<1>1. /\ pc[r] = "replay" /\ UNCHANGED <<body, client, cache, text>> /\ text[r] \in Nat /\ Open(r)
      /\ SoFar(r) /\ sent' = [sent EXCEPT ![r] = Append(@, Done(text[r]))] /\ Move(r, "closing")
  BY DEF Replayed, Open, ChatInv, ChatType, RequestInv, call
<1>2. Done(text[r]) \in Event /\ Done(text[r]).type = "done" /\ Done(text[r]).n = text[r]
  BY <1>1, Events
<1>3. Alone(r)
  BY <1>1, <1>2, AloneIfOne
<1>4. sent'[r] = Append(sent[r], Done(text[r])) /\ pc'[r] = "closing" /\ client'[r] = client[r]
  BY <1>1 DEF ChatInv, ChatType, Move
<1>5. Heard(r, text[r])
  BY <1>1 DEF SoFar
<1>6. Follows(sent[r], Done(text[r]), Len(sent[r]) + 1, r \in Local) /\ Done(text[r]).type \in Verdicts
  BY <1>2, <1>5 DEF Follows, Heard, Verdicts
<1> QED
  BY <1>1, <1>2, <1>3, <1>4, <1>6, VerdictKeeps

LEMMA CancelledKeeps == ASSUME ChatInv, NEW r \in Requests, Cancelled(r) PROVE ChatInv'
<1>1. /\ r \in cancel /\ Looks(r) /\ Move(r, "closing") /\ UNCHANGED <<body, client, cache, text, sent>>
  BY DEF Cancelled, call
<1>2. Alone(r)
  BY <1>1, AloneIfOne
<1>3. pc[r] \in Between \cup {"replay"}
  BY <1>1 DEF Looks, Between
<1>4. Open(r) /\ pc'[r] = "closing"
  BY <1>1, <1>3 DEF Open, Between, Move, ChatInv, ChatType
<1>5. /\ client[r] = "left" /\ RequestInv(r) /\ VerdictOf(r) /\ WholeOf(r)
      /\ \A i \in 1 .. Len(sent[r]) : sent[r][i].type \in {"content", "note"}
  BY <1>1, <1>4 DEF ChatInv, ChatType, Clients, RequestInv, cancel, Open
<1>6. VerdictOf(r)' /\ WholeOf(r)'
  BY <1>1, <1>5, SameKinds DEF VerdictOf, WholeOf
<1>7. RequestInv(r)'
  BY <1>1, <1>4, <1>5, Events DEF RequestInv, Open
<1> QED
  BY <1>2, <1>6, <1>7, AlonePreserves

\* Only the sentinel comes after the verdict.
LEMMA CloseKeeps == ASSUME ChatInv, NEW r \in Requests, Close(r) PROVE ChatInv'
<1>1. /\ pc[r] = "closing" /\ Move(r, "end") /\ UNCHANGED <<body, client, cache, text>>
      /\ sent' = IF r \in Browsed THEN [sent EXCEPT ![r] = Append(@, Sentinel)] ELSE sent
  BY DEF Close, call
<1>2. Sentinel \in Event /\ Sentinel.type = "none"
  BY Events
<1>3. Alone(r)
  BY <1>1, <1>2, AloneIfOne
<1>4. pc'[r] = "end" /\ client' = client /\ sent[r] \in Seq(Event)
      /\ sent'[r] = IF r \in Browsed THEN Append(sent[r], Sentinel) ELSE sent[r]
  BY <1>1 DEF Move, ChatInv, ChatType
<1>5. /\ RequestInv(r) /\ VerdictOf(r) /\ WholeOf(r)
      /\ \A i \in 1 .. Len(sent[r]) : sent[r][i] # Sentinel
      /\ client[r] = "left" \/ (Len(sent[r]) > 0 /\ sent[r][Len(sent[r])].type \in Verdicts)
  BY <1>1 DEF ChatInv, RequestInv
<1>6. RequestInv(r)'
  BY <1>4 DEF RequestInv, Open
<1>7. VerdictOf(r)' /\ WholeOf(r)'
  <2>1. CASE r \notin Browsed
    BY <1>1, <1>4, <1>5, <2>1, SameKinds DEF VerdictOf, WholeOf
  <2>2. CASE r \in Browsed
    <3>1. Follows(sent[r], Sentinel, Len(sent[r]) + 1, r \in Local)
      BY <1>2 DEF Follows
    <3>2. sent'[r] = Append(sent[r], Sentinel)
      BY <1>4, <2>2
    <3>3. WholeOf(r)'
      BY <1>1, <1>2, <3>1, <3>2, WholeKept
    <3>4. /\ Len(sent[r]) \in Nat /\ Len(sent'[r]) = Len(sent[r]) + 1
          /\ \A i \in 1 .. Len(sent[r]) : sent'[r][i] = sent[r][i]
          /\ sent'[r][Len(sent[r]) + 1] = Sentinel
      BY <1>2, <1>4, <3>2, Appended
    <3>5. VerdictOf(r)'
      <4> SUFFICES ASSUME NEW i \in 1 .. Len(sent[r]) + 1
                   PROVE  /\ sent'[r][i].type \in Verdicts =>
                               \A j \in i + 1 .. Len(sent[r]) + 1 : sent'[r][j] = Sentinel
                          /\ sent'[r][i] = Sentinel /\ client[r] \in {"on", "served"} =>
                               i > 1 /\ sent'[r][i - 1].type \in Verdicts
        BY <1>4, <3>4 DEF VerdictOf
      <4>1. CASE i = Len(sent[r]) + 1
        <5>1. sent'[r][i].type \notin Verdicts
          BY <1>2, <3>4, <4>1 DEF Verdicts
        <5>2. client[r] \in {"on", "served"} => i > 1 /\ sent'[r][i - 1].type \in Verdicts
          BY <1>5, <3>4, <4>1
        <5> QED
          BY <5>1, <5>2
      <4>2. CASE i \in 1 .. Len(sent[r])
        <5>1. sent'[r][i] = sent[r][i] /\ sent[r][i] # Sentinel
          BY <1>5, <3>4, <4>2
        <5>2. ASSUME sent[r][i].type \in Verdicts, NEW j \in i + 1 .. Len(sent[r]) + 1
              PROVE  sent'[r][j] = Sentinel
          <6>1. j \in i + 1 .. Len(sent[r]) \/ j = Len(sent[r]) + 1
            BY <3>4
          <6>2. ASSUME j \in i + 1 .. Len(sent[r]) PROVE FALSE
            BY <1>5, <4>2, <5>2, <6>2 DEF VerdictOf
          <6> QED
            BY <3>4, <6>1, <6>2
        <5> QED
          BY <5>1, <5>2
      <4> QED
        BY <3>4, <4>1, <4>2
    <3> QED
      BY <3>3, <3>5
  <2> QED
    BY <2>1, <2>2
<1> QED
  BY <1>3, <1>6, <1>7, AlonePreserves

LEMMA ClientKeeps == ASSUME ChatInv, NEW r \in Requests, Served(r) \/ Leaves(r) PROVE ChatInv'
<1>1. /\ client[r] = "on" /\ UNCHANGED <<body, pc, text, sent, cache>>
      /\ \/ client' = [client EXCEPT ![r] = "left"]
         \/ client' = [client EXCEPT ![r] = "served"] /\ sent[r] # <<>> /\ Last(sent[r]) = Sentinel
  BY DEF Served, Leaves, call
<1>2. Alone(r) /\ client'[r] \in {"left", "served"}
  BY <1>1, SameKinds DEF Alone, ChatInv, ChatType, Clients
<1>3. RequestInv(r) /\ VerdictOf(r) /\ WholeOf(r) /\ Streams' = Streams /\ Browsed' = Browsed
      /\ Local' = Local /\ Kind(r)' = Kind(r)
  BY <1>1, SameKinds DEF ChatInv
<1>4. client'[r] = "served" => pc[r] = "end"
  <2>1. ASSUME client'[r] = "served" PROVE pc[r] = "end"
    <3>1. sent[r] \in Seq(Event) /\ sent[r] # <<>> /\ Last(sent[r]) = Sentinel
      BY <1>1, <2>1 DEF ChatInv, ChatType
    <3>2. Len(sent[r]) \in 1 .. Len(sent[r]) /\ sent[r][Len(sent[r])] = Sentinel
      BY <3>1 DEF Last
    <3> QED
      BY <1>3, <3>2, Events DEF RequestInv, Open
  <2> QED
    BY <2>1
<1>5. WholeOf(r)' /\ VerdictOf(r)'
  BY <1>1, <1>2, <1>3 DEF WholeOf, VerdictOf
<1>6. RequestInv(r)'
  <2>1. SoFar(r)' <=> SoFar(r)
    BY <1>1, <1>3 DEF SoFar, Heard
  <2>2. pc[r] = "closing" => client'[r] = "left"
    BY <1>2, <1>4
  <2> QED
    BY <1>1, <1>3, <1>4, <2>1, <2>2 DEF RequestInv, Open
<1> QED
  BY <1>2, <1>5, <1>6, AlonePreserves

LEMMA ChatPreserved == ChatInv /\ [Next]_vars => ChatInv'
<1> SUFFICES ASSUME ChatInv, [Next]_vars PROVE ChatInv'
  OBVIOUS
<1>1. ASSUME UNCHANGED vars PROVE ChatInv'
  <2>1. UNCHANGED <<body, pc, text, sent, client, cache>>
    BY <1>1 DEF vars, call
  <2>2. Streams' = Streams /\ Browsed' = Browsed /\ Local' = Local /\ \A r : Kind(r)' = Kind(r)
    BY <2>1, SameKinds
  <2>3. ChatType'
    BY <2>1, <2>2 DEF ChatInv, ChatType
  <2>4. ASSUME NEW r \in Requests PROVE RequestInv(r)' /\ VerdictOf(r)' /\ WholeOf(r)'
    <3>1. RequestInv(r) /\ VerdictOf(r) /\ WholeOf(r)
      BY DEF ChatInv
    <3>2. VerdictOf(r)' /\ WholeOf(r)' /\ (SoFar(r)' <=> SoFar(r))
      BY <2>1, <2>2, <3>1 DEF VerdictOf, WholeOf, SoFar, Heard
    <3> QED
      BY <2>1, <2>2, <3>1, <3>2 DEF RequestInv, Open
  <2> QED
    BY <2>3, <2>4 DEF ChatInv
<1>2. ASSUME NEW r \in Requests, Working(r) PROVE ChatInv'
  BY <1>2, StartKeeps, LeaseKeeps, OpenFailsKeeps, RoundEndsKeeps, ToolsEndKeeps, EdgeEndsKeeps,
     FailsKeep, SettleKeeps, FinishKeeps, ReplayedKeeps, CancelledKeeps, CloseKeeps DEF Working
<1> QED
  BY <1>1, <1>2, ChunksKeep, FailsKeep, ClientKeeps DEF Next, Over

LEMMA ChatInitially == Init => ChatInv
<1> SUFFICES ASSUME Init PROVE ChatInv
  OBVIOUS
<1>1. ChatType
  <2>1. body \in [Requests -> Bodies]
    BY ConstantsAssumption DEF Init
  <2>2. DOMAIN pc = Requests /\ DOMAIN cache = 1 .. 2
    BY DEF Init
  <2>3. text \in [Requests -> Nat] /\ client \in [Requests -> Clients]
    BY DEF Init, Clients
  <2>4. <<>> \in Seq(Event)
    OBVIOUS
  <2>5. sent \in [Requests -> Seq(Event)]
    BY <2>4 DEF Init
  <2> QED
    BY <2>1, <2>2, <2>3, <2>5 DEF ChatType
<1>2. ASSUME NEW r \in Requests PROVE RequestInv(r) /\ VerdictOf(r) /\ WholeOf(r)
  <2>1. sent[r] = <<>> /\ Len(sent[r]) = 0 /\ pc[r] = "start" /\ client[r] = "on" /\ text[r] = 0
    BY DEF Init
  <2>2. Heard(r, 0)
    <3>1. 0 \in 0 .. (0 + 1) - 1 /\ \A k \in 0 + 1 .. (0 + 1) - 1 : FALSE
      OBVIOUS
    <3> QED
      BY <2>1, <3>1 DEF Heard, ComesAfter
  <2> QED
    BY <2>1, <2>2 DEF RequestInv, Open, SoFar, VerdictOf, WholeOf
<1> QED
  BY <1>1, <1>2 DEF ChatInv

(***************************************************************************)
(* OneVerdict: whatever fails, is retried, falls back or is cancelled, for *)
(* every number of requests, rounds and attempts, nothing follows the      *)
(* verdict but the sentinel, and a client that stays gets a verdict.       *)
(***************************************************************************)
THEOREM OneVerdictHolds == Spec => []OneVerdict
<1>1. ChatInv => OneVerdict
  BY DEF ChatInv, VerdictOf, OneVerdict
<1> QED
  BY ChatInitially, ChatPreserved, <1>1, PTL DEF Spec

\* What a step of one request leaves as it was for the others.
LEMMA OthersRest ==
  ASSUME ChatInv, NEW q \in Requests, NEW r \in Requests, q # r,
         Working(q) \/ Chunk(q) \/ EdgeChunk(q) \/ Refused(q) \/ Served(q) \/ Leaves(q)
  PROVE  pc'[r] = pc[r] /\ sent'[r] = sent[r] /\ client'[r] = client[r]
<1>1. DOMAIN pc = Requests /\ DOMAIN sent = Requests /\ DOMAIN client = Requests
  BY DEF ChatInv, ChatType
<1>2. pc'[r] = pc[r]
  BY <1>1 DEF Working, Start, Acquire, Send, Opened, OpenFails, Wake, ReadFails, RoundEnds,
     ToolsStart, ToolsEnd, Settle, Judge, EdgeEnds, Finish, Replayed, Cancelled, Close, Report,
     FallBack, NextRound, Move, Chunk, EdgeChunk, Refused, Served, Leaves
<1>3. sent'[r] = sent[r]
  BY <1>1 DEF Working, Start, Acquire, Send, Opened, OpenFails, Wake, ReadFails, RoundEnds,
     ToolsStart, ToolsEnd, Settle, Judge, EdgeEnds, Finish, Replayed, Cancelled, Close, Report,
     FallBack, Tell, Emit, Chunk, EdgeChunk, Refused, Served, Leaves, call
<1>4. client'[r] = client[r]
  BY <1>1 DEF Working, Start, Acquire, Send, Opened, OpenFails, Wake, ReadFails, RoundEnds,
     ToolsStart, ToolsEnd, Settle, Judge, EdgeEnds, Finish, Replayed, Cancelled, Close,
     Chunk, EdgeChunk, Refused, Served, Leaves
<1> QED
  BY <1>2, <1>3, <1>4

(***************************************************************************)
(* What a stream has stored it has told, and all it may still tell is that *)
(* it is done.                                                             *)
(***************************************************************************)
Entry(r, n) ==
  /\ pc[r] \in {"done", "closing", "end"}
  /\ n \in Nat /\ n > 0 /\ ComesAfter(sent[r], Len(sent[r]) + 1, n)

ShownInv ==
  \A r \in Streams : \A p \in 1 .. 2 :
    cache[p] # NoEntry /\ cache[p].by = r => Entry(r, cache[p].n)

LEMMA EntryKept ==
  ASSUME ChatInv, NEW r \in Streams, NEW n, Entry(r, n), Next
  PROVE  Entry(r, n)'
<1>1. /\ r \in Requests /\ sent[r] \in Seq(Event) /\ DOMAIN pc = Requests
      /\ DOMAIN sent = Requests /\ text[r] \in Nat /\ Kind(r) = "stream" /\ r \in Browsed
  BY KindsApart DEF Streams, ChatInv, ChatType
<1>2. CASE UNCHANGED <<pc, sent>>
  BY <1>2 DEF Entry
<1>3. ASSUME NEW q \in Requests, q # r,
             Working(q) \/ Chunk(q) \/ EdgeChunk(q) \/ Refused(q) \/ Served(q) \/ Leaves(q)
      PROVE  Entry(r, n)'
  <2>1. pc'[r] = pc[r] /\ sent'[r] = sent[r]
    BY <1>1, <1>3, OthersRest
  <2> QED
    BY <2>1 DEF Entry
<1>4. ASSUME Working(r) PROVE Entry(r, n)'
  <2>1. Finish(r) \/ Cancelled(r) \/ Close(r)
    BY <1>4 DEF Entry, Working, Start, Acquire, Send, Opened, OpenFails, Wake, ReadFails,
       RoundEnds, ToolsStart, ToolsEnd, Settle, Judge, EdgeEnds, Replayed
  <2>2. /\ pc'[r] \in {"closing", "end"}
        /\ \/ sent'[r] = sent[r]
           \/ \E e \in Event : e.type # "content" /\ sent'[r] = Append(sent[r], e)
    <3>1. Done(text[r]) \in Event /\ Done(text[r]).type = "done"
      BY <1>1, Events
    <3>2. Sentinel \in Event /\ Sentinel.type = "none"
      BY Events
    <3>3. CASE Finish(r)
      BY <1>1, <3>1, <3>3 DEF Finish, Move
    <3>4. CASE Cancelled(r)
      BY <1>1, <3>4 DEF Cancelled, Move
    <3>5. CASE Close(r)
      BY <1>1, <3>2, <3>5 DEF Close, Move
    <3> QED
      BY <2>1, <3>3, <3>4, <3>5
  <2>3. ASSUME NEW e \in Event, e.type # "content", sent'[r] = Append(sent[r], e)
        PROVE  ComesAfter(sent'[r], Len(sent'[r]) + 1, n)
    <3>1. PICK m \in Nat \ {0} : m = Len(sent[r]) + 1
      BY <1>1
    <3>2. /\ Len(sent'[r]) = m /\ sent'[r][m] = e
          /\ \A k \in 1 .. m - 1 : sent'[r][k] = sent[r][k]
      BY <1>1, <2>3, <3>1, Appended
    <3>3. ComesAfter(sent'[r], m, n)
      BY <3>1, <3>2, SameBefore DEF Entry
    <3> QED
      BY <2>3, <3>2, <3>3, AfterNoChunk
  <2> QED
    BY <2>2, <2>3 DEF Entry
<1>5. CASE Chunk(r) \/ EdgeChunk(r) \/ Refused(r)
  BY <1>5 DEF Entry, Chunk, EdgeChunk, Refused
<1>6. CASE Served(r) \/ Leaves(r) \/ Over
  BY <1>2, <1>6 DEF Served, Leaves, Over, vars
<1> QED
  BY <1>1, <1>3, <1>4, <1>5, <1>6 DEF Next

\* Only at its end does an answer come into the cache.
LEMMA CacheRests ==
  ASSUME Next, \A r \in Requests : ~Settle(r) PROVE UNCHANGED <<body, cache>>
<1>1. ASSUME NEW r \in Requests, Start(r) \/ Acquire(r) \/ Send(r) \/ Opened(r)
      PROVE  UNCHANGED <<body, cache>>
  <2>1. CASE Start(r)
    BY <2>1 DEF Start
  <2>2. CASE Acquire(r)
    BY <2>2 DEF Acquire
  <2>3. CASE Send(r)
    BY <2>3 DEF Send
  <2>4. CASE Opened(r)
    BY <2>4 DEF Opened
  <2> QED BY <1>1, <2>1, <2>2, <2>3, <2>4
<1>2. ASSUME NEW r \in Requests, OpenFails(r)
      PROVE  UNCHANGED <<body, cache>>
  BY <1>2 DEF OpenFails
<1>3. ASSUME NEW r \in Requests, Wake(r) \/ ReadFails(r) \/ ToolsStart(r) \/ ToolsEnd(r)
      PROVE  UNCHANGED <<body, cache>>
  <2>1. CASE Wake(r)
    BY <2>1 DEF Wake
  <2>2. CASE ReadFails(r)
    BY <2>2 DEF ReadFails
  <2>3. CASE ToolsStart(r)
    BY <2>3 DEF ToolsStart
  <2>4. CASE ToolsEnd(r)
    BY <2>4 DEF ToolsEnd
  <2> QED BY <1>3, <2>1, <2>2, <2>3, <2>4
<1>4. ASSUME NEW r \in Requests, Judge(r) \/ EdgeEnds(r) \/ Finish(r)
      PROVE  UNCHANGED <<body, cache>>
  <2>1. CASE Judge(r)
    BY <2>1 DEF Judge
  <2>2. CASE EdgeEnds(r)
    BY <2>2 DEF EdgeEnds
  <2>3. CASE Finish(r)
    BY <2>3 DEF Finish
  <2> QED BY <1>4, <2>1, <2>2, <2>3
<1>5. ASSUME NEW r \in Requests, Replayed(r) \/ Cancelled(r) \/ Close(r)
      PROVE  UNCHANGED <<body, cache>>
  <2>1. CASE Replayed(r)
    BY <2>1 DEF Replayed
  <2>2. CASE Cancelled(r)
    BY <2>2 DEF Cancelled
  <2>3. CASE Close(r)
    BY <2>3 DEF Close
  <2> QED BY <1>5, <2>1, <2>2, <2>3
<1>6. ASSUME NEW r \in Requests, Chunk(r) \/ EdgeChunk(r) \/ Refused(r) \/ Served(r) \/ Leaves(r)
      PROVE  UNCHANGED <<body, cache>>
  <2>1. CASE Chunk(r)
    BY <2>1 DEF Chunk
  <2>2. CASE EdgeChunk(r)
    BY <2>2 DEF EdgeChunk
  <2>3. CASE Refused(r)
    BY <2>3 DEF Refused
  <2>4. CASE Served(r)
    BY <2>4 DEF Served
  <2>5. CASE Leaves(r)
    BY <2>5 DEF Leaves
  <2> QED BY <1>6, <2>1, <2>2, <2>3, <2>4, <2>5
<1>7. ASSUME NEW r \in Requests, NEW how \in {"stop", "length", "eof"}, NEW calls \in BOOLEAN,
             RoundEnds(r, how, calls)
      PROVE  UNCHANGED <<body, cache>>
  BY <1>7 DEF RoundEnds
<1>8. Over => UNCHANGED <<body, cache>>
  BY DEF Over, vars
<1> QED BY <1>1, <1>2, <1>3, <1>4, <1>5, <1>6, <1>7, <1>8, Zenon DEF Next, Working

LEMMA ShownPreserved == ChatInv /\ ShownInv /\ [Next]_vars => ShownInv'
<1> SUFFICES ASSUME ChatInv, ShownInv, [Next]_vars PROVE ShownInv'
  OBVIOUS
<1>1. CASE UNCHANGED vars
  <2>1. UNCHANGED <<body, pc, sent, cache>>
    BY <1>1 DEF vars
  <2> QED
    BY <2>1 DEF ShownInv, Entry, Streams, Kind
<1>2. CASE Next /\ \A r \in Requests : ~Settle(r)
  <2>1. UNCHANGED <<body, cache>> /\ Streams' = Streams
    BY <1>2, CacheRests, SameKinds
  <2> SUFFICES ASSUME NEW r \in Streams, NEW p \in 1 .. 2, cache[p] # NoEntry, cache[p].by = r
               PROVE  Entry(r, cache[p].n)'
    BY <2>1 DEF ShownInv, NoEntry
  <2>2. PICK n : n = cache[p].n
    OBVIOUS
  <2>3. Entry(r, n)'
    BY <1>2, <2>2, EntryKept DEF ShownInv
  <2> QED
    BY <2>1, <2>2, <2>3
<1>3. ASSUME NEW q \in Requests, Settle(q), Next PROVE ShownInv'
  <2>1. /\ pc[q] = "settling" /\ Move(q, Answered(q)) /\ UNCHANGED <<body, sent>>
        /\ DOMAIN cache = 1 .. 2 /\ DOMAIN pc = Requests /\ text[q] \in Nat
        /\ \/ cache' = cache
           \/ text[q] > 0 /\ cache' = [cache EXCEPT ![pass[q]] = [by |-> q, n |-> text[q]]]
    BY <1>3 DEF Settle, Stores, ChatInv, ChatType
  <2>2. Streams' = Streams
    BY <2>1, SameKinds
  <2> SUFFICES ASSUME NEW r \in Streams, NEW p \in 1 .. 2, cache'[p] # NoEntry, cache'[p].by = r
               PROVE  Entry(r, cache[p].n)'
    BY <2>2 DEF ShownInv, NoEntry
  <2>3. CASE cache'[p] = cache[p]
    <3>1. PICK n : n = cache[p].n
      OBVIOUS
    <3>2. Entry(r, n)'
      BY <1>3, <2>3, <3>1, EntryKept DEF ShownInv
    <3> QED
      BY <2>3, <3>1, <3>2
  <2>4. CASE text[q] > 0 /\ cache'[p] = [by |-> q, n |-> text[q]]
    <3>1. r = q /\ cache'[p].n = text[q]
      BY <2>4
    <3>2. PICK n \in Nat : n = text[q] /\ n > 0
      BY <2>1, <2>4
    <3>3. Heard(q, n)
      BY <2>1, <3>1, <3>2 DEF ChatInv, RequestInv, Open, SoFar
    <3>4. ComesAfter(sent[q], Len(sent[q]) + 1, n)
      BY <3>2, <3>3 DEF Heard
    <3>5. pc'[q] = "done"
      <4>1. Kind(q) # "cascade"
        BY <3>1, KindsApart
      <4> QED
        BY <2>1, <4>1 DEF Move, Answered
    <3>6. Entry(r, n)'
      BY <2>1, <3>1, <3>2, <3>4, <3>5 DEF Entry
    <3> QED
      BY <3>1, <3>2, <3>6
  <2> QED
    BY <2>1, <2>3, <2>4
<1> QED
  BY <1>1, <1>2, <1>3

(***************************************************************************)
(* AnswersAreWhole: the content of the done event is what was streamed,    *)
(* chunk after chunk, over all rounds, retries and turns of tools, and     *)
(* what a stream stores is what it told its client.                        *)
(***************************************************************************)
THEOREM AnswersWhole == Spec => []AnswersAreWhole
<1>1. Init => ShownInv
  BY DEF Init, ShownInv
<1>2. ChatInv /\ ShownInv => AnswersAreWhole
  <2> SUFFICES ASSUME ChatInv, ShownInv PROVE DoneTellsAll /\ StoredIsShown
    BY DEF AnswersAreWhole
  <2>1. \A r \in Browsed : r \in Requests /\ WholeOf(r)
    BY DEF ChatInv, Browsed
  <2>2. DoneTellsAll
    BY <2>1 DEF WholeOf, Follows, DoneTellsAll
  <2>3. StoredIsShown
    BY DEF ShownInv, Entry, StoredIsShown
  <2> QED
    BY <2>2, <2>3
<1> QED
  BY ChatInitially, ChatPreserved, <1>1, ShownPreserved, <1>2, PTL DEF Spec

(***************************************************************************)
(* What a stream has checked for when its client leaves is the one thing   *)
(* it may still start.                                                     *)
(***************************************************************************)
Owes(r) ==
  /\ due[r] \in Int /\ due[r] >= 0
  /\ r \in cancel /\ pc[r] \in Checked => due[r] >= 1

SilentInv == DOMAIN due = Requests /\ \A r \in Streams : Owes(r)

LEMMA OwesKept ==
  ASSUME ChatInv, SilentInv, NEW r \in Streams, r \in Requests,
         Working(r) \/ Chunk(r) \/ EdgeChunk(r) \/ Refused(r) \/ Served(r) \/ Leaves(r)
  PROVE  Owes(r)' /\ DOMAIN due' = Requests
<1>1. /\ DOMAIN pc = Requests /\ DOMAIN due = Requests /\ DOMAIN client = Requests /\ Owes(r)
      /\ (r \in cancel)' <=> client'[r] # "on"
      /\ r \in cancel <=> client[r] # "on"
  BY DEF ChatInv, ChatType, SilentInv, cancel
<1>2. CASE Send(r) \/ ToolsStart(r)
  <2>1. /\ pc[r] \in Checked /\ pc'[r] \in {"opening", "tools"} /\ client' = client
        /\ due' = IF r \in Streams \cap cancel THEN [due EXCEPT ![r] = @ - 1] ELSE due
    BY <1>1, <1>2 DEF Send, ToolsStart, Starts, Move, Checked
  <2>2. due'[r] \in Int /\ due'[r] >= 0 /\ DOMAIN due' = Requests
    BY <1>1, <2>1 DEF Owes
  <2>3. pc'[r] \notin Checked
    BY <2>1 DEF Checked
  <2> QED
    BY <2>2, <2>3 DEF Owes
<1>3. CASE Leaves(r)
  <2>1. /\ pc' = pc
        /\ due' = IF r \in Streams /\ pc[r] \in Checked THEN [due EXCEPT ![r] = 1] ELSE due
    BY <1>3 DEF Leaves
  <2> QED
    BY <1>1, <2>1 DEF Owes
<1>4. CASE Served(r)
  <2>1. /\ UNCHANGED <<pc, due>> /\ sent[r] \in Seq(Event) /\ sent[r] # <<>>
        /\ Last(sent[r]) = Sentinel /\ RequestInv(r)
    BY <1>4 DEF Served, ChatInv, ChatType
  <2>2. Len(sent[r]) \in 1 .. Len(sent[r]) /\ sent[r][Len(sent[r])] = Sentinel
    BY <2>1 DEF Last
  <2>3. pc[r] = "end" \/ pc[r] = "closing"
    BY <2>1, <2>2, Events DEF RequestInv, Open
  <2>4. pc'[r] \notin Checked
    BY <2>1, <2>3 DEF Checked
  <2> QED
    BY <1>1, <2>1, <2>4 DEF Owes
<1>5. CASE ~(Send(r) \/ ToolsStart(r) \/ Leaves(r) \/ Served(r))
  <2>1. UNCHANGED <<due, client>>
    BY <1>5 DEF Working, Start, Acquire, Opened, OpenFails, Wake, ReadFails, RoundEnds, ToolsEnd,
       Settle, Judge, EdgeEnds, Finish, Replayed, Cancelled, Close, Chunk, EdgeChunk, Refused
  <2>2. pc'[r] \in Checked => r \notin cancel \/ pc'[r] = pc[r]
    <3>1. CASE Goes(r)
      BY <3>1 DEF Goes
    <3>2. CASE ~Goes(r)
      <4>1. Judge(r) \/ Replayed(r) \/ Cancelled(r) \/ Close(r)
        BY <1>5, <3>2 DEF Working, Start, Acquire, Opened, OpenFails, Wake, ReadFails, RoundEnds,
           ToolsEnd, Settle, EdgeEnds, Finish, Chunk, EdgeChunk, Refused
      <4>2. pc'[r] \in {"done", "start", "closing", "end"}
        BY <1>1, <4>1 DEF Judge, Replayed, Cancelled, Close, Move
      <4> QED
        BY <4>2 DEF Checked
    <3> QED
      BY <3>1, <3>2
  <2> QED
    BY <1>1, <2>1, <2>2 DEF Owes
<1> QED
  BY <1>2, <1>3, <1>4, <1>5

LEMMA SilentPreserved == ChatInv /\ SilentInv /\ [Next]_vars => SilentInv'
<1> SUFFICES ASSUME ChatInv, SilentInv, [Next]_vars PROVE SilentInv'
  OBVIOUS
<1>1. CASE UNCHANGED vars \/ Over
  <2>1. UNCHANGED <<body, pc, client, due>>
    BY <1>1 DEF vars, Over
  <2> QED
    BY <2>1 DEF SilentInv, Owes, Streams, Kind, cancel
<1>2. ASSUME NEW q \in Requests,
             Working(q) \/ Chunk(q) \/ EdgeChunk(q) \/ Refused(q) \/ Served(q) \/ Leaves(q)
      PROVE  SilentInv'
  <2>1. body' = body /\ Streams' = Streams
    <3>1. body' = body
      BY <1>2 DEF Working, Start, Acquire, Send, Opened, OpenFails, Wake, ReadFails, RoundEnds,
         ToolsStart, ToolsEnd, Settle, Judge, EdgeEnds, Finish, Replayed, Cancelled, Close, Chunk,
         EdgeChunk, Refused, Served, Leaves
    <3> QED
      BY <3>1, SameKinds
  <2>2. DOMAIN due' = Requests /\ \A r \in Requests : r # q => due'[r] = due[r]
    BY <1>2 DEF SilentInv, Working, Start, Acquire, Send, Opened, OpenFails, Wake, ReadFails,
       RoundEnds, ToolsStart, ToolsEnd, Settle, Judge, EdgeEnds, Finish, Replayed, Cancelled,
       Close, Chunk, EdgeChunk, Refused, Served, Leaves, Starts
  <2>3. ASSUME NEW r \in Streams, r # q PROVE Owes(r)'
    <3>1. r \in Requests
      BY DEF Streams
    <3>2. pc'[r] = pc[r] /\ client'[r] = client[r] /\ due'[r] = due[r]
      BY <1>2, <2>2, <2>3, <3>1, OthersRest
    <3> QED
      BY <3>1, <3>2 DEF SilentInv, Owes, cancel
  <2>4. q \in Streams => Owes(q)'
    BY <1>2, OwesKept
  <2> QED
    BY <2>1, <2>2, <2>3, <2>4 DEF SilentInv
<1> QED
  BY <1>1, <1>2 DEF Next

(***************************************************************************)
(* SendsWhatItChecked: once its client has left, a stream starts at most   *)
(* the one request or turn of tools whose check it had passed by then.     *)
(***************************************************************************)
THEOREM SendsOnlyTheChecked == Spec => []SendsWhatItChecked
<1>1. Init => SilentInv
  <2> SUFFICES ASSUME Init PROVE SilentInv
    OBVIOUS
  <2>1. DOMAIN due = Requests /\ \A r \in Requests : due[r] = 0 /\ pc[r] = "start"
    BY DEF Init
  <2>2. \A r \in Requests : pc[r] \notin Checked
    BY <2>1 DEF Checked
  <2> QED
    BY <2>1, <2>2 DEF SilentInv, Owes, Streams
<1>2. SilentInv => SendsWhatItChecked
  BY DEF SilentInv, Owes, SendsWhatItChecked
<1> QED
  BY ChatInitially, ChatPreserved, <1>1, SilentPreserved, <1>2, PTL DEF Spec
=============================================================================
