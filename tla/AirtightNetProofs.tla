-------------------------- MODULE AirtightNetProofs --------------------------
(***************************************************************************)
(* The network for any flows, sizes of queues, faults and refusals: a      *)
(* frame that an application has made is never lost without a reason, nor  *)
(* delivered more often than it was copied.                                *)
(***************************************************************************)
EXTENDS AirtightNet, FiniteSetTheorems, TLAPS

-----------------------------------------------------------------------------
(* The inductive invariant.                                                *)

Causes == HIReasons \union {"refused", "discarded"}

NetTypes ==
  /\ packetsSent \in [Flow -> Nat] /\ \A fl \in Flow : packetsSent[fl] <= MaxSeq[fl]
  /\ ring \in [Node -> [Prio -> Seq(0 .. QUEUE_SIZE - 1)]]
  /\ cell \in [Node -> [Prio -> [Row -> Frame \union {NoFrame}]]]
  /\ hiCritMode \in [Node -> BOOLEAN]
  /\ node_ack_fails \in [Node -> 0 .. BEST_EFFORT_LIMIT - 1]
  /\ activeFault \in [Node -> BOOLEAN]
  /\ selfDataPkt \in [Node -> Frame \union {NoFrame}]
  /\ ackFlag \in [Node -> BOOLEAN]
  /\ inbox \in [Node -> Seq(Frame)]
  /\ fate \in [Frame -> SUBSET Causes]
  /\ deliveries \in [Frame -> Nat] /\ copies \in [Frame -> Nat]

\* Queues hold frames of their priority, at a node on their way.
RowOK(n, p, i) ==
  LET f == cell[n][p][ring[n][p][i]] IN
  f \in Frame /\ PrioOf(f) = p /\ n \in Carriers(f.flow)
QueueInv ==
  \A n \in Node, p \in Prio :
    /\ Len(ring[n][p]) <= QUEUE_SIZE
    /\ \A i \in DOMAIN ring[n][p] : RowOK(n, p, i)

InboxInv ==
  \A n \in Node :
    /\ Len(inbox[n]) <= RECEIVE_QUEUE_SIZE
    /\ \A i \in DOMAIN inbox[n] :
         DstOf[inbox[n][i].flow] = n \/ n \in Carriers(inbox[n][i].flow)

\* The frame being sent is at the head of its queue; or its cell has been
\* reused, and then another entry of the queue leads to the new frame.
AtHead(n, f) ==
  LET q == ring[n][PrioOf(f)] IN
  /\ q # <<>>
  /\ \/ cell[n][PrioOf(f)][q[1]] = f
     \/ \E j \in DOMAIN q : j # 1 /\ q[j] = q[1]
SendingInv ==
  \A n \in Node : selfDataPkt[n] # NoFrame =>
    n \in Carriers(selfDataPkt[n].flow) /\ AtHead(n, selfDataPkt[n])

Kept(f) == Queued(f) \/ Underway(f) \/ deliveries[f] > 0 \/ fate[f] # {}
Custody == \A f \in Frame : f.seq < packetsSent[f.flow] => Kept(f)
HICauses == \A f \in Frame : CritOf[f.flow] = "HI" => fate[f] \subseteq HIReasons

NetInv ==
  NetTypes /\ QueueInv /\ InboxInv /\ SendingInv /\ Custody /\ HICauses

-----------------------------------------------------------------------------
(* Frames, routes and sequences.                                           *)

LEMMA FrameFacts ==
  ASSUME NEW f \in Frame
  PROVE  /\ f.flow \in Flow /\ f.seq \in Nat /\ f.seq < MaxSeq[f.flow]
         /\ f = [flow |-> f.flow, seq |-> f.seq]
         /\ PrioOf(f) \in Prio /\ DstOf[f.flow] \in Node /\ SrcOf[f.flow] \in Node
<1>1. /\ SrcOf \in [Flow -> Node] /\ DstOf \in [Flow -> Node]
      /\ PriorityOf \in [Flow -> Prio] /\ MaxSeq \in [Flow -> Nat \ {0}]
  BY NetAssumption
<1>2. PICK fl \in Flow : f \in [flow : {fl}, seq : 0 .. MaxSeq[fl] - 1]
  BY DEF Frame
<1>3. /\ f.flow = fl /\ f.seq \in 0 .. MaxSeq[fl] - 1
      /\ f = [flow |-> f.flow, seq |-> f.seq]
  BY <1>2
<1>4. MaxSeq[fl] \in Nat
  BY <1>1
<1>. QED
  BY <1>1, <1>3, <1>4 DEF PrioOf

LEMMA MadeFrame ==
  ASSUME NEW fl \in Flow, NEW s \in Nat, s < MaxSeq[fl]
  PROVE  [flow |-> fl, seq |-> s] \in Frame
<1>1. MaxSeq[fl] \in Nat
  BY NetAssumption
<1>2. [flow |-> fl, seq |-> s] \in [flow : {fl}, seq : 0 .. MaxSeq[fl] - 1]
  BY <1>1
<1>. QED
  BY <1>2 DEF Frame

\* A frame goes to its destination or to a node that carries it on.
LEMMA NextHop ==
  ASSUME NEW f \in Frame, NEW n \in Carriers(f.flow)
  PROVE  LET m == route_next_hop(n, DstOf[f.flow]) IN
         /\ n \in Node /\ m \in Node
         /\ m = DstOf[f.flow] \/ m \in Carriers(f.flow)
<1>1. /\ SrcOf[f.flow] \in Node /\ DstOf[f.flow] \in Node
      /\ Node \subseteq 0 .. 4 /\ 0 \in Node
  BY FrameFacts, NetAssumption
<1>2. n = SrcOf[f.flow] \/ (n = 0 /\ AcrossSink(SrcOf[f.flow], DstOf[f.flow]))
  BY DEF Carriers
<1>3. \A d : ~ AcrossSink(0, d)
  BY DEF AcrossSink
<1>. QED
  BY <1>1, <1>2, <1>3 DEF route_next_hop, Carriers

\* A HI frame is where its priority is a HI priority, a LO frame where not.
LEMMA CritFacts ==
  ASSUME NEW f \in Frame, NEW n \in Carriers(f.flow)
  PROVE  /\ CritOf[f.flow] \in {"LO", "HI"}
         /\ CritOf[f.flow] = "HI" <=> PrioOf(f) \in HiCritOf[n]
<1>1. f.flow \in Flow /\ CritOf \in [Flow -> {"LO", "HI"}]
  BY FrameFacts, NetAssumption
<1>. QED
  BY <1>1, CritMatchesPriority DEF PrioOf

LEMMA FirstOfIsLeast ==
  ASSUME NEW S \in SUBSET Prio, S # {}
  PROVE  FirstOf(S) \in S
<1>1. \E p \in S : \A r \in S : p <= r
  <2>0. \A r \in S : r \in {1, 2, 3}
    BY DEF Prio
  <2>1. CASE 1 \in S
    BY <2>0, <2>1
  <2>2. CASE 1 \notin S /\ 2 \in S
    BY <2>0, <2>2
  <2>3. CASE 1 \notin S /\ 2 \notin S
    BY <2>0, <2>3
  <2>. QED
    BY <2>1, <2>2, <2>3
<1>. QED
  BY <1>1 DEF FirstOf

LEMMA SeqFacts ==
  ASSUME NEW S, NEW s \in Seq(S)
  PROVE  /\ Len(s) \in Nat /\ DOMAIN s = 1 .. Len(s)
         /\ \A i \in DOMAIN s : s[i] \in S
  OBVIOUS

LEMMA AppendFacts ==
  ASSUME NEW S, NEW s \in Seq(S), NEW x \in S
  PROVE  /\ Append(s, x) \in Seq(S) /\ Len(Append(s, x)) = Len(s) + 1
         /\ DOMAIN s = 1 .. Len(s) /\ DOMAIN Append(s, x) = 1 .. Len(s) + 1
         /\ \A i \in 1 .. Len(s) : Append(s, x)[i] = s[i]
         /\ Append(s, x)[Len(s) + 1] = x
         /\ Len(s) \in Nat
  OBVIOUS

LEMMA TailFacts ==
  ASSUME NEW S, NEW s \in Seq(S), s # <<>>
  PROVE  /\ Tail(s) \in Seq(S) /\ Len(Tail(s)) = Len(s) - 1
         /\ DOMAIN s = 1 .. Len(s) /\ DOMAIN Tail(s) = 1 .. Len(s) - 1
         /\ \A i \in 1 .. Len(s) - 1 : Tail(s)[i] = s[i + 1]
         /\ Head(s) = s[1] /\ 1 \in DOMAIN s /\ s[1] \in S /\ Len(s) \in Nat \ {0}
  OBVIOUS

LEMMA TailEntries ==
  ASSUME NEW S, NEW s \in Seq(S), s # <<>>
  PROVE  /\ Tail(s) \in Seq(S) /\ Len(Tail(s)) = Len(s) - 1
         /\ \A i \in DOMAIN Tail(s) : \E j \in DOMAIN s : Tail(s)[i] = s[j]
         /\ \A i \in DOMAIN s : i = 1 \/ \E j \in DOMAIN Tail(s) : Tail(s)[j] = s[i]
<1> DEFINE t == Tail(s)
           l == Len(s)
<1>1. /\ t \in Seq(S) /\ Len(t) = l - 1 /\ l \in Nat \ {0}
      /\ DOMAIN s = 1 .. l /\ DOMAIN t = 1 .. l - 1
      /\ \A i \in 1 .. l - 1 : t[i] = s[i + 1]
  BY TailFacts
<1>. HIDE DEF t, l
<1>2. ASSUME NEW i \in DOMAIN t
      PROVE  \E j \in DOMAIN s : t[i] = s[j]
  <2>1. i + 1 \in DOMAIN s /\ t[i] = s[i + 1]
    BY <1>1
  <2>. QED
    BY <2>1
<1>3. ASSUME NEW i \in DOMAIN s, i # 1
      PROVE  \E j \in DOMAIN t : t[j] = s[i]
  <2>1. i - 1 \in 1 .. l - 1 /\ (i - 1) + 1 = i
    BY <1>1, <1>3
  <2>2. t[i - 1] = s[(i - 1) + 1]
    BY <1>1, <2>1
  <2>. QED
    BY <1>1, <2>1, <2>2
<1>. QED
  BY <1>1, <1>2, <1>3 DEF t, l

-----------------------------------------------------------------------------
(* What becomes of the frames of a queue.                                  *)

LEMMA QueueTypes ==
  ASSUME NetTypes, QueueInv, NEW n \in Node, NEW p \in Prio
  PROVE  /\ ring[n][p] \in Seq(0 .. QUEUE_SIZE - 1)
         /\ Len(ring[n][p]) \in 0 .. QUEUE_SIZE
         /\ cell[n][p] \in [Row -> Frame \union {NoFrame}]
         /\ 0 .. QUEUE_SIZE - 1 \subseteq Row /\ QUEUE_SIZE \in Row
         /\ Len(ring[n][p]) \in Row
         /\ Len(ring[n][p]) # QUEUE_SIZE => Len(ring[n][p]) \in 0 .. QUEUE_SIZE - 1
         /\ \A i \in DOMAIN ring[n][p] : ring[n][p][i] \in 0 .. QUEUE_SIZE - 1
<1>1. QUEUE_SIZE \in Nat \ {0}
  BY NetAssumption
<1>2. /\ ring[n][p] \in Seq(0 .. QUEUE_SIZE - 1)
      /\ cell[n][p] \in [Row -> Frame \union {NoFrame}]
      /\ Len(ring[n][p]) <= QUEUE_SIZE
  BY DEF NetTypes, QueueInv
<1>3. /\ Len(ring[n][p]) \in Nat
      /\ \A i \in DOMAIN ring[n][p] : ring[n][p][i] \in 0 .. QUEUE_SIZE - 1
  BY <1>2, SeqFacts
<1>. QED
  BY <1>1, <1>2, <1>3 DEF Row

\* Queues from which frames are only taken keep the invariant.
Shrinks(n, q) ==
  /\ q \in [Prio -> Seq(0 .. QUEUE_SIZE - 1)]
  /\ \A p \in Prio : \/ q[p] = ring[n][p] \/ q[p] = <<>>
                     \/ ring[n][p] # <<>> /\ q[p] = Tail(ring[n][p])
ShrinksBy(n, q, lost) ==
  /\ q \in [Prio -> Seq(0 .. QUEUE_SIZE - 1)]
  /\ \A p \in Prio :
       \/ q[p] = ring[n][p]
       \/ q[p] = <<>> /\ QueuedAt(n, p) \subseteq lost
       \/ ring[n][p] # <<>> /\ q[p] = Tail(ring[n][p]) /\ HeadOfQueue(n, p) \subseteq lost

LEMMA ShrinksByShrinks ==
  ASSUME NEW n, NEW q, NEW lost, ShrinksBy(n, q, lost)
  PROVE  Shrinks(n, q)
  BY DEF ShrinksBy, Shrinks

LEMMA QueueShrinks ==
  ASSUME NetTypes, QueueInv, NEW n \in Node, NEW q, UNCHANGED cell,
         ring' = [ring EXCEPT ![n] = q], Shrinks(n, q)
  PROVE  /\ ring' \in [Node -> [Prio -> Seq(0 .. QUEUE_SIZE - 1)]]
         /\ QueueInv'
         /\ \A m \in Node \ {n} : ring'[m] = ring[m]
         /\ \A p \in Prio : ring'[n][p] = q[p]
         /\ \A p \in Prio :
              /\ q[p] = ring[n][p] => QueuedAt(n, p)' = QueuedAt(n, p)
              /\ ring[n][p] # <<>> /\ q[p] = Tail(ring[n][p])
                 => QueuedAt(n, p) \subseteq QueuedAt(n, p)' \union HeadOfQueue(n, p)
<1>1. /\ ring \in [Node -> [Prio -> Seq(0 .. QUEUE_SIZE - 1)]]
      /\ ring'[n] = q /\ \A m \in Node \ {n} : ring'[m] = ring[m]
      /\ q \in [Prio -> Seq(0 .. QUEUE_SIZE - 1)]
      /\ \A p \in Prio : \/ q[p] = ring[n][p] \/ q[p] = <<>>
                         \/ ring[n][p] # <<>> /\ q[p] = Tail(ring[n][p])
  BY DEF NetTypes, Shrinks
<1>2. ASSUME NEW p \in Prio
      PROVE  /\ q[p] \in Seq(0 .. QUEUE_SIZE - 1) /\ Len(q[p]) <= QUEUE_SIZE
             /\ \A i \in DOMAIN q[p] : \E j \in DOMAIN ring[n][p] : q[p][i] = ring[n][p][j]
             /\ ring[n][p] # <<>> /\ q[p] = Tail(ring[n][p])
                => \A i \in DOMAIN ring[n][p] :
                     i = 1 \/ \E j \in DOMAIN q[p] : q[p][j] = ring[n][p][i]
  <2>1. /\ ring[n][p] \in Seq(0 .. QUEUE_SIZE - 1) /\ Len(ring[n][p]) \in 0 .. QUEUE_SIZE
        /\ QUEUE_SIZE \in Nat
    BY QueueTypes, NetAssumption
  <2>2. CASE q[p] = ring[n][p] /\ ~ (ring[n][p] # <<>> /\ q[p] = Tail(ring[n][p]))
    BY <2>1, <2>2
  <2>3. CASE q[p] = <<>> /\ ~ (ring[n][p] # <<>> /\ q[p] = Tail(ring[n][p]))
    BY <2>1, <2>3
  <2>4. CASE ring[n][p] # <<>> /\ q[p] = Tail(ring[n][p])
    <3>1. /\ q[p] \in Seq(0 .. QUEUE_SIZE - 1) /\ Len(q[p]) = Len(ring[n][p]) - 1
          /\ \A i \in DOMAIN q[p] : \E j \in DOMAIN ring[n][p] : q[p][i] = ring[n][p][j]
          /\ \A i \in DOMAIN ring[n][p] :
               i = 1 \/ \E j \in DOMAIN q[p] : q[p][j] = ring[n][p][i]
      <4>1. ring[n][p] \in Seq(0 .. QUEUE_SIZE - 1) /\ ring[n][p] # <<>>
        BY <2>1, <2>4
      <4>2. q[p] = Tail(ring[n][p])
        BY <2>4
      <4> DEFINE r == ring[n][p]
                 t == q[p]
      <4>3. r \in Seq(0 .. QUEUE_SIZE - 1) /\ r # <<>> /\ t = Tail(r)
        BY <4>1, <4>2
      <4>. HIDE DEF r, t
      <4>4. /\ t \in Seq(0 .. QUEUE_SIZE - 1) /\ Len(t) = Len(r) - 1
            /\ \A i \in DOMAIN t : \E j \in DOMAIN r : t[i] = r[j]
            /\ \A i \in DOMAIN r : i = 1 \/ \E j \in DOMAIN t : t[j] = r[i]
        BY <4>3, TailEntries
      <4>. QED
        BY <4>4 DEF r, t
    <3>2. Len(q[p]) <= QUEUE_SIZE
      BY <2>1, <3>1
    <3>. QED
      BY <3>1, <3>2
  <2>. QED
    BY <1>1, <2>2, <2>3, <2>4
<1>3. q \in [Prio -> Seq(0 .. QUEUE_SIZE - 1)]
  BY <1>1
<1>4. ring' \in [Node -> [Prio -> Seq(0 .. QUEUE_SIZE - 1)]]
  BY <1>1, <1>3
<1>5. QueueInv'
  <2>1. ASSUME NEW m \in Node, NEW p \in Prio
        PROVE  /\ Len(ring'[m][p]) <= QUEUE_SIZE
               /\ \A i \in DOMAIN ring'[m][p] : RowOK(m, p, i)'
    <3>1. CASE m # n
      BY <1>1, <3>1 DEF QueueInv, RowOK
    <3>2. CASE m = n
      <4>1. ASSUME NEW i \in DOMAIN q[p]
            PROVE  RowOK(n, p, i)'
        <5>1. PICK j \in DOMAIN ring[n][p] : q[p][i] = ring[n][p][j]
          BY <1>2
        <5>2. RowOK(n, p, j)
          BY DEF QueueInv
        <5>. QED
          BY <1>1, <5>1, <5>2 DEF RowOK
      <4>. QED
        BY <1>1, <1>2, <3>2, <4>1
    <3>. QED
      BY <3>1, <3>2
  <2>. QED
    BY <2>1 DEF QueueInv
<1>6. ASSUME NEW p \in Prio
      PROVE  /\ q[p] = ring[n][p] => QueuedAt(n, p)' = QueuedAt(n, p)
             /\ ring[n][p] # <<>> /\ q[p] = Tail(ring[n][p])
                => QueuedAt(n, p) \subseteq QueuedAt(n, p)' \union HeadOfQueue(n, p)
  <2>1. q[p] = ring[n][p] => QueuedAt(n, p)' = QueuedAt(n, p)
    BY <1>1 DEF QueuedAt
  <2>2. ASSUME ring[n][p] # <<>>, q[p] = Tail(ring[n][p]), NEW g \in QueuedAt(n, p)
        PROVE  g \in QueuedAt(n, p)' \union HeadOfQueue(n, p)
    <3>1. PICK i \in DOMAIN ring[n][p] : g = cell[n][p][ring[n][p][i]]
      BY <2>2 DEF QueuedAt
    <3>2. CASE i = 1
      <4>1. Head(ring[n][p]) = ring[n][p][1]
        BY <2>2, QueueTypes, TailFacts
      <4>. QED
        BY <2>2, <3>1, <3>2, <4>1 DEF HeadOfQueue
    <3>3. CASE i # 1
      <4>1. PICK j \in DOMAIN q[p] : q[p][j] = ring[n][p][i]
        BY <1>2, <2>2, <3>3
      <4>. QED
        BY <1>1, <3>1, <4>1 DEF QueuedAt
    <3>. QED
      BY <3>2, <3>3
  <2>. QED
    BY <2>1, <2>2
<1>. QED
  BY <1>1, <1>4, <1>5, <1>6

LEMMA LostFacts ==
  ASSUME fate \in [Frame -> SUBSET Causes], NEW frames, NEW cause \in Causes,
         Lost(frames, cause)
  PROVE  /\ fate' \in [Frame -> SUBSET Causes]
         /\ \A g \in Frame :
              /\ fate[g] \subseteq fate'[g]
              /\ IF g \in frames THEN cause \in fate'[g] /\ fate'[g] # {}
                                      /\ fate'[g] \subseteq fate[g] \union {cause}
                                 ELSE fate'[g] = fate[g]
<1>1. fate' = [f \in Frame |-> IF f \in frames THEN fate[f] \union {cause} ELSE fate[f]]
  BY DEF Lost
<1>2. \A g \in Frame : fate[g] \in SUBSET Causes
  OBVIOUS
<1>3. fate' \in [Frame -> SUBSET Causes]
  BY <1>1, <1>2
<1>. QED
  BY <1>1, <1>3

LEMMA QueueAfterEnqueue ==
  ASSUME NEW size \in Nat \ {0}, NEW s \in Seq(0 .. size - 1), NEW row, row = Len(s),
         row <= size, NEW t, t = IF row = size THEN s ELSE Append(s, row)
  PROVE  /\ Len(t) <= size
         /\ t # <<>> \/ s = <<>>
         /\ \A i \in DOMAIN s : i \in DOMAIN t /\ t[i] = s[i] /\ s[i] \in 0 .. size - 1
         /\ \A i \in DOMAIN t : i \in DOMAIN s \/ t[i] = row
         /\ row # size => \E j \in DOMAIN t : t[j] = row /\ j = row + 1 /\ (s # <<>> => j # 1)
<1>1. \A i \in DOMAIN s : s[i] \in 0 .. size - 1
  BY SeqFacts
<1>2. CASE row = size
  BY <1>1, <1>2
<1>3. CASE row # size
  <2>1. row \in 0 .. size - 1 /\ t = Append(s, row)
    BY <1>3
  <2>2. /\ Len(t) = row + 1 /\ DOMAIN s = 1 .. row /\ DOMAIN t = 1 .. row + 1
        /\ \A i \in 1 .. row : t[i] = s[i]
        /\ t[row + 1] = row /\ row \in Nat
    BY <2>1, AppendFacts
  <2>3. row + 1 \in DOMAIN t /\ (s # <<>> => row + 1 # 1) /\ t # <<>>
    BY <2>2
  <2>. QED
    BY <1>1, <1>3, <2>1, <2>2, <2>3
<1>. QED
  BY <1>2, <1>3

\* The shape of what an insertion leaves behind: the old entries of the
\* queue and, if there was room, one more.
LEMMA EnqueueShape ==
  ASSUME NetTypes, QueueInv, NEW n \in Node, NEW f \in Frame, Enqueue(n, f),
         NEW p, p = PrioOf(f), NEW row, row = Len(ring[n][p])
  PROVE  /\ p \in Prio /\ row \in Row /\ QUEUE_SIZE \in Row
         /\ row # QUEUE_SIZE => row \in 0 .. QUEUE_SIZE - 1 /\ row + 1 <= QUEUE_SIZE
         /\ 0 .. QUEUE_SIZE - 1 \subseteq Row /\ QUEUE_SIZE \notin 0 .. QUEUE_SIZE - 1
         /\ row \in 0 .. QUEUE_SIZE
         /\ Cardinality(Overwritten(n, p, row)) \in Nat
         /\ cell' \in [Node -> [Prio -> [Row -> Frame \union {NoFrame}]]]
         /\ cell'[n][p][row] = f
         /\ \A m \in Node, r \in Prio, x \in Row :
              ~ (m = n /\ r = p /\ x = row) => cell'[m][r][x] = cell[m][r][x]
         /\ ring' \in [Node -> [Prio -> Seq(0 .. QUEUE_SIZE - 1)]]
         /\ \A m \in Node, r \in Prio : ~ (m = n /\ r = p) => ring'[m][r] = ring[m][r]
         /\ IF row = QUEUE_SIZE THEN ring'[n][p] = ring[n][p]
                                ELSE ring'[n][p] = Append(ring[n][p], row)
         /\ Len(ring'[n][p]) <= QUEUE_SIZE
         /\ ring'[n][p] # <<>> \/ ring[n][p] = <<>>
         /\ \A i \in DOMAIN ring[n][p] :
              /\ i \in DOMAIN ring'[n][p] /\ ring'[n][p][i] = ring[n][p][i]
              /\ ring[n][p][i] \in 0 .. QUEUE_SIZE - 1
         /\ \A i \in DOMAIN ring'[n][p] : i \in DOMAIN ring[n][p] \/ ring'[n][p][i] = row
         /\ row # QUEUE_SIZE => \E j \in DOMAIN ring'[n][p] :
              /\ ring'[n][p][j] = row
              /\ j = row + 1 /\ (ring[n][p] # <<>> => j # 1)
<1> DEFINE shared == Overwritten(n, p, row)
<1>1. /\ p \in Prio /\ row \in Row /\ QUEUE_SIZE \in Row
      /\ row # QUEUE_SIZE => row \in 0 .. QUEUE_SIZE - 1 /\ row + 1 <= QUEUE_SIZE
      /\ 0 .. QUEUE_SIZE - 1 \subseteq Row /\ QUEUE_SIZE \notin 0 .. QUEUE_SIZE - 1
      /\ row \in 0 .. QUEUE_SIZE
  <2>1. p \in Prio /\ QUEUE_SIZE \in Nat \ {0}
    BY FrameFacts, NetAssumption
  <2>2. row \in 0 .. QUEUE_SIZE
    BY <2>1, QueueTypes
  <2>. QED
    BY <2>1, <2>2 DEF Row
<1>2. /\ cell' = [cell EXCEPT ![n][p][row] = f]
      /\ IF row = QUEUE_SIZE
         THEN Lost({f}, "ringFull") /\ UNCHANGED <<ring, copies>>
         ELSE /\ ring' = [ring EXCEPT ![n][p] = Append(@, row)]
              /\ Lost(IF shared = {} THEN {} ELSE {cell[n][p][row]}, "overwritten")
              /\ copies' = [copies EXCEPT ![f] = @ + Cardinality(shared)]
  BY DEF Enqueue
<1>3. /\ cell \in [Node -> [Prio -> [Row -> Frame \union {NoFrame}]]]
      /\ ring \in [Node -> [Prio -> Seq(0 .. QUEUE_SIZE - 1)]]
      /\ copies \in [Frame -> Nat] /\ fate \in [Frame -> SUBSET Causes]
  BY DEF NetTypes
<1>4. Cardinality(shared) \in Nat
  <2>1. row \in Nat /\ DOMAIN ring[n][p] = 1 .. row
    BY <1>1, <1>3, SeqFacts
  <2>2. shared \subseteq 1 .. row /\ IsFiniteSet(1 .. row)
    BY <2>1, FS_Interval DEF Overwritten
  <2>. QED
    BY <2>2, FS_Subset, FS_CardinalityType
<1>. HIDE DEF shared
<1>5. /\ cell' \in [Node -> [Prio -> [Row -> Frame \union {NoFrame}]]]
      /\ cell'[n][p][row] = f
      /\ \A m \in Node, r \in Prio, x \in Row :
           ~ (m = n /\ r = p /\ x = row) => cell'[m][r][x] = cell[m][r][x]
  BY <1>1, <1>2, <1>3
<1>8. /\ ring' \in [Node -> [Prio -> Seq(0 .. QUEUE_SIZE - 1)]]
      /\ \A m \in Node, r \in Prio : ~ (m = n /\ r = p) => ring'[m][r] = ring[m][r]
      /\ IF row = QUEUE_SIZE THEN ring'[n][p] = ring[n][p]
                             ELSE ring'[n][p] = Append(ring[n][p], row)
  <2>1. CASE row = QUEUE_SIZE
    BY <1>2, <1>3, <2>1
  <2>2. CASE row # QUEUE_SIZE
    <3> DEFINE q == [ring[n] EXCEPT ![p] = Append(@, row)]
    <3>1. ring[n] \in [Prio -> Seq(0 .. QUEUE_SIZE - 1)] /\ row \in 0 .. QUEUE_SIZE - 1
      BY <1>1, <1>3, <2>2
    <3>2. Append(ring[n][p], row) \in Seq(0 .. QUEUE_SIZE - 1)
      BY <1>1, <3>1, AppendFacts
    <3>3. /\ q \in [Prio -> Seq(0 .. QUEUE_SIZE - 1)]
          /\ q[p] = Append(ring[n][p], row)
          /\ \A r \in Prio : r # p => q[r] = ring[n][r]
      BY <1>1, <3>1, <3>2
    <3>4. ring' = [ring EXCEPT ![n] = q]
      BY <1>2, <2>2
    <3>. HIDE DEF q
    <3>5. ring'[n] = q /\ \A m \in Node : m # n => ring'[m] = ring[m]
      BY <1>3, <3>4
    <3>6. ring' \in [Node -> [Prio -> Seq(0 .. QUEUE_SIZE - 1)]]
      BY <1>3, <3>3, <3>4
    <3>. QED
      BY <1>1, <2>2, <3>3, <3>5, <3>6
  <2>. QED
    BY <2>1, <2>2
\* The new queue of f: the old entries, and, if there was room, one more.
<1>9. /\ Len(ring'[n][p]) <= QUEUE_SIZE
      /\ ring'[n][p] # <<>> \/ ring[n][p] = <<>>
      /\ \A i \in DOMAIN ring[n][p] :
           /\ i \in DOMAIN ring'[n][p] /\ ring'[n][p][i] = ring[n][p][i]
           /\ ring[n][p][i] \in 0 .. QUEUE_SIZE - 1
      /\ \A i \in DOMAIN ring'[n][p] : i \in DOMAIN ring[n][p] \/ ring'[n][p][i] = row
      /\ row # QUEUE_SIZE => \E j \in DOMAIN ring'[n][p] :
           /\ ring'[n][p][j] = row
           /\ j = row + 1 /\ (ring[n][p] # <<>> => j # 1)
  <2> DEFINE s == ring[n][p]
             t == ring'[n][p]
  <2>1. /\ s \in Seq(0 .. QUEUE_SIZE - 1) /\ row = Len(s) /\ row <= QUEUE_SIZE
        /\ t = IF row = QUEUE_SIZE THEN s ELSE Append(s, row)
        /\ QUEUE_SIZE \in Nat \ {0}
    <3>1. s \in Seq(0 .. QUEUE_SIZE - 1) /\ row = Len(s)
      BY <1>1, <1>3
    <3>2. QUEUE_SIZE \in Nat \ {0}
      BY NetAssumption
    <3>3. row <= QUEUE_SIZE
      BY <1>1, <3>2
    <3>4. t = IF row = QUEUE_SIZE THEN s ELSE Append(s, row)
      BY <1>8
    <3>. QED
      BY <3>1, <3>2, <3>3, <3>4
  <2>. HIDE DEF s, t
  <2>2. /\ Len(t) <= QUEUE_SIZE
        /\ t # <<>> \/ s = <<>>
        /\ \A i \in DOMAIN s : i \in DOMAIN t /\ t[i] = s[i] /\ s[i] \in 0 .. QUEUE_SIZE - 1
        /\ \A i \in DOMAIN t : i \in DOMAIN s \/ t[i] = row
        /\ row # QUEUE_SIZE => \E j \in DOMAIN t : t[j] = row /\ j = row + 1
                                                 /\ (s # <<>> => j # 1)
    BY <2>1, QueueAfterEnqueue
  <2>. QED
    BY <2>2 DEF s, t
<1>. QED
  BY <1>1, <1>4, <1>5, <1>8, <1>9 DEF shared

\* A frame that is put into a queue is there or counts as lost, and so is
\* every other, and the one being sent is still found by its priority.
LEMMA EnqueueKeeps ==
  ASSUME NetTypes, QueueInv, NEW n \in Node, NEW f \in Frame, n \in Carriers(f.flow),
         Enqueue(n, f)
  PROVE  /\ ring' \in [Node -> [Prio -> Seq(0 .. QUEUE_SIZE - 1)]]
         /\ cell' \in [Node -> [Prio -> [Row -> Frame \union {NoFrame}]]]
         /\ copies' \in [Frame -> Nat] /\ fate' \in [Frame -> SUBSET Causes]
         /\ QueueInv'
         /\ \A g \in Frame : /\ fate[g] \subseteq fate'[g]
                             /\ fate'[g] \subseteq fate[g] \union {"ringFull", "overwritten"}
                             /\ Queued(g) \/ g = f => Queued(g)' \/ fate'[g] # {}
         /\ \A m \in Node, g \in Frame : AtHead(m, g) => AtHead(m, g)'
<1>0. PICK p, row : p = PrioOf(f) /\ row = Len(ring[n][p])
  OBVIOUS
<1> DEFINE shared == Overwritten(n, p, row)
<1>1. /\ p \in Prio /\ row \in Row /\ QUEUE_SIZE \in Row
      /\ row # QUEUE_SIZE => row \in 0 .. QUEUE_SIZE - 1 /\ row + 1 <= QUEUE_SIZE
      /\ 0 .. QUEUE_SIZE - 1 \subseteq Row /\ QUEUE_SIZE \notin 0 .. QUEUE_SIZE - 1
      /\ row \in 0 .. QUEUE_SIZE
  BY <1>0, EnqueueShape
<1>2. /\ cell' = [cell EXCEPT ![n][p][row] = f]
      /\ IF row = QUEUE_SIZE
         THEN Lost({f}, "ringFull") /\ UNCHANGED <<ring, copies>>
         ELSE /\ ring' = [ring EXCEPT ![n][p] = Append(@, row)]
              /\ Lost(IF shared = {} THEN {} ELSE {cell[n][p][row]}, "overwritten")
              /\ copies' = [copies EXCEPT ![f] = @ + Cardinality(shared)]
  BY <1>0 DEF Enqueue
<1>3. /\ cell \in [Node -> [Prio -> [Row -> Frame \union {NoFrame}]]]
      /\ ring \in [Node -> [Prio -> Seq(0 .. QUEUE_SIZE - 1)]]
      /\ copies \in [Frame -> Nat] /\ fate \in [Frame -> SUBSET Causes]
  BY DEF NetTypes
<1>4. Cardinality(shared) \in Nat
  BY <1>0, EnqueueShape
<1>. HIDE DEF shared
<1>5. /\ cell' \in [Node -> [Prio -> [Row -> Frame \union {NoFrame}]]]
      /\ cell'[n][p][row] = f
      /\ \A m \in Node, r \in Prio, x \in Row :
           ~ (m = n /\ r = p /\ x = row) => cell'[m][r][x] = cell[m][r][x]
  BY <1>0, EnqueueShape
<1>6. copies' \in [Frame -> Nat]
  BY <1>2, <1>3, <1>4
<1>7. /\ fate' \in [Frame -> SUBSET Causes]
      /\ \A g \in Frame : /\ fate[g] \subseteq fate'[g]
                          /\ fate'[g] \subseteq fate[g] \union {"ringFull", "overwritten"}
      /\ row = QUEUE_SIZE => fate'[f] # {}
      /\ row # QUEUE_SIZE => \A g \in Frame :
           shared # {} /\ g = cell[n][p][row] => fate'[g] # {}
  <2>1. {"ringFull", "overwritten"} \subseteq Causes
    BY DEF Causes, HIReasons
  <2>2. CASE row = QUEUE_SIZE
    <3> DEFINE frames == {f}
    <3>1. Lost(frames, "ringFull")
      BY <1>2, <2>2
    <3>. HIDE DEF frames
    <3>2. /\ fate' \in [Frame -> SUBSET Causes]
          /\ \A g \in Frame :
               /\ fate[g] \subseteq fate'[g]
               /\ IF g \in frames THEN "ringFull" \in fate'[g] /\ fate'[g] # {}
                                       /\ fate'[g] \subseteq fate[g] \union {"ringFull"}
                                  ELSE fate'[g] = fate[g]
      BY <1>3, <2>1, <3>1, LostFacts
    <3>. QED
      BY <2>2, <3>2 DEF frames
  <2>3. CASE row # QUEUE_SIZE
    <3> DEFINE frames == IF shared = {} THEN {} ELSE {cell[n][p][row]}
    <3>1. Lost(frames, "overwritten")
      BY <1>2, <2>3
    <3>. HIDE DEF frames
    <3>2. /\ fate' \in [Frame -> SUBSET Causes]
          /\ \A g \in Frame :
               /\ fate[g] \subseteq fate'[g]
               /\ IF g \in frames THEN "overwritten" \in fate'[g] /\ fate'[g] # {}
                                       /\ fate'[g] \subseteq fate[g] \union {"overwritten"}
                                  ELSE fate'[g] = fate[g]
      BY <1>3, <2>1, <3>1, LostFacts
    <3>. QED
      BY <2>3, <3>2 DEF frames
  <2>. QED
    BY <2>2, <2>3
<1>8. /\ ring' \in [Node -> [Prio -> Seq(0 .. QUEUE_SIZE - 1)]]
      /\ \A m \in Node, r \in Prio : ~ (m = n /\ r = p) => ring'[m][r] = ring[m][r]
      /\ IF row = QUEUE_SIZE THEN ring'[n][p] = ring[n][p]
                             ELSE ring'[n][p] = Append(ring[n][p], row)
  BY <1>0, EnqueueShape
\* The new queue of f: the old entries, and, if there was room, one more.
<1>9. /\ Len(ring'[n][p]) <= QUEUE_SIZE
      /\ ring'[n][p] # <<>> \/ ring[n][p] = <<>>
      /\ \A i \in DOMAIN ring[n][p] :
           /\ i \in DOMAIN ring'[n][p] /\ ring'[n][p][i] = ring[n][p][i]
           /\ ring[n][p][i] \in 0 .. QUEUE_SIZE - 1
      /\ \A i \in DOMAIN ring'[n][p] : i \in DOMAIN ring[n][p] \/ ring'[n][p][i] = row
      /\ row # QUEUE_SIZE => \E j \in DOMAIN ring'[n][p] :
           /\ ring'[n][p][j] = row
           /\ j = row + 1 /\ (ring[n][p] # <<>> => j # 1)
  BY <1>0, EnqueueShape
<1>10. QueueInv'
  <2>1. ASSUME NEW m \in Node, NEW r \in Prio, ~ (m = n /\ r = p)
        PROVE  /\ Len(ring'[m][r]) <= QUEUE_SIZE
               /\ \A i \in DOMAIN ring'[m][r] : RowOK(m, r, i)'
    <3>1. /\ Len(ring[m][r]) <= QUEUE_SIZE /\ ring'[m][r] = ring[m][r]
          /\ \A i \in DOMAIN ring[m][r] : RowOK(m, r, i) /\ ring[m][r][i] \in Row
      BY <1>1, <1>8, <2>1, QueueTypes DEF QueueInv
    <3>2. ASSUME NEW i \in DOMAIN ring[m][r]
          PROVE  RowOK(m, r, i)'
      <4>1. cell'[m][r][ring[m][r][i]] = cell[m][r][ring[m][r][i]]
        BY <1>5, <2>1, <3>1
      <4>. QED
        BY <3>1, <4>1 DEF RowOK
    <3>. QED
      BY <3>1, <3>2
  <2>2. ASSUME NEW i \in DOMAIN ring'[n][p]
        PROVE  RowOK(n, p, i)'
    <3>1. CASE ring'[n][p][i] = row
      BY <1>0, <1>5, <3>1 DEF RowOK
    <3>2. CASE ring'[n][p][i] # row
      <4>1. /\ i \in DOMAIN ring[n][p] /\ ring'[n][p][i] = ring[n][p][i]
            /\ ring[n][p][i] \in Row
        BY <1>1, <1>9, <3>2
      <4>2. RowOK(n, p, i)
        BY <1>1, <4>1 DEF QueueInv
      <4>3. cell'[n][p][ring[n][p][i]] = cell[n][p][ring[n][p][i]]
        BY <1>1, <1>5, <3>2, <4>1
      <4>. QED
        BY <4>1, <4>2, <4>3 DEF RowOK
    <3>. QED
      BY <3>1, <3>2
  <2>. QED
    BY <1>1, <1>9, <2>1, <2>2 DEF QueueInv
<1>11. ASSUME NEW g \in Frame, Queued(g)
       PROVE  Queued(g)' \/ fate'[g] # {}
  <2>1. PrioOf(g) \in Prio
    BY FrameFacts
  <2>2. PICK m \in Node : \E i \in DOMAIN ring[m][PrioOf(g)] :
          g = cell[m][PrioOf(g)][ring[m][PrioOf(g)][i]]
    BY <1>11 DEF Queued, QueuedAt
  <2> DEFINE r == PrioOf(g)
  <2>3. PICK i \in DOMAIN ring[m][r] : g = cell[m][r][ring[m][r][i]]
    BY <2>2
  <2>4. /\ i \in DOMAIN ring'[m][r] /\ ring'[m][r][i] = ring[m][r][i]
        /\ ring[m][r][i] \in 0 .. QUEUE_SIZE - 1 /\ ring[m][r][i] \in Row
    <3>. HIDE DEF r
    <3>1. CASE m = n /\ r = p
      BY <1>1, <1>9, <2>3, <3>1
    <3>2. CASE ~ (m = n /\ r = p)
      <4>1. ring'[m][r] = ring[m][r]
        BY <1>8, <2>1, <3>2 DEF r
      <4>2. ring[m][r][i] \in 0 .. QUEUE_SIZE - 1
        BY <2>1, <2>3, QueueTypes DEF r
      <4>. QED
        BY <1>1, <2>3, <4>1, <4>2
    <3>. QED
      BY <3>1, <3>2
  <2>. HIDE DEF r
  <2>5. CASE ~ (m = n /\ r = p /\ ring[m][r][i] = row)
    <3>1. g = cell'[m][r][ring'[m][r][i]]
      BY <1>5, <2>1, <2>3, <2>4, <2>5 DEF r
    <3>. QED
      BY <2>4, <3>1 DEF Queued, QueuedAt, r
  <2>6. CASE m = n /\ r = p /\ ring[m][r][i] = row
    <3>1. row # QUEUE_SIZE /\ g = cell[n][p][row]
      BY <1>1, <2>3, <2>4, <2>6
    <3>2. shared # {}
      BY <2>3, <2>6 DEF shared, Overwritten
    <3>. QED
      BY <1>7, <3>1, <3>2
  <2>. QED
    BY <2>5, <2>6
<1>12. Queued(f)' \/ fate'[f] # {}
  <2>1. CASE row = QUEUE_SIZE
    BY <1>7, <2>1
  <2>2. CASE row # QUEUE_SIZE
    <3>1. PICK j \in DOMAIN ring'[n][p] : ring'[n][p][j] = row
      BY <1>9, <2>2
    <3>2. f = cell'[n][p][ring'[n][p][j]]
      BY <1>5, <3>1
    <3>. QED
      BY <1>0, <3>2 DEF Queued, QueuedAt
  <2>. QED
    BY <2>1, <2>2
<1>13. ASSUME NEW m \in Node, NEW g \in Frame, AtHead(m, g)
       PROVE  AtHead(m, g)'
  <2> DEFINE r == PrioOf(g)
  <2>1. /\ r \in Prio /\ ring[m][r] # <<>> /\ 1 \in DOMAIN ring[m][r]
        /\ ring[m][r][1] \in Row /\ ring[m][r][1] \in 0 .. QUEUE_SIZE - 1
        /\ \/ cell[m][r][ring[m][r][1]] = g
           \/ \E j \in DOMAIN ring[m][r] : j # 1 /\ ring[m][r][j] = ring[m][r][1]
    <3>1. r \in Prio /\ ring[m][r] # <<>>
      BY <1>13, FrameFacts DEF AtHead
    <3>2. 1 \in DOMAIN ring[m][r]
      BY <1>3, <3>1, TailFacts
    <3>. QED
      BY <1>13, <3>1, <3>2, QueueTypes DEF AtHead
  <2>. HIDE DEF r
  <2>2. CASE ~ (m = n /\ r = p)
    <3>1. ring'[m][r] = ring[m][r] /\ cell'[m][r][ring[m][r][1]] = cell[m][r][ring[m][r][1]]
      BY <1>5, <1>8, <2>1, <2>2
    <3>. QED
      BY <2>1, <3>1 DEF AtHead, r
  <2>3. CASE m = n /\ r = p /\ ring[m][r][1] # row
    <3>1. /\ cell'[m][r][ring[m][r][1]] = cell[m][r][ring[m][r][1]]
          /\ ring'[m][r] # <<>> /\ ring'[m][r][1] = ring[m][r][1]
      BY <1>5, <1>9, <2>1, <2>3
    <3>2. \A j \in DOMAIN ring[m][r] : j \in DOMAIN ring'[m][r] /\ ring'[m][r][j] = ring[m][r][j]
      BY <1>9, <2>3
    <3>. QED
      BY <2>1, <3>1, <3>2 DEF AtHead, r
  <2>4. CASE m = n /\ r = p /\ ring[m][r][1] = row
    <3>1. row # QUEUE_SIZE /\ ring'[m][r] # <<>> /\ ring'[m][r][1] = row
      BY <1>1, <1>9, <2>1, <2>4
    <3>2. \E j \in DOMAIN ring'[m][r] : j # 1 /\ ring'[m][r][j] = row
      BY <1>9, <2>1, <2>4, <3>1
    <3>. QED
      BY <3>1, <3>2 DEF AtHead, r
  <2>. QED
    BY <2>2, <2>3, <2>4
<1>. QED
  BY <1>5, <1>6, <1>7, <1>8, <1>10, <1>11, <1>12, <1>13

-----------------------------------------------------------------------------
(* What sendDone does to the queues.                                       *)

LEMMA QueuedFacts ==
  ASSUME NetTypes, QueueInv, NEW n \in Node, NEW p \in Prio
  PROVE  /\ \A g \in QueuedAt(n, p) : g \in Frame /\ PrioOf(g) = p /\ n \in Carriers(g.flow)
         /\ HeadOfQueue(n, p) \subseteq QueuedAt(n, p)
         /\ ring[n][p] # <<>> => HeadOfQueue(n, p) = {cell[n][p][ring[n][p][1]]}
                                 /\ 1 \in DOMAIN ring[n][p]
<1>1. ring[n][p] \in Seq(0 .. QUEUE_SIZE - 1)
  BY QueueTypes
<1>2. ring[n][p] # <<>> => 1 \in DOMAIN ring[n][p] /\ Head(ring[n][p]) = ring[n][p][1]
  BY <1>1, TailFacts
<1>3. \A g \in QueuedAt(n, p) : g \in Frame /\ PrioOf(g) = p /\ n \in Carriers(g.flow)
  BY DEF QueueInv, RowOK, QueuedAt
<1>. QED
  BY <1>2, <1>3 DEF HeadOfQueue, QueuedAt

LEMMA ShrinkCustody ==
  ASSUME NetTypes, QueueInv, NEW n \in Node, NEW q, UNCHANGED cell,
         ring' = [ring EXCEPT ![n] = q], NEW lost, ShrinksBy(n, q, lost)
  PROVE  \A g \in Frame : Queued(g) => Queued(g)' \/ g \in lost
<1>1. /\ \A m \in Node \ {n} : ring'[m] = ring[m]
      /\ \A p \in Prio :
           /\ q[p] = ring[n][p] => QueuedAt(n, p)' = QueuedAt(n, p)
           /\ ring[n][p] # <<>> /\ q[p] = Tail(ring[n][p])
              => QueuedAt(n, p) \subseteq QueuedAt(n, p)' \union HeadOfQueue(n, p)
  <2>1. Shrinks(n, q)
    BY ShrinksByShrinks
  <2>. QED
    BY <2>1, QueueShrinks
<1>2. ASSUME NEW g \in Frame, NEW m \in Node, g \in QueuedAt(m, PrioOf(g))
      PROVE  g \in QueuedAt(m, PrioOf(g))' \/ g \in lost
  <2>1. PrioOf(g) \in Prio
    BY FrameFacts
  <2>2. CASE m # n
    BY <1>1, <1>2, <2>2 DEF QueuedAt
  <2>3. CASE m = n
    BY <1>1, <1>2, <2>1, <2>3 DEF ShrinksBy
  <2>. QED
    BY <2>2, <2>3
<1>. QED
  BY <1>2 DEF Queued

Queues == [Prio -> Seq(0 .. QUEUE_SIZE - 1)]

LEMMA DequeueFacts ==
  ASSUME NEW q \in Queues, NEW p \in Prio
  PROVE  /\ DequeuePrio(q, p) \in Queues
         /\ \A r \in Prio : r # p => DequeuePrio(q, p)[r] = q[r]
         /\ q[p] = <<>> => DequeuePrio(q, p)[p] = <<>>
         /\ q[p] # <<>> => DequeuePrio(q, p)[p] = Tail(q[p])
<1>1. q[p] \in Seq(0 .. QUEUE_SIZE - 1)
  BY DEF Queues
<1>2. q[p] # <<>> => Tail(q[p]) \in Seq(0 .. QUEUE_SIZE - 1)
  BY <1>1, TailFacts
<1>. QED
  BY <1>1, <1>2 DEF DequeuePrio, Queues

\* The frame taken for acknowledged is handed over; whatever else stood at
\* the head of its queue has another entry there.
LEMMA DequeueSentKeeps ==
  ASSUME NetTypes, QueueInv, NEW n \in Node, NEW f \in Frame, selfDataPkt[n] = f,
         AtHead(n, f), DequeueSent(n), UNCHANGED cell
  PROVE  /\ ring' \in [Node -> [Prio -> Seq(0 .. QUEUE_SIZE - 1)]]
         /\ QueueInv'
         /\ \A m \in Node \ {n} : ring'[m] = ring[m]
         /\ UNCHANGED <<hiCritMode, node_ack_fails>>
         /\ \A g \in Frame :
              Queued(g) => Queued(g)' \/ g \in HeadOfQueue(n, PrioOf(f))
         /\ \A g \in Frame : Queued(g) => Queued(g)' \/ g = f
         /\ \E q : /\ ring' = [ring EXCEPT ![n] = q] /\ Shrinks(n, q)
                  /\ q[PrioOf(f)] = Tail(ring[n][PrioOf(f)])
<1> DEFINE p == PrioOf(f)
           q == DequeuePrio(ring[n], p)
           s == ring[n][p]
<1>1. /\ p \in Prio /\ ring[n] \in [Prio -> Seq(0 .. QUEUE_SIZE - 1)]
      /\ ring' = [ring EXCEPT ![n] = q] /\ s # <<>>
  BY FrameFacts DEF NetTypes, DequeueSent, AtHead
<1>2. /\ q \in [Prio -> Seq(0 .. QUEUE_SIZE - 1)] /\ q[p] = Tail(s)
      /\ \A r \in Prio : r # p => q[r] = ring[n][r]
  <2>1. ring[n] \in Queues
    BY <1>1 DEF Queues
  <2>2. q \in Queues /\ q[p] = Tail(s) /\ \A r \in Prio : r # p => q[r] = ring[n][r]
    BY <1>1, <2>1, DequeueFacts
  <2>. QED
    BY <2>2 DEF Queues
<1>. HIDE DEF q
<1>3. ShrinksBy(n, q, HeadOfQueue(n, p))
  BY <1>1, <1>2 DEF ShrinksBy
<1>4. Shrinks(n, q)
  BY <1>3, ShrinksByShrinks
<1>5. /\ ring' \in [Node -> [Prio -> Seq(0 .. QUEUE_SIZE - 1)]]
      /\ QueueInv' /\ \A m \in Node \ {n} : ring'[m] = ring[m]
      /\ \A r \in Prio : ring'[n][r] = q[r]
  BY <1>1, <1>4, QueueShrinks
<1>6. \A g \in Frame : Queued(g) => Queued(g)' \/ g \in HeadOfQueue(n, p)
  BY <1>1, <1>3, ShrinkCustody
<1>7. ASSUME NEW g \in Frame, Queued(g), ~ Queued(g)'
      PROVE  g = f
  <2>1. g = cell[n][p][s[1]]
    BY <1>1, <1>6, <1>7, QueuedFacts
  <2>2. CASE cell[n][p][s[1]] = f
    BY <2>1, <2>2
  <2>3. ASSUME NEW j \in DOMAIN s, j # 1, s[j] = s[1]
        PROVE  FALSE
    <3>1. \A i \in DOMAIN s : i = 1 \/ \E k \in DOMAIN Tail(s) : Tail(s)[k] = s[i]
      BY <1>1, TailEntries
    <3>2. PICK k \in DOMAIN Tail(s) : Tail(s)[k] = s[1]
      BY <2>3, <3>1
    <3>3. ring'[n][p] = Tail(s)
      BY <1>1, <1>2, <1>5
    <3>4. g \in QueuedAt(n, p)'
      BY <2>1, <3>2, <3>3 DEF QueuedAt
    <3>5. PrioOf(g) = p
      BY <1>1, <2>1, QueuedFacts
    <3>. QED
      BY <1>7, <3>4, <3>5 DEF Queued
  <2>. QED
    BY <2>2, <2>3 DEF AtHead
<1>8. \E t : ring' = [ring EXCEPT ![n] = t] /\ Shrinks(n, t) /\ t[p] = Tail(s)
  BY <1>1, <1>2, <1>4
<1>. QED
  BY <1>5, <1>6, <1>7, <1>8 DEF DequeueSent

\* The frames a failure costs count as lost; a HI frame only if all are.
LEMMA FailureKeeps ==
  ASSUME NetTypes, QueueInv, NEW n \in Node, NEW f \in Frame, selfDataPkt[n] = f,
         n \in Carriers(f.flow), GiveUp(n) \/ CountFailure(n), UNCHANGED cell
  PROVE  /\ ring' \in [Node -> [Prio -> Seq(0 .. QUEUE_SIZE - 1)]]
         /\ QueueInv'
         /\ \A m \in Node \ {n} : ring'[m] = ring[m]
         /\ hiCritMode' \in [Node -> BOOLEAN]
         /\ node_ack_fails' \in [Node -> 0 .. BEST_EFFORT_LIMIT - 1]
         /\ fate' \in [Frame -> SUBSET Causes]
         /\ \A g \in Frame :
              /\ fate[g] \subseteq fate'[g]
              /\ Queued(g) => Queued(g)' \/ fate'[g] # {}
              /\ CritOf[g.flow] = "HI" => fate'[g] \subseteq fate[g] \union HIReasons
         /\ \E q : ring' = [ring EXCEPT ![n] = q] /\ Shrinks(n, q)
<1>1. /\ ring[n] \in [Prio -> Seq(0 .. QUEUE_SIZE - 1)] /\ PrioOf(f) \in Prio
      /\ hiCritMode \in [Node -> BOOLEAN]
      /\ node_ack_fails \in [Node -> 0 .. BEST_EFFORT_LIMIT - 1]
      /\ fate \in [Frame -> SUBSET Causes]
  BY FrameFacts DEF NetTypes
<1>2. CASE GiveUp(n)
  <2> DEFINE q == DrainedBut(ring[n], {})
             lost == UNION {QueuedAt(n, p) : p \in Prio}
  <2>1. /\ ring' = [ring EXCEPT ![n] = q] /\ Lost(lost, "gaveUp")
        /\ node_ack_fails' = [node_ack_fails EXCEPT ![n] = 0]
        /\ hiCritMode' = [hiCritMode EXCEPT ![n] = FALSE]
    BY <1>2 DEF GiveUp
  <2>2. /\ q \in [Prio -> Seq(0 .. QUEUE_SIZE - 1)]
        /\ \A p \in Prio : q[p] = <<>> /\ QueuedAt(n, p) \subseteq lost
    BY DEF DrainedBut
  <2>. HIDE DEF q, lost
  <2>8. ShrinksBy(n, q, lost) /\ Shrinks(n, q)
    BY <2>2 DEF ShrinksBy, Shrinks
  <2>3. /\ ring' \in [Node -> [Prio -> Seq(0 .. QUEUE_SIZE - 1)]]
        /\ QueueInv' /\ \A m \in Node \ {n} : ring'[m] = ring[m]
    BY <2>1, <2>8, QueueShrinks
  <2>4. \A g \in Frame : Queued(g) => Queued(g)' \/ g \in lost
    BY <2>1, <2>8, ShrinkCustody
  <2>5. "gaveUp" \in Causes /\ "gaveUp" \in HIReasons
    BY DEF Causes, HIReasons
  <2>6. /\ fate' \in [Frame -> SUBSET Causes]
        /\ \A g \in Frame :
             /\ fate[g] \subseteq fate'[g]
             /\ IF g \in lost THEN "gaveUp" \in fate'[g] /\ fate'[g] # {}
                                   /\ fate'[g] \subseteq fate[g] \union {"gaveUp"}
                              ELSE fate'[g] = fate[g]
    BY <1>1, <2>1, <2>5, LostFacts
  <2>7. /\ hiCritMode' \in [Node -> BOOLEAN]
        /\ node_ack_fails' \in [Node -> 0 .. BEST_EFFORT_LIMIT - 1]
    BY <1>1, <2>1 DEF BEST_EFFORT_LIMIT
  <2>9. \E t : ring' = [ring EXCEPT ![n] = t] /\ Shrinks(n, t)
    BY <2>1, <2>8
  <2>. QED
    BY <2>3, <2>4, <2>5, <2>6, <2>7, <2>9
<1>3. CASE CountFailure(n)
  <2> DEFINE kept == IF GoesHigh(n) THEN DrainedBut(ring[n], HiCritOf[n]) ELSE ring[n]
             atLimit == Fails(n) >= Limit(f)
             q == IF atLimit THEN DequeuePrio(kept, PrioOf(f)) ELSE kept
             drained == IF GoesHigh(n) THEN UNION {QueuedAt(n, p) : p \in Prio \ HiCritOf[n]}
                                       ELSE {}
             headed == IF atLimit THEN HeadOfQueue(n, PrioOf(f)) ELSE {}
  <2>1. /\ ring' = [ring EXCEPT ![n] = q] /\ Lost(drained \union headed, "discarded")
        /\ node_ack_fails' = [node_ack_fails EXCEPT ![n] = Fails(n)]
        /\ hiCritMode' = [hiCritMode EXCEPT ![n] = @ \/ GoesHigh(n)]
        /\ Fails(n) < BEST_EFFORT_LIMIT
    BY <1>3 DEF CountFailure
  <2>2. /\ kept \in [Prio -> Seq(0 .. QUEUE_SIZE - 1)]
        /\ \A p \in Prio : \/ kept[p] = ring[n][p]
                           \/ kept[p] = <<>> /\ QueuedAt(n, p) \subseteq drained
    <3>1. CASE GoesHigh(n)
      <4>1. kept = [p \in Prio |-> IF p \in HiCritOf[n] THEN ring[n][p] ELSE <<>>]
        BY <3>1 DEF DrainedBut
      <4>2. \A p \in Prio \ HiCritOf[n] : QueuedAt(n, p) \subseteq drained
        BY <3>1
      <4>. HIDE DEF kept, drained
      <4>3. <<>> \in Seq(0 .. QUEUE_SIZE - 1)
        OBVIOUS
      <4>. QED
        BY <1>1, <4>1, <4>2, <4>3
    <3>2. CASE ~ GoesHigh(n)
      BY <1>1, <3>2
    <3>. QED
      BY <3>1, <3>2
  <2>3. ShrinksBy(n, q, drained \union headed)
    <3>1. CASE atLimit
      <4>1. q = DequeuePrio(kept, PrioOf(f)) /\ headed = HeadOfQueue(n, PrioOf(f))
        BY <3>1
      <4>. HIDE DEF q, kept, drained, headed
      <4>2. /\ q \in [Prio -> Seq(0 .. QUEUE_SIZE - 1)]
            /\ \A r \in Prio : r # PrioOf(f) => q[r] = kept[r]
            /\ IF kept[PrioOf(f)] = <<>> THEN q[PrioOf(f)] = <<>>
                                         ELSE q[PrioOf(f)] = Tail(kept[PrioOf(f)])
        <5>1. kept \in Queues /\ PrioOf(f) \in Prio
          BY <1>1, <2>2 DEF Queues
        <5>2. /\ DequeuePrio(kept, PrioOf(f)) \in Queues
              /\ \A r \in Prio : r # PrioOf(f) => DequeuePrio(kept, PrioOf(f))[r] = kept[r]
              /\ kept[PrioOf(f)] = <<>>
                 => DequeuePrio(kept, PrioOf(f))[PrioOf(f)] = <<>>
              /\ kept[PrioOf(f)] # <<>>
                 => DequeuePrio(kept, PrioOf(f))[PrioOf(f)] = Tail(kept[PrioOf(f)])
          BY <5>1, DequeueFacts
        <5>. QED
          BY <4>1, <5>2 DEF Queues
      <4>. QED
        BY <2>2, <4>1, <4>2 DEF ShrinksBy
    <3>2. CASE ~ atLimit
      <4>1. q = kept
        BY <3>2
      <4>. HIDE DEF q, kept, drained, headed
      <4>. QED
        BY <2>2, <4>1 DEF ShrinksBy
    <3>. QED
      BY <3>1, <3>2
  <2>4. \A g \in drained \union headed : g \in Frame => CritOf[g.flow] # "HI"
    <3>1. ASSUME NEW g \in drained, g \in Frame
          PROVE  CritOf[g.flow] # "HI"
      <4>1. PICK p \in Prio \ HiCritOf[n] : g \in QueuedAt(n, p)
        BY <3>1
      <4>. QED
        BY <4>1, QueuedFacts, CritFacts
    <3>2. ASSUME NEW g \in headed, g \in Frame
          PROVE  CritOf[g.flow] # "HI"
      <4>1. atLimit /\ g \in HeadOfQueue(n, PrioOf(f))
        BY <3>2
      <4>2. CritOf[f.flow] # "HI"
        <5>1. node_ack_fails[n] \in Int /\ Fails(n) < 4
          BY <1>1, <2>1 DEF BEST_EFFORT_LIMIT
        <5>2. Fails(n) \in Int /\ Fails(n) >= Limit(f)
          BY <4>1, <5>1 DEF Fails
        <5>3. CritOf[f.flow] = "HI" => Limit(f) = 4
          BY DEF Limit, MCC_HI_CRIT_RT_LIMIT
        <5>. QED
          BY <5>1, <5>2, <5>3
      <4>. HIDE DEF kept, drained, headed, atLimit
      <4>3. g \in QueuedAt(n, PrioOf(f))
        BY <1>1, <4>1, QueuedFacts
      <4>4. PrioOf(g) = PrioOf(f) /\ n \in Carriers(g.flow)
        BY <1>1, <4>3, QueuedFacts
      <4>. QED
        BY <3>2, <4>2, <4>4, CritFacts
    <3>. QED
      BY <3>1, <3>2
  <2> DEFINE lost == drained \union headed
  <2>. HIDE DEF q, kept, drained, headed
  <2>5. Shrinks(n, q)
    BY <2>3, ShrinksByShrinks
  <2>6. /\ ring' \in [Node -> [Prio -> Seq(0 .. QUEUE_SIZE - 1)]]
        /\ QueueInv' /\ \A m \in Node \ {n} : ring'[m] = ring[m]
    BY <2>1, <2>5, QueueShrinks
  <2>7. \A g \in Frame : Queued(g) => Queued(g)' \/ g \in lost
    BY <2>1, <2>3, ShrinkCustody
  <2>8. "discarded" \in Causes
    BY DEF Causes
  <2>9. /\ fate' \in [Frame -> SUBSET Causes]
        /\ \A g \in Frame :
             /\ fate[g] \subseteq fate'[g]
             /\ IF g \in lost THEN "discarded" \in fate'[g] /\ fate'[g] # {}
                                   /\ fate'[g] \subseteq fate[g] \union {"discarded"}
                              ELSE fate'[g] = fate[g]
    <3>1. Lost(lost, "discarded")
      BY <2>1
    <3>. HIDE DEF lost
    <3>. QED
      BY <1>1, <2>8, <3>1, LostFacts
  <2>10. /\ hiCritMode' \in [Node -> BOOLEAN]
         /\ node_ack_fails' \in [Node -> 0 .. BEST_EFFORT_LIMIT - 1]
    <3>1. Fails(n) \in 0 .. BEST_EFFORT_LIMIT - 1
      BY <1>1, <2>1 DEF Fails, BEST_EFFORT_LIMIT
    <3>2. (hiCritMode[n] \/ GoesHigh(n)) \in BOOLEAN
      OBVIOUS
    <3>3. node_ack_fails' \in [Node -> 0 .. BEST_EFFORT_LIMIT - 1]
      BY <1>1, <2>1, <3>1
    <3>4. hiCritMode' \in [Node -> BOOLEAN]
      BY <1>1, <2>1, <3>2
    <3>. QED
      BY <3>3, <3>4
  <2>11. \E t : ring' = [ring EXCEPT ![n] = t] /\ Shrinks(n, t)
    BY <2>1, <2>5
  <2>. QED
    BY <2>4, <2>6, <2>7, <2>9, <2>10, <2>11
<1>. QED
  BY <1>2, <1>3

-----------------------------------------------------------------------------
(* Each step keeps the invariant.                                          *)

LEMMA InitNet == Init => NetInv
<1>. SUFFICES ASSUME Init PROVE NetInv
  OBVIOUS
<1>1. /\ QUEUE_SIZE \in Nat \ {0} /\ RECEIVE_QUEUE_SIZE \in Nat \ {0}
      /\ MaxSeq \in [Flow -> Nat \ {0}]
  BY NetAssumption
<1>2. NetTypes
  <2>1. /\ packetsSent \in [Flow -> Nat] /\ \A fl \in Flow : packetsSent[fl] <= MaxSeq[fl]
    BY <1>1 DEF Init
  <2>2. ring \in [Node -> [Prio -> Seq(0 .. QUEUE_SIZE - 1)]]
    <3>1. <<>> \in Seq(0 .. QUEUE_SIZE - 1)
      OBVIOUS
    <3>2. [p \in Prio |-> <<>>] \in [Prio -> Seq(0 .. QUEUE_SIZE - 1)]
      BY <3>1
    <3>. QED
      BY <3>2 DEF Init
  <2>3. cell \in [Node -> [Prio -> [Row -> Frame \union {NoFrame}]]]
    BY DEF Init
  <2>4. /\ hiCritMode \in [Node -> BOOLEAN] /\ activeFault \in [Node -> BOOLEAN]
        /\ node_ack_fails \in [Node -> 0 .. BEST_EFFORT_LIMIT - 1]
        /\ selfDataPkt \in [Node -> Frame \union {NoFrame}]
        /\ ackFlag \in [Node -> BOOLEAN]
    BY DEF Init, BEST_EFFORT_LIMIT
  <2>5. inbox \in [Node -> Seq(Frame)]
    BY DEF Init
  <2>6. /\ fate \in [Frame -> SUBSET Causes]
        /\ deliveries \in [Frame -> Nat] /\ copies \in [Frame -> Nat]
    BY DEF Init
  <2>. QED
    BY <2>1, <2>2, <2>3, <2>4, <2>5, <2>6 DEF NetTypes
<1>3. QueueInv
  BY <1>1 DEF Init, QueueInv
<1>4. InboxInv
  BY <1>1 DEF Init, InboxInv
<1>5. SendingInv
  BY DEF Init, SendingInv
<1>6. Custody
  <2>1. ASSUME NEW f \in Frame
        PROVE  ~ f.seq < packetsSent[f.flow]
    BY FrameFacts DEF Init
  <2>. QED
    BY <2>1 DEF Custody
<1>7. HICauses
  BY DEF Init, HICauses
<1>. QED
  BY <1>2, <1>3, <1>4, <1>5, <1>6, <1>7 DEF NetInv

\* The packet made is queued, or counts as lost; a HI packet is not refused.
LEMMA SendKeeps ==
  ASSUME NetInv, NEW fl \in Flow, SendTimerFired(fl)
  PROVE  NetInv'
<1> DEFINE n == SrcOf[fl]
           f == [flow |-> fl, seq |-> packetsSent[fl]]
<1>1. /\ NetTypes /\ QueueInv /\ InboxInv /\ SendingInv /\ Custody /\ HICauses
      /\ packetsSent[fl] < MaxSeq[fl]
      /\ packetsSent' = [packetsSent EXCEPT ![fl] = @ + 1]
      /\ UNCHANGED <<hiCritMode, node_ack_fails, activeFault, selfDataPkt, ackFlag,
                     inbox, deliveries>>
  BY DEF NetInv, SendTimerFired
<1>2. /\ packetsSent \in [Flow -> Nat] /\ MaxSeq \in [Flow -> Nat \ {0}]
      /\ \A g \in Flow : packetsSent[g] <= MaxSeq[g]
      /\ fate \in [Frame -> SUBSET Causes]
  BY <1>1, NetAssumption DEF NetTypes
<1>3. f \in Frame /\ f.flow = fl
  BY <1>1, <1>2, MadeFrame
<1>4. n \in Node /\ n \in Carriers(fl)
  BY NetAssumption DEF Carriers
<1>5. /\ packetsSent' \in [Flow -> Nat] /\ \A g \in Flow : packetsSent'[g] <= MaxSeq[g]
  BY <1>1, <1>2
<1>6. ASSUME NEW g \in Frame, g.seq < packetsSent'[g.flow]
      PROVE  g.seq < packetsSent[g.flow] \/ g = f
  <2>1. /\ g.flow \in Flow /\ g.seq \in Nat /\ g = [flow |-> g.flow, seq |-> g.seq]
    BY FrameFacts
  <2>2. CASE g.flow # fl
    BY <1>1, <1>2, <1>6, <2>1, <2>2
  <2>3. CASE g.flow = fl
    <3>1. packetsSent'[fl] = packetsSent[fl] + 1 /\ packetsSent[fl] \in Nat
      BY <1>1, <1>2
    <3>2. g.seq < packetsSent[fl] \/ g.seq = packetsSent[fl]
      BY <1>6, <2>1, <2>3, <3>1
    <3>. QED
      BY <2>1, <2>3, <3>2
  <2>. QED
    BY <2>2, <2>3
\* What is left to show of the two cases.
<1>7. /\ ring' \in [Node -> [Prio -> Seq(0 .. QUEUE_SIZE - 1)]]
      /\ cell' \in [Node -> [Prio -> [Row -> Frame \union {NoFrame}]]]
      /\ copies' \in [Frame -> Nat] /\ fate' \in [Frame -> SUBSET Causes]
      /\ QueueInv'
      /\ \A g \in Frame : /\ fate[g] \subseteq fate'[g]
                          /\ CritOf[g.flow] = "HI" => fate'[g] \subseteq fate[g] \union HIReasons
                          /\ Queued(g) \/ g = f => Queued(g)' \/ fate'[g] # {}
      /\ \A m \in Node, g \in Frame : AtHead(m, g) => AtHead(m, g)'
  <2>1. CASE hiCritMode[n] /\ CritOf[fl] = "LO"
    <3>1. Lost({f}, "refused") /\ UNCHANGED <<ring, cell, copies>>
      BY <2>1 DEF SendTimerFired
    <3>2. "refused" \in Causes
      BY DEF Causes
    <3> DEFINE lost == {f}
    <3>3. Lost(lost, "refused")
      BY <3>1
    <3>4. \A g \in Frame : g \in lost <=> g = f
      OBVIOUS
    <3>. HIDE DEF lost
    <3>5. /\ fate' \in [Frame -> SUBSET Causes]
          /\ \A g \in Frame :
               /\ fate[g] \subseteq fate'[g]
               /\ IF g \in lost THEN "refused" \in fate'[g] /\ fate'[g] # {}
                                     /\ fate'[g] \subseteq fate[g] \union {"refused"}
                                ELSE fate'[g] = fate[g]
      BY <1>2, <3>2, <3>3, LostFacts
    <3>6. UNCHANGED <<ring, cell, copies>>
      BY <3>1
    <3>7. QueueInv'
      BY <1>1, <3>6 DEF QueueInv, RowOK
    <3>8. ASSUME NEW g \in Frame
          PROVE  /\ CritOf[g.flow] = "HI" => fate'[g] \subseteq fate[g] \union HIReasons
                 /\ Queued(g) \/ g = f => Queued(g)' \/ fate'[g] # {}
      <4>1. g = f => CritOf[g.flow] # "HI"
        BY <1>3, <2>1
      <4>2. Queued(g) => Queued(g)'
        BY <3>6 DEF Queued, QueuedAt
      <4>. QED
        BY <3>4, <3>5, <4>1, <4>2
    <3>9. \A m \in Node, g \in Frame : AtHead(m, g) => AtHead(m, g)'
      BY <3>6 DEF AtHead
    <3>10. /\ ring' \in [Node -> [Prio -> Seq(0 .. QUEUE_SIZE - 1)]]
           /\ cell' \in [Node -> [Prio -> [Row -> Frame \union {NoFrame}]]]
           /\ copies' \in [Frame -> Nat]
      BY <1>1, <3>6 DEF NetTypes
    <3>. QED
      BY <3>5, <3>7, <3>8, <3>9, <3>10
  <2>2. CASE ~ (hiCritMode[n] /\ CritOf[fl] = "LO")
    <3>1. Enqueue(n, f)
      BY <2>2 DEF SendTimerFired
    <3>. HIDE DEF f, n
    <3>2. {"ringFull", "overwritten"} \subseteq HIReasons
      BY DEF HIReasons
    <3>3. n \in Carriers(f.flow)
      BY <1>3, <1>4
    <3>4. /\ ring' \in [Node -> [Prio -> Seq(0 .. QUEUE_SIZE - 1)]]
          /\ cell' \in [Node -> [Prio -> [Row -> Frame \union {NoFrame}]]]
          /\ copies' \in [Frame -> Nat] /\ fate' \in [Frame -> SUBSET Causes]
          /\ QueueInv'
          /\ \A g \in Frame : /\ fate[g] \subseteq fate'[g]
                              /\ fate'[g] \subseteq fate[g] \union {"ringFull", "overwritten"}
                              /\ Queued(g) \/ g = f => Queued(g)' \/ fate'[g] # {}
          /\ \A m \in Node, g \in Frame : AtHead(m, g) => AtHead(m, g)'
      BY <1>1, <1>3, <1>4, <3>1, <3>3, EnqueueKeeps
    <3>. QED
      BY <3>2, <3>4
  <2>. QED
    BY <2>1, <2>2
<1>. HIDE DEF f, n
<1>8. NetTypes'
  BY <1>1, <1>5, <1>7 DEF NetTypes
<1>9. InboxInv' /\ SendingInv'
  <2>1. InboxInv'
    BY <1>1 DEF InboxInv
  <2>2. \A m \in Node : selfDataPkt[m] \in Frame \union {NoFrame}
    BY <1>1 DEF NetTypes
  <2>3. SendingInv'
    BY <1>1, <1>7, <2>2 DEF SendingInv
  <2>. QED
    BY <2>1, <2>3
<1>10. Custody'
  <2>1. ASSUME NEW g \in Frame, g.seq < packetsSent'[g.flow]
        PROVE  Kept(g)'
    <3>1. g.seq < packetsSent[g.flow] \/ g = f
      BY <1>6, <2>1
    <3>2. CASE g = f
      BY <1>7, <3>2 DEF Kept
    <3>3. CASE Kept(g)
      <4>1. Underway(g) => Underway(g)'
        BY <1>1 DEF Underway
      <4>. QED
        BY <1>1, <1>7, <3>3, <4>1 DEF Kept
    <3>. QED
      BY <1>1, <3>1, <3>2, <3>3 DEF Custody
  <2>. QED
    BY <2>1 DEF Custody
<1>11. HICauses'
  BY <1>1, <1>7 DEF HICauses
<1>. QED
  BY <1>7, <1>8, <1>9, <1>10, <1>11 DEF NetInv

\* The frame taken up for sending is the one at the head of its queue.
LEMMA TxSlotKeeps ==
  ASSUME NetInv, NEW n \in Node, TxSlot(n)
  PROVE  NetInv'
<1>1. /\ NetTypes /\ QueueInv /\ InboxInv /\ SendingInv /\ Custody /\ HICauses
      /\ \A m \in Node : selfDataPkt[m] = NoFrame
      /\ hiCritMode' = [hiCritMode EXCEPT ![n] = @ /\ ~ HIDrained(n)]
      /\ node_ack_fails' = [node_ack_fails EXCEPT ![n] =
           IF HIDrained(n) \/ Eligible(n) = {} THEN 0 ELSE @]
      /\ selfDataPkt' = [selfDataPkt EXCEPT ![n] =
           IF Eligible(n) = {} THEN NoFrame ELSE HeadFrame(n)]
      /\ UNCHANGED <<packetsSent, ring, cell, activeFault, ackFlag, inbox, fate,
                     deliveries, copies>>
  BY DEF NetInv, TxSlot
<1>2. /\ hiCritMode \in [Node -> BOOLEAN]
      /\ node_ack_fails \in [Node -> 0 .. BEST_EFFORT_LIMIT - 1]
      /\ selfDataPkt \in [Node -> Frame \union {NoFrame}]
  BY <1>1 DEF NetTypes
<1>3. ASSUME Eligible(n) # {}
      PROVE  /\ HeadFrame(n) \in Frame /\ n \in Carriers(HeadFrame(n).flow)
             /\ AtHead(n, HeadFrame(n))
  <2> DEFINE p == FirstOf(Eligible(n))
             f == HeadFrame(n)
  <2>1. Eligible(n) \in SUBSET Prio /\ \A r \in Eligible(n) : ring[n][r] # <<>>
    BY NetAssumption DEF Eligible, Waiting
  <2>2. p \in Prio /\ ring[n][p] # <<>>
    BY <1>3, <2>1, FirstOfIsLeast
  <2>3. f = CHOOSE g \in HeadOfQueue(n, p) : TRUE
    BY DEF HeadFrame
  <2>. HIDE DEF p, f
  <2>4. HeadOfQueue(n, p) = {cell[n][p][ring[n][p][1]]} /\ HeadOfQueue(n, p) \subseteq QueuedAt(n, p)
    BY <1>1, <2>2, QueuedFacts
  <2>5. f \in HeadOfQueue(n, p)
    BY <2>3, <2>4
  <2>6. f = cell[n][p][ring[n][p][1]] /\ f \in QueuedAt(n, p)
    BY <2>4, <2>5
  <2>7. f \in Frame /\ PrioOf(f) = p /\ n \in Carriers(f.flow)
    BY <1>1, <2>2, <2>6, QueuedFacts
  <2>8. AtHead(n, f)
    BY <2>2, <2>6, <2>7 DEF AtHead
  <2>. QED
    BY <2>7, <2>8 DEF f
<1>4. NetTypes'
  <2>1. hiCritMode' \in [Node -> BOOLEAN]
    <3>1. (hiCritMode[n] /\ ~ HIDrained(n)) \in BOOLEAN
      OBVIOUS
    <3>. QED
      BY <1>1, <1>2, <3>1
  <2>2. node_ack_fails' \in [Node -> 0 .. BEST_EFFORT_LIMIT - 1]
    BY <1>1, <1>2 DEF BEST_EFFORT_LIMIT
  <2>3. selfDataPkt' \in [Node -> Frame \union {NoFrame}]
    BY <1>1, <1>2, <1>3
  <2>. QED
    BY <1>1, <2>1, <2>2, <2>3 DEF NetTypes
<1>5. QueueInv' /\ InboxInv' /\ HICauses'
  BY <1>1 DEF QueueInv, RowOK, InboxInv, HICauses
<1>6. SendingInv'
  <2>1. ASSUME NEW m \in Node, selfDataPkt'[m] # NoFrame
        PROVE  n = m /\ Eligible(n) # {} /\ selfDataPkt'[m] = HeadFrame(n)
    BY <1>1, <1>2, <2>1
  <2>2. \A f : AtHead(n, f) => AtHead(n, f)'
    BY <1>1 DEF AtHead
  <2>. QED
    BY <1>3, <2>1, <2>2 DEF SendingInv
<1>7. Custody'
  <2>1. \A f \in Frame : Kept(f) => Kept(f)'
    BY <1>1 DEF Kept, Queued, QueuedAt, Underway
  <2>. QED
    BY <1>1, <2>1 DEF Custody
<1>. QED
  BY <1>4, <1>5, <1>6, <1>7 DEF NetInv

\* A node whose queues do not change still sends the head of one.
LEMMA OthersStillSend ==
  ASSUME SendingInv, selfDataPkt \in [Node -> Frame \union {NoFrame}], NEW n \in Node,
         selfDataPkt' = [selfDataPkt EXCEPT ![n] = NoFrame],
         \A k \in Node \ {n} : ring'[k] = ring[k], UNCHANGED cell
  PROVE  SendingInv'
<1>1. ASSUME NEW k \in Node, NEW g, g = selfDataPkt'[k], g # NoFrame
      PROVE  k \in Carriers(g.flow) /\ AtHead(k, g)'
  <2>1. k # n /\ g = selfDataPkt[k] /\ ring'[k] = ring[k] /\ cell' = cell
    BY <1>1
  <2>2. k \in Carriers(g.flow) /\ AtHead(k, g)
    BY <1>1, <2>1 DEF SendingInv
  <2>. QED
    BY <2>1, <2>2 DEF AtHead
<1>2. ASSUME NEW k \in Node, selfDataPkt'[k] # NoFrame
      PROVE  (k \in Carriers(selfDataPkt[k].flow) /\ AtHead(k, selfDataPkt[k]))'
  <2>1. PICK g : g = selfDataPkt'[k]
    OBVIOUS
  <2>2. k \in Carriers(g.flow) /\ AtHead(k, g)'
    BY <1>1, <1>2, <2>1
  <2>. QED
    BY <2>1, <2>2 DEF AtHead
<1>. QED
  BY <1>2 DEF SendingInv

\* What the next hop hears it holds; only what it has acknowledged, or what
\* failures cost and count as lost, leaves the sender's queue.
LEMMA TransmittedKeeps ==
  ASSUME NetInv, NEW n \in Node, NEW heard \in BOOLEAN, NEW acked \in BOOLEAN,
         Transmitted(n, heard, acked)
  PROVE  NetInv'
<1>0. PICK f : f = selfDataPkt[n]
  OBVIOUS
<1> DEFINE m == route_next_hop(n, DstOf[f.flow])
           success == acked /\ ~ activeFault[n]
<1>1. /\ NetTypes /\ QueueInv /\ InboxInv /\ SendingInv /\ Custody /\ HICauses
      /\ f # NoFrame /\ (acked => heard)
      /\ heard => Len(inbox[m]) < RECEIVE_QUEUE_SIZE
      /\ inbox' = IF heard THEN [inbox EXCEPT ![m] = Append(@, f)] ELSE inbox
      /\ copies' = [copies EXCEPT ![f] = @ + (IF heard /\ ~ success THEN 1 ELSE 0)]
      /\ ackFlag' = [ackFlag EXCEPT ![n] = acked]
      /\ selfDataPkt' = [selfDataPkt EXCEPT ![n] = NoFrame]
      /\ \/ success /\ DequeueSent(n) /\ UNCHANGED fate
         \/ ~ success /\ (GiveUp(n) \/ CountFailure(n))
      /\ UNCHANGED <<packetsSent, cell, activeFault, deliveries>>
  BY <1>0 DEF NetInv, Transmitted
<1>2. /\ selfDataPkt \in [Node -> Frame \union {NoFrame}] /\ f \in Frame
      /\ n \in Carriers(f.flow) /\ AtHead(n, f)
      /\ inbox \in [Node -> Seq(Frame)] /\ copies \in [Frame -> Nat]
      /\ ackFlag \in [Node -> BOOLEAN] /\ fate \in [Frame -> SUBSET Causes]
      /\ RECEIVE_QUEUE_SIZE \in Nat
  BY <1>0, <1>1, NetAssumption DEF NetTypes, SendingInv
<1>3. m \in Node /\ (m = DstOf[f.flow] \/ m \in Carriers(f.flow))
  BY <1>2, NextHop
<1>4. f = selfDataPkt[n] /\ (success => heard)
  BY <1>0, <1>1
<1>. HIDE DEF m, success
\* The inboxes only grow, and hold the frame if it was heard.
<1>5. /\ inbox' \in [Node -> Seq(Frame)]
      /\ InboxInv'
      /\ \A g \in Frame : Underway(g) => Underway(g)'
      /\ heard => Underway(f)'
  <2>1. CASE ~ heard
    <3>1. inbox' = inbox
      BY <1>1, <2>1
    <3>. QED
      BY <1>1, <1>2, <2>1, <3>1 DEF InboxInv, Underway
  <2>2. CASE heard
    <3> DEFINE s == inbox[m]
               t == inbox'[m]
               l == Len(s)
    <3>1. /\ inbox' = [inbox EXCEPT ![m] = Append(@, f)] /\ l < RECEIVE_QUEUE_SIZE
          /\ s \in Seq(Frame) /\ t = Append(s, f)
          /\ \A k \in Node \ {m} : inbox'[k] = inbox[k]
      BY <1>1, <1>2, <1>3, <2>2
    <3>2. /\ t \in Seq(Frame) /\ Len(t) = l + 1 /\ l \in Nat
          /\ DOMAIN s = 1 .. l /\ DOMAIN t = 1 .. l + 1
          /\ \A i \in 1 .. l : t[i] = s[i]
          /\ t[l + 1] = f
      <4>. HIDE DEF s, t
      <4>. QED
        BY <1>2, <3>1, AppendFacts
    <3>3. inbox' \in [Node -> Seq(Frame)]
      BY <1>2, <1>3, <3>1
    <3>4. InboxInv'
      <4>1. ASSUME NEW k \in Node
            PROVE  /\ Len(inbox'[k]) <= RECEIVE_QUEUE_SIZE
                   /\ \A i \in DOMAIN inbox'[k] :
                        DstOf[inbox'[k][i].flow] = k \/ k \in Carriers(inbox'[k][i].flow)
        <5>1. CASE k # m
          BY <1>1, <3>1, <5>1 DEF InboxInv
        <5>2. CASE k = m
          <6>1. Len(t) <= RECEIVE_QUEUE_SIZE
            BY <1>2, <3>1, <3>2
          <6>2. ASSUME NEW i \in DOMAIN t
                PROVE  DstOf[t[i].flow] = m \/ m \in Carriers(t[i].flow)
            <7>1. CASE i = l + 1
              BY <1>3, <3>2, <7>1
            <7>2. CASE i # l + 1
              <8>1. i \in DOMAIN s /\ t[i] = s[i]
                BY <3>2, <7>2
              <8>. QED
                BY <1>1, <1>3, <8>1 DEF InboxInv
            <7>. QED
              BY <7>1, <7>2
          <6>. QED
            BY <5>2, <6>1, <6>2
        <5>. QED
          BY <5>1, <5>2
      <4>. QED
        BY <4>1 DEF InboxInv
    <3>5. ASSUME NEW g \in Frame, Underway(g)
          PROVE  Underway(g)'
      <4>1. PICK k \in Node : \E i \in DOMAIN inbox[k] : g = inbox[k][i]
        BY <3>5 DEF Underway
      <4>2. PICK i \in DOMAIN inbox[k] : g = inbox[k][i]
        BY <4>1
      <4>3. i \in DOMAIN inbox'[k] /\ inbox'[k][i] = g
        <5>1. CASE k # m
          BY <3>1, <4>2, <5>1
        <5>2. CASE k = m
          <6>1. i \in 1 .. l
            BY <3>2, <4>2, <5>2
          <6>2. i \in 1 .. l + 1
            BY <3>2, <6>1
          <6>. QED
            BY <3>2, <4>2, <5>2, <6>1, <6>2
        <5>. QED
          BY <5>1, <5>2
      <4>. QED
        BY <4>3 DEF Underway
    <3>6. Underway(f)'
      <4>1. l + 1 \in DOMAIN t
        BY <3>2
      <4>. QED
        BY <1>3, <3>2, <4>1 DEF Underway
    <3>. QED
      BY <3>3, <3>4, <3>5, <3>6
  <2>. QED
    BY <2>1, <2>2
\* The queues lose only what is heard or counts as lost.
<1>6. /\ ring' \in [Node -> [Prio -> Seq(0 .. QUEUE_SIZE - 1)]]
      /\ QueueInv'
      /\ \A k \in Node \ {n} : ring'[k] = ring[k]
      /\ hiCritMode' \in [Node -> BOOLEAN]
      /\ node_ack_fails' \in [Node -> 0 .. BEST_EFFORT_LIMIT - 1]
      /\ fate' \in [Frame -> SUBSET Causes]
      /\ \A g \in Frame :
           /\ fate[g] \subseteq fate'[g]
           /\ Queued(g) => Queued(g)' \/ fate'[g] # {} \/ Underway(g)'
           /\ CritOf[g.flow] = "HI" => fate'[g] \subseteq fate[g] \union HIReasons
  <2>1. CASE success
    <3>1. DequeueSent(n) /\ UNCHANGED fate /\ UNCHANGED cell
      BY <1>1, <2>1
    <3>2. /\ ring' \in [Node -> [Prio -> Seq(0 .. QUEUE_SIZE - 1)]]
          /\ QueueInv'
          /\ \A k \in Node \ {n} : ring'[k] = ring[k]
          /\ UNCHANGED <<hiCritMode, node_ack_fails>>
          /\ \A g \in Frame : Queued(g) => Queued(g)' \/ g = f
      BY <1>1, <1>2, <1>4, <3>1, DequeueSentKeeps
    <3>3. Underway(f)'
      BY <1>4, <1>5, <2>1
    <3>4. /\ hiCritMode' \in [Node -> BOOLEAN]
          /\ node_ack_fails' \in [Node -> 0 .. BEST_EFFORT_LIMIT - 1]
          /\ fate' \in [Frame -> SUBSET Causes]
      BY <1>1, <1>2, <3>1, <3>2 DEF NetTypes
    <3>. QED
      BY <3>1, <3>2, <3>3, <3>4
  <2>2. CASE ~ success
    <3>1. (GiveUp(n) \/ CountFailure(n)) /\ UNCHANGED cell
      BY <1>1, <2>2
    <3>. QED
      BY <1>1, <1>2, <1>4, <3>1, FailureKeeps
  <2>. QED
    BY <2>1, <2>2
<1>7. NetTypes'
  <2>1. selfDataPkt' \in [Node -> Frame \union {NoFrame}]
    BY <1>1, <1>2
  <2>2. ackFlag' \in [Node -> BOOLEAN]
    BY <1>1, <1>2
  <2>3. copies' \in [Frame -> Nat]
    BY <1>1, <1>2
  <2>4. /\ packetsSent' \in [Flow -> Nat] /\ \A fl \in Flow : packetsSent'[fl] <= MaxSeq[fl]
        /\ cell' \in [Node -> [Prio -> [Row -> Frame \union {NoFrame}]]]
        /\ activeFault' \in [Node -> BOOLEAN] /\ deliveries' \in [Frame -> Nat]
    BY <1>1 DEF NetTypes
  <2>. QED
    BY <1>5, <1>6, <2>1, <2>2, <2>3, <2>4 DEF NetTypes
<1>8. SendingInv'
  BY <1>1, <1>2, <1>6, OthersStillSend
<1>9. Custody'
  <2>1. \A g \in Frame : Kept(g) => Kept(g)'
    BY <1>1, <1>5, <1>6 DEF Kept
  <2>. QED
    BY <1>1, <2>1 DEF Custody
<1>10. HICauses'
  BY <1>1, <1>6 DEF HICauses
<1>. QED
  BY <1>5, <1>6, <1>7, <1>8, <1>9, <1>10 DEF NetInv

\* A refusal costs what a failure costs, or, with the flag of the frame
\* before, the head of the queue, which counts as lost.
LEMMA RefusedKeeps ==
  ASSUME NetInv, NEW n \in Node, Refused(n)
  PROVE  NetInv'
<1>0. PICK f : f = selfDataPkt[n]
  OBVIOUS
<1> DEFINE success == ackFlag[n] /\ ~ activeFault[n]
           lost == HeadOfQueue(n, PrioOf(f))
<1>1. /\ NetTypes /\ QueueInv /\ InboxInv /\ SendingInv /\ Custody /\ HICauses
      /\ f # NoFrame
      /\ selfDataPkt' = [selfDataPkt EXCEPT ![n] = NoFrame]
      /\ \/ success /\ DequeueSent(n) /\ Lost(lost, "staleAck")
         \/ ~ success /\ (GiveUp(n) \/ CountFailure(n))
      /\ UNCHANGED <<packetsSent, cell, activeFault, ackFlag, inbox, deliveries, copies>>
  BY <1>0 DEF NetInv, Refused
<1>2. /\ selfDataPkt \in [Node -> Frame \union {NoFrame}] /\ f \in Frame
      /\ n \in Carriers(f.flow) /\ AtHead(n, f)
      /\ fate \in [Frame -> SUBSET Causes]
  BY <1>0, <1>1 DEF NetTypes, SendingInv
<1>. HIDE DEF success, lost
<1>3. /\ ring' \in [Node -> [Prio -> Seq(0 .. QUEUE_SIZE - 1)]]
      /\ QueueInv'
      /\ \A k \in Node \ {n} : ring'[k] = ring[k]
      /\ hiCritMode' \in [Node -> BOOLEAN]
      /\ node_ack_fails' \in [Node -> 0 .. BEST_EFFORT_LIMIT - 1]
      /\ fate' \in [Frame -> SUBSET Causes]
      /\ \A g \in Frame :
           /\ fate[g] \subseteq fate'[g]
           /\ Queued(g) => Queued(g)' \/ fate'[g] # {}
           /\ CritOf[g.flow] = "HI" => fate'[g] \subseteq fate[g] \union HIReasons
  <2>1. CASE success
    <3>1. DequeueSent(n) /\ UNCHANGED cell
      BY <1>1, <2>1
    <3>2. /\ ring' \in [Node -> [Prio -> Seq(0 .. QUEUE_SIZE - 1)]]
          /\ QueueInv'
          /\ \A k \in Node \ {n} : ring'[k] = ring[k]
          /\ UNCHANGED <<hiCritMode, node_ack_fails>>
          /\ \A g \in Frame : Queued(g) => Queued(g)' \/ g \in lost
      BY <1>0, <1>1, <1>2, <3>1, DequeueSentKeeps DEF lost
    <3>3. "staleAck" \in Causes /\ "staleAck" \in HIReasons
      BY DEF Causes, HIReasons
    <3>4. /\ fate' \in [Frame -> SUBSET Causes]
          /\ \A g \in Frame :
               /\ fate[g] \subseteq fate'[g]
               /\ IF g \in lost THEN "staleAck" \in fate'[g] /\ fate'[g] # {}
                                     /\ fate'[g] \subseteq fate[g] \union {"staleAck"}
                                ELSE fate'[g] = fate[g]
      BY <1>1, <1>2, <2>1, <3>3, LostFacts
    <3>5. /\ hiCritMode' \in [Node -> BOOLEAN]
          /\ node_ack_fails' \in [Node -> 0 .. BEST_EFFORT_LIMIT - 1]
      BY <1>1, <3>2 DEF NetTypes
    <3>. QED
      BY <3>2, <3>3, <3>4, <3>5
  <2>2. CASE ~ success
    <3>1. (GiveUp(n) \/ CountFailure(n)) /\ UNCHANGED cell
      BY <1>1, <2>2
    <3>. QED
      BY <1>0, <1>1, <1>2, <3>1, FailureKeeps
  <2>. QED
    BY <2>1, <2>2
<1>4. NetTypes'
  <2>1. selfDataPkt' \in [Node -> Frame \union {NoFrame}]
    BY <1>1, <1>2
  <2>2. /\ packetsSent' \in [Flow -> Nat] /\ \A fl \in Flow : packetsSent'[fl] <= MaxSeq[fl]
        /\ cell' \in [Node -> [Prio -> [Row -> Frame \union {NoFrame}]]]
        /\ activeFault' \in [Node -> BOOLEAN] /\ ackFlag' \in [Node -> BOOLEAN]
        /\ inbox' \in [Node -> Seq(Frame)]
        /\ deliveries' \in [Frame -> Nat] /\ copies' \in [Frame -> Nat]
    BY <1>1 DEF NetTypes
  <2>. QED
    BY <1>3, <2>1, <2>2 DEF NetTypes
<1>5. InboxInv'
  BY <1>1 DEF InboxInv
<1>6. SendingInv'
  BY <1>1, <1>2, <1>3, OthersStillSend
<1>7. Custody'
  <2>1. \A g \in Frame : Kept(g) => Kept(g)'
    BY <1>1, <1>3 DEF Kept, Underway
  <2>. QED
    BY <1>1, <2>1 DEF Custody
<1>8. HICauses'
  BY <1>1, <1>3 DEF HICauses
<1>. QED
  BY <1>3, <1>4, <1>5, <1>6, <1>7, <1>8 DEF NetInv

\* A frame picked up is delivered, queued, or counts as lost.
LEMMA ReceivedKeeps ==
  ASSUME NetInv, NEW n \in Node, Received(n)
  PROVE  NetInv'
<1>0. PICK f : f = Head(inbox[n])
  OBVIOUS
<1>1. /\ NetTypes /\ QueueInv /\ InboxInv /\ SendingInv /\ Custody /\ HICauses
      /\ inbox[n] # <<>>
      /\ inbox' = [inbox EXCEPT ![n] = Tail(@)]
      /\ \/ /\ DstOf[f.flow] = n
            /\ deliveries' = [deliveries EXCEPT ![f] = @ + 1]
            /\ UNCHANGED <<ring, cell, copies, fate>>
         \/ /\ DstOf[f.flow] # n /\ Enqueue(n, f)
            /\ UNCHANGED deliveries
         \/ /\ Lost({f}, "fault")
            /\ UNCHANGED <<ring, cell, copies, deliveries>>
      /\ UNCHANGED <<packetsSent, hiCritMode, node_ack_fails, activeFault, selfDataPkt,
                     ackFlag>>
  BY <1>0 DEF NetInv, Received
<1>2. /\ inbox \in [Node -> Seq(Frame)] /\ deliveries \in [Frame -> Nat]
      /\ ring \in [Node -> [Prio -> Seq(0 .. QUEUE_SIZE - 1)]]
      /\ cell \in [Node -> [Prio -> [Row -> Frame \union {NoFrame}]]]
      /\ fate \in [Frame -> SUBSET Causes] /\ copies \in [Frame -> Nat]
      /\ selfDataPkt \in [Node -> Frame \union {NoFrame}]
      /\ RECEIVE_QUEUE_SIZE \in Nat
  BY <1>1, NetAssumption DEF NetTypes
<1> DEFINE s == inbox[n]
           t == inbox'[n]
<1>3. /\ s \in Seq(Frame) /\ s # <<>> /\ t = Tail(s) /\ f = Head(s)
      /\ \A k \in Node \ {n} : inbox'[k] = inbox[k]
  BY <1>0, <1>1, <1>2
<1>4. /\ t \in Seq(Frame) /\ Len(t) = Len(s) - 1 /\ Len(s) \in Nat
      /\ \A i \in DOMAIN t : \E j \in DOMAIN s : t[i] = s[j]
      /\ \A i \in DOMAIN s : i = 1 \/ \E j \in DOMAIN t : t[j] = s[i]
      /\ f = s[1] /\ 1 \in DOMAIN s /\ f \in Frame
  <2>. HIDE DEF s, t
  <2>1. /\ t \in Seq(Frame) /\ Len(t) = Len(s) - 1
        /\ \A i \in DOMAIN t : \E j \in DOMAIN s : t[i] = s[j]
        /\ \A i \in DOMAIN s : i = 1 \/ \E j \in DOMAIN t : t[j] = s[i]
    BY <1>3, TailEntries
  <2>2. f = s[1] /\ 1 \in DOMAIN s /\ f \in Frame /\ Len(s) \in Nat
    BY <1>3, TailFacts
  <2>. QED
    BY <2>1, <2>2
<1>5. DstOf[f.flow] = n \/ n \in Carriers(f.flow)
  BY <1>1, <1>4 DEF InboxInv
<1>6. inbox' \in [Node -> Seq(Frame)]
  BY <1>1, <1>2, <1>3, <1>4
<1>7. InboxInv'
  <2>1. ASSUME NEW k \in Node
        PROVE  /\ Len(inbox'[k]) <= RECEIVE_QUEUE_SIZE
               /\ \A i \in DOMAIN inbox'[k] :
                    DstOf[inbox'[k][i].flow] = k \/ k \in Carriers(inbox'[k][i].flow)
    <3>1. CASE k # n
      BY <1>1, <1>3, <3>1 DEF InboxInv
    <3>2. CASE k = n
      <4>1. Len(s) <= RECEIVE_QUEUE_SIZE
        BY <1>1 DEF InboxInv
      <4>2. Len(t) <= RECEIVE_QUEUE_SIZE
        <5>. HIDE DEF s, t
        <5>. QED
          BY <1>2, <1>4, <4>1
      <4>3. ASSUME NEW i \in DOMAIN t
            PROVE  DstOf[t[i].flow] = n \/ n \in Carriers(t[i].flow)
        <5>1. PICK j \in DOMAIN s : t[i] = s[j]
          BY <1>4
        <5>. QED
          BY <1>1, <5>1 DEF InboxInv
      <4>. QED
        BY <3>2, <4>2, <4>3
    <3>. QED
      BY <3>1, <3>2
  <2>. QED
    BY <2>1 DEF InboxInv
<1>8. ASSUME NEW g \in Frame, Underway(g), g # f
      PROVE  Underway(g)'
  <2>1. PICK k \in Node : \E i \in DOMAIN inbox[k] : g = inbox[k][i]
    BY <1>8 DEF Underway
  <2>2. PICK i \in DOMAIN inbox[k] : g = inbox[k][i]
    BY <2>1
  <2>3. CASE k # n
    BY <1>3, <2>2, <2>3 DEF Underway
  <2>4. CASE k = n
    <3>1. i # 1
      BY <1>4, <1>8, <2>2, <2>4
    <3>2. PICK j \in DOMAIN t : t[j] = s[i]
      BY <1>4, <2>2, <2>4, <3>1
    <3>. QED
      BY <2>2, <2>4, <3>2 DEF Underway
  <2>. QED
    BY <2>3, <2>4
<1>. HIDE DEF s, t
\* What is left to show of the three cases.
<1>9. /\ ring' \in [Node -> [Prio -> Seq(0 .. QUEUE_SIZE - 1)]]
      /\ cell' \in [Node -> [Prio -> [Row -> Frame \union {NoFrame}]]]
      /\ copies' \in [Frame -> Nat] /\ fate' \in [Frame -> SUBSET Causes]
      /\ deliveries' \in [Frame -> Nat] /\ QueueInv'
      /\ \A g \in Frame : /\ fate[g] \subseteq fate'[g]
                          /\ fate'[g] \subseteq fate[g] \union HIReasons
                          /\ deliveries[g] > 0 => deliveries'[g] > 0
                          /\ Queued(g) => Queued(g)' \/ fate'[g] # {}
      /\ Queued(f)' \/ fate'[f] # {} \/ deliveries'[f] > 0
      /\ \A m \in Node, g \in Frame : AtHead(m, g) => AtHead(m, g)'
  <2>1. CASE UNCHANGED <<ring, cell>>
    <3>1. /\ ring' \in [Node -> [Prio -> Seq(0 .. QUEUE_SIZE - 1)]]
          /\ cell' \in [Node -> [Prio -> [Row -> Frame \union {NoFrame}]]]
          /\ QueueInv'
          /\ \A g \in Frame : Queued(g) => Queued(g)'
          /\ \A m \in Node, g \in Frame : AtHead(m, g) => AtHead(m, g)'
      <4>1. QueueInv'
        BY <1>1, <2>1 DEF QueueInv, RowOK
      <4>2. \A g \in Frame : Queued(g) => Queued(g)'
        BY <2>1 DEF Queued, QueuedAt
      <4>3. \A m \in Node, g \in Frame : AtHead(m, g) => AtHead(m, g)'
        BY <2>1 DEF AtHead
      <4>. QED
        BY <1>2, <2>1, <4>1, <4>2, <4>3
    <3>2. CASE /\ deliveries' = [deliveries EXCEPT ![f] = @ + 1]
               /\ UNCHANGED <<copies, fate>>
      <4>1. /\ deliveries' \in [Frame -> Nat] /\ deliveries'[f] > 0
            /\ \A g \in Frame : deliveries[g] > 0 => deliveries'[g] > 0
        BY <1>2, <1>4, <3>2
      <4>. QED
        BY <1>2, <3>1, <3>2, <4>1
    <3>3. CASE Lost({f}, "fault") /\ UNCHANGED <<copies, deliveries>>
      <4> DEFINE lost == {f}
      <4>1. f \in lost /\ Lost(lost, "fault") /\ UNCHANGED <<copies, deliveries>>
        BY <3>3
      <4>. HIDE DEF lost
      <4>2. "fault" \in Causes /\ "fault" \in HIReasons
        BY DEF Causes, HIReasons
      <4>3. /\ fate' \in [Frame -> SUBSET Causes]
            /\ \A g \in Frame :
                 /\ fate[g] \subseteq fate'[g]
                 /\ IF g \in lost THEN "fault" \in fate'[g] /\ fate'[g] # {}
                                       /\ fate'[g] \subseteq fate[g] \union {"fault"}
                                  ELSE fate'[g] = fate[g]
        BY <1>2, <4>1, <4>2, LostFacts
      <4>. QED
        BY <1>2, <1>4, <3>1, <4>1, <4>2, <4>3
    <3>4. CASE DstOf[f.flow] # n /\ Enqueue(n, f) /\ UNCHANGED deliveries
      <4>1. n \in Carriers(f.flow)
        BY <1>5, <3>4
      <4>2. "ringFull" \in HIReasons /\ "overwritten" \in HIReasons
        BY DEF HIReasons
      <4>3. /\ copies' \in [Frame -> Nat] /\ fate' \in [Frame -> SUBSET Causes]
            /\ \A g \in Frame : /\ fate[g] \subseteq fate'[g]
                                /\ fate'[g] \subseteq fate[g] \union {"ringFull", "overwritten"}
                                /\ Queued(g) \/ g = f => Queued(g)' \/ fate'[g] # {}
        BY <1>1, <1>4, <3>4, <4>1, EnqueueKeeps
      <4>. QED
        BY <1>2, <1>4, <3>1, <3>4, <4>2, <4>3
    <3>. QED
      BY <1>1, <3>2, <3>3, <3>4
  <2>2. CASE DstOf[f.flow] # n /\ Enqueue(n, f) /\ UNCHANGED deliveries
    <3>1. n \in Carriers(f.flow)
      BY <1>5, <2>2
    <3>2. "ringFull" \in HIReasons /\ "overwritten" \in HIReasons
      BY DEF HIReasons
    <3>3. /\ ring' \in [Node -> [Prio -> Seq(0 .. QUEUE_SIZE - 1)]]
          /\ cell' \in [Node -> [Prio -> [Row -> Frame \union {NoFrame}]]]
          /\ copies' \in [Frame -> Nat] /\ fate' \in [Frame -> SUBSET Causes]
          /\ QueueInv'
          /\ \A g \in Frame : /\ fate[g] \subseteq fate'[g]
                              /\ fate'[g] \subseteq fate[g] \union {"ringFull", "overwritten"}
                              /\ Queued(g) \/ g = f => Queued(g)' \/ fate'[g] # {}
          /\ \A m \in Node, g \in Frame : AtHead(m, g) => AtHead(m, g)'
      BY <1>1, <1>4, <2>2, <3>1, EnqueueKeeps
    <3>. QED
      BY <1>2, <1>4, <2>2, <3>2, <3>3
  <2>. QED
    BY <1>1, <2>1, <2>2
<1>10. NetTypes'
  BY <1>1, <1>6, <1>9 DEF NetTypes
<1>11. SendingInv'
  <2>1. \A k \in Node : selfDataPkt'[k] = selfDataPkt[k]
    BY <1>1
  <2>. QED
    BY <1>1, <1>2, <1>9, <2>1 DEF SendingInv
<1>12. Custody'
  <2>1. \A g \in Frame : Kept(g) => Kept(g)'
    BY <1>8, <1>9 DEF Kept
  <2>. QED
    BY <1>1, <2>1 DEF Custody
<1>13. HICauses'
  BY <1>1, <1>9 DEF HICauses
<1>. QED
  BY <1>7, <1>9, <1>10, <1>11, <1>12, <1>13 DEF NetInv

LEMMA OtherwiseKeeps ==
  ASSUME NetInv, (\E n \in FaultyNode : FaultChanges(n)) \/ UNCHANGED vars
  PROVE  NetInv'
<1>1. UNCHANGED <<packetsSent, macVars, selfDataPkt, ackFlag, inbox, fate,
                  deliveries, copies>>
  BY DEF FaultChanges, vars
<1>2. activeFault' \in [Node -> BOOLEAN]
  <2>1. activeFault \in [Node -> BOOLEAN]
    BY DEF NetInv, NetTypes
  <2>2. CASE \E n \in FaultyNode : FaultChanges(n)
    BY <2>1, <2>2 DEF FaultChanges
  <2>. QED
    BY <2>1, <2>2 DEF vars
<1>3. NetTypes'
  BY <1>1, <1>2 DEF NetInv, NetTypes, macVars
<1>4. QueueInv' /\ InboxInv' /\ HICauses'
  BY <1>1 DEF NetInv, QueueInv, RowOK, InboxInv, HICauses, macVars
<1>5. SendingInv'
  BY <1>1 DEF NetInv, SendingInv, AtHead, macVars
<1>6. Custody'
  BY <1>1 DEF NetInv, Custody, Kept, Queued, QueuedAt, Underway, macVars
<1>. QED
  BY <1>3, <1>4, <1>5, <1>6 DEF NetInv

-----------------------------------------------------------------------------
(* The theorems.                                                           *)

\* At every step a queue holds only frames of its priority at nodes on their
\* way, the frame being sent can be found at the head of its queue, and every
\* frame made is kept, delivered or counted as lost (TdmaMacP.nc:325-359,
\* 700-753,922-1012).
THEOREM NetInvariant == Spec => []NetInv
<1>1. NetInv /\ [Next]_vars => NetInv'
  <2>. SUFFICES ASSUME NetInv, [Next]_vars PROVE NetInv'
    OBVIOUS
  <2>1. ASSUME NEW fl \in Flow, SendTimerFired(fl) PROVE NetInv'
    BY <2>1, SendKeeps
  <2>2. ASSUME NEW n \in Node, TxSlot(n) PROVE NetInv'
    BY <2>2, TxSlotKeeps
  <2>3. ASSUME NEW n \in Node, Transmission(n) PROVE NetInv'
    BY <2>3, TransmittedKeeps, RefusedKeeps DEF Transmission
  <2>4. ASSUME NEW n \in Node, Received(n) PROVE NetInv'
    BY <2>4, ReceivedKeeps
  <2>. QED
    BY <2>1, <2>2, <2>3, <2>4, OtherwiseKeeps DEF Next
<1>. QED
  BY <1>1, InitNet, PTL DEF Spec

\* The queues, inboxes and counters keep their types and their bounds; in
\* particular no row past the end of a queue's buffer is ever in its ring
\* (TdmaMacP.nc:209-231).
THEOREM TypesHold == Spec => []TypeOK
<1>1. NetInv => TypeOK
  <2>. SUFFICES ASSUME NetInv PROVE TypeOK
    OBVIOUS
  <2>1. NetTypes /\ QueueInv /\ InboxInv
    BY DEF NetInv
  <2>2. \A fl \in Flow : packetsSent[fl] \in 0 .. MaxSeq[fl]
    BY <2>1, NetAssumption DEF NetTypes
  <2>3. ASSUME NEW n \in Node, NEW p \in Prio
        PROVE  /\ Len(ring[n][p]) <= QUEUE_SIZE
               /\ \A i \in DOMAIN ring[n][p] : /\ ring[n][p][i] \in 0 .. QUEUE_SIZE - 1
                                               /\ cell[n][p][ring[n][p][i]] \in Frame
    BY <2>1, QueueTypes DEF QueueInv, RowOK
  <2>4. inbox \in [Node -> UNION {[1 .. k -> Frame] : k \in 0 .. RECEIVE_QUEUE_SIZE}]
    <3>1. ASSUME NEW n \in Node
          PROVE  inbox[n] \in UNION {[1 .. k -> Frame] : k \in 0 .. RECEIVE_QUEUE_SIZE}
      <4>1. /\ inbox[n] \in Seq(Frame) /\ Len(inbox[n]) <= RECEIVE_QUEUE_SIZE
            /\ RECEIVE_QUEUE_SIZE \in Nat
        BY <2>1, NetAssumption DEF NetTypes, InboxInv
      <4>2. Len(inbox[n]) \in 0 .. RECEIVE_QUEUE_SIZE
        BY <4>1
      <4>3. inbox[n] \in [1 .. Len(inbox[n]) -> Frame]
        BY <4>1
      <4>. QED
        BY <4>2, <4>3
    <3>. QED
      BY <2>1, <3>1 DEF NetTypes
  <2>. QED
    BY <2>1, <2>2, <2>3, <2>4 DEF TypeOK, NetTypes
<1>. QED
  BY <1>1, NetInvariant, PTL

\* However many flows, however small the queues, whatever the channel loses
\* and whichever nodes fail: a frame made is queued, underway, delivered or
\* lost for a reason of the code, and a HI frame only for the five that a HI
\* frame can meet (TdmaMacP.nc:729,753,935,970,1050).
THEOREM NothingLostSilently == Spec => []NoSilentLoss
<1>1. NetInv => NoSilentLoss
  BY DEF NetInv, Custody, Kept, HICauses, NoSilentLoss
<1>. QED
  BY <1>1, NetInvariant, PTL

-----------------------------------------------------------------------------
(* How often a frame may still be delivered: once for every place it is in *)
(* from which the code may bring it there.                                 *)

Entries(f) ==
  {e \in Node \X (1 .. QUEUE_SIZE) :
     /\ e[2] \in DOMAIN ring[e[1]][PrioOf(f)]
     /\ cell[e[1]][PrioOf(f)][ring[e[1]][PrioOf(f)][e[2]]] = f}
Arrivals(f) ==
  {e \in Node \X (1 .. RECEIVE_QUEUE_SIZE) :
     e[2] \in DOMAIN inbox[e[1]] /\ inbox[e[1]][e[2]] = f}

\* Being sent, while its entry already leads to another frame.
Orphans(f) ==
  {n \in Node : /\ selfDataPkt[n] # NoFrame /\ selfDataPkt[n] = f
                /\ cell[n][PrioOf(f)][ring[n][PrioOf(f)][1]] # f}
Unmade(f) == IF f.seq < packetsSent[f.flow] THEN 0 ELSE 1

Places(f) ==
  Cardinality(Entries(f)) + Cardinality(Arrivals(f)) + Cardinality(Orphans(f)) + Unmade(f)
CountInv == \A f \in Frame : deliveries[f] + Places(f) <= copies[f]

LEMMA NodesFinite ==
  ASSUME NEW S \in SUBSET Node
  PROVE  IsFiniteSet(S) /\ Cardinality(S) \in Nat
<1>1. IsFiniteSet(0 .. 4)
  <2>1. \A a, b \in Int : IsFiniteSet(a .. b)
    BY FS_Interval
  <2>2. 0 \in Int /\ 4 \in Int
    OBVIOUS
  <2>. QED
    BY <2>1, <2>2, Zenon
<1>2. S \in SUBSET (0 .. 4)
  BY NetAssumption
<1>3. IsFiniteSet(S)
  BY <1>1, <1>2, FS_Subset
<1>. QED
  BY <1>3, FS_CardinalityType

LEMMA PairsFinite ==
  ASSUME NEW k \in Nat, NEW S \in SUBSET (Node \X (1 .. k))
  PROVE  IsFiniteSet(S) /\ Cardinality(S) \in Nat
<1>1. IsFiniteSet(1 .. k)
  BY FS_Interval
<1>2. IsFiniteSet(Node)
  BY NodesFinite
<1>3. IsFiniteSet(Node \X (1 .. k))
  BY <1>1, <1>2, FS_Product
<1>4. IsFiniteSet(S)
  BY <1>3, FS_Subset
<1>. QED
  BY <1>4, FS_CardinalityType

\* Of places along sequences, one of which has lost its head.
LEMMA ShiftedPlaces ==
  ASSUME NEW k \in Nat, NEW S \in SUBSET (Node \X (1 .. k)),
         NEW T \in SUBSET (Node \X (1 .. k)), NEW m \in Node,
         \A n \in Node, i \in 1 .. k : <<n, i>> \in T =>
           IF n = m THEN <<n, i + 1>> \in S ELSE <<n, i>> \in S
  PROVE  /\ Cardinality(T) <= Cardinality(S)
         /\ <<m, 1>> \in S => Cardinality(T) + 1 <= Cardinality(S)
<1> DEFINE g == [e \in T |-> IF e[1] = m THEN <<m, e[2] + 1>> ELSE e]
           U == S \ {<<m, 1>>}
<1>1. \A e \in T : e = <<e[1], e[2]>> /\ e[1] \in Node /\ e[2] \in 1 .. k
  OBVIOUS
<1>2. ASSUME NEW e \in T
      PROVE  g[e] \in U
  <2>1. CASE e[1] = m
    <3>1. <<m, e[2] + 1>> \in S
      BY <1>1, <2>1
    <3>2. e[2] + 1 # 1
      BY <1>1
    <3>. QED
      BY <2>1, <3>1, <3>2
  <2>2. CASE e[1] # m
    <3>1. <<e[1], e[2]>> \in S
      BY <1>1, <2>2
    <3>2. e \in S
      BY <1>1, <3>1
    <3>3. e # <<m, 1>>
      BY <2>2
    <3>. QED
      BY <2>2, <3>2, <3>3
  <2>. QED
    BY <2>1, <2>2
<1>3. ASSUME NEW a \in T, NEW b \in T, g[a] = g[b]
      PROVE  a = b
  <2>1. CASE a[1] = m /\ b[1] = m
    <3>1. <<m, a[2] + 1>> = <<m, b[2] + 1>>
      BY <1>3, <2>1
    <3>2. a[2] = b[2]
      BY <1>1, <3>1
    <3>. QED
      BY <1>1, <2>1, <3>2
  <2>2. CASE a[1] # m /\ b[1] # m
    BY <1>3, <2>2
  <2>3. CASE a[1] = m /\ b[1] # m
    <3>1. <<m, a[2] + 1>> = <<b[1], b[2]>>
      BY <1>1, <1>3, <2>3
    <3>. QED
      BY <2>3, <3>1
  <2>4. CASE a[1] # m /\ b[1] = m
    <3>1. <<a[1], a[2]>> = <<m, b[2] + 1>>
      BY <1>1, <1>3, <2>4
    <3>. QED
      BY <2>4, <3>1
  <2>. QED
    BY <2>1, <2>2, <2>3, <2>4
<1>4. g \in Injection(T, U)
  <2>1. g \in [T -> U]
    BY <1>2
  <2>2. DOMAIN g = T
    OBVIOUS
  <2>. HIDE DEF g, U
  <2>. QED
    BY <1>3, <2>1, <2>2 DEF Injection, IsInjective
<1>. HIDE DEF g
<1>5. IsFiniteSet(S) /\ Cardinality(S) \in Nat
  BY PairsFinite
<1>6. /\ IsFiniteSet(U)
      /\ Cardinality(U) = IF <<m, 1>> \in S THEN Cardinality(S) - 1 ELSE Cardinality(S)
  BY <1>5, FS_RemoveElement
<1>. HIDE DEF U
<1>7. Cardinality(T) <= Cardinality(U)
  BY <1>4, <1>6, FS_Injection
<1>8. Cardinality(T) \in Nat
  BY PairsFinite
<1>. QED
  BY <1>5, <1>6, <1>7, <1>8

LEMMA OnePlaceMore ==
  ASSUME NEW k \in Nat, NEW S \in SUBSET (Node \X (1 .. k)),
         NEW T \in SUBSET (Node \X (1 .. k)), NEW x, T \subseteq S \union {x}
  PROVE  Cardinality(T) <= Cardinality(S) + 1
<1>1. IsFiniteSet(S) /\ Cardinality(S) \in Nat /\ Cardinality(T) \in Nat
  BY PairsFinite
<1>2. /\ IsFiniteSet(S \union {x})
      /\ Cardinality(S \union {x}) = IF x \in S THEN Cardinality(S) ELSE Cardinality(S) + 1
  BY <1>1, FS_AddElement
<1>3. Cardinality(T) <= Cardinality(S \union {x})
  BY <1>2, FS_Subset
<1>. QED
  BY <1>1, <1>2, <1>3

LEMMA FewerPlaces ==
  ASSUME NEW k \in Nat, NEW S \in SUBSET (Node \X (1 .. k)), NEW T \in SUBSET S
  PROVE  /\ Cardinality(T) <= Cardinality(S)
         /\ \A x \in S : x \notin T => Cardinality(T) + 1 <= Cardinality(S)
<1>1. /\ IsFiniteSet(S) /\ Cardinality(S) \in Nat
      /\ IsFiniteSet(T) /\ Cardinality(T) \in Nat
  BY PairsFinite
<1>2. Cardinality(T) <= Cardinality(S) /\ (Cardinality(S) = Cardinality(T) => S = T)
  BY <1>1, FS_Subset
<1>. QED
  BY <1>1, <1>2

LEMMA NodesCounted ==
  ASSUME NEW S \in SUBSET Node, NEW T \in SUBSET Node, NEW x, T \subseteq S \union {x}
  PROVE  /\ Cardinality(T) <= Cardinality(S) + 1
         /\ x \notin T => Cardinality(T) <= Cardinality(S)
         /\ x \notin T /\ x \in S => Cardinality(T) + 1 <= Cardinality(S)
<1>1. /\ IsFiniteSet(S) /\ Cardinality(S) \in Nat /\ IsFiniteSet(T) /\ Cardinality(T) \in Nat
  BY NodesFinite
<1>2. /\ IsFiniteSet(S \union {x})
      /\ Cardinality(S \union {x}) = IF x \in S THEN Cardinality(S) ELSE Cardinality(S) + 1
  BY <1>1, FS_AddElement
<1>3. Cardinality(T) <= Cardinality(S \union {x})
  BY <1>2, FS_Subset
<1>4. x \notin T => Cardinality(T) <= Cardinality(S) /\ (Cardinality(S) = Cardinality(T) => S = T)
  <2>1. x \notin T => T \in SUBSET S
    OBVIOUS
  <2>. QED
    BY <1>1, <2>1, FS_Subset
<1>. QED
  BY <1>1, <1>2, <1>3, <1>4

LEMMA PlaceTypes ==
  ASSUME NEW f
  PROVE  /\ Entries(f) \in SUBSET (Node \X (1 .. QUEUE_SIZE))
         /\ Entries(f)' \in SUBSET (Node \X (1 .. QUEUE_SIZE))
         /\ Arrivals(f) \in SUBSET (Node \X (1 .. RECEIVE_QUEUE_SIZE))
         /\ Arrivals(f)' \in SUBSET (Node \X (1 .. RECEIVE_QUEUE_SIZE))
         /\ Orphans(f) \in SUBSET Node /\ Orphans(f)' \in SUBSET Node
         /\ QUEUE_SIZE \in Nat /\ RECEIVE_QUEUE_SIZE \in Nat
         /\ Cardinality(Entries(f)) \in Nat /\ Cardinality(Entries(f)') \in Nat
         /\ Cardinality(Arrivals(f)) \in Nat /\ Cardinality(Arrivals(f)') \in Nat
         /\ Cardinality(Orphans(f)) \in Nat /\ Cardinality(Orphans(f)') \in Nat
<1>1. /\ Entries(f) \in SUBSET (Node \X (1 .. QUEUE_SIZE))
      /\ Entries(f)' \in SUBSET (Node \X (1 .. QUEUE_SIZE))
  BY DEF Entries
<1>2. /\ Arrivals(f) \in SUBSET (Node \X (1 .. RECEIVE_QUEUE_SIZE))
      /\ Arrivals(f)' \in SUBSET (Node \X (1 .. RECEIVE_QUEUE_SIZE))
  BY DEF Arrivals
<1>3. Orphans(f) \in SUBSET Node /\ Orphans(f)' \in SUBSET Node
  BY DEF Orphans
<1>4. QUEUE_SIZE \in Nat /\ RECEIVE_QUEUE_SIZE \in Nat
  BY NetAssumption
<1>5. /\ Cardinality(Entries(f)) \in Nat /\ Cardinality(Entries(f)') \in Nat
      /\ Cardinality(Arrivals(f)) \in Nat /\ Cardinality(Arrivals(f)') \in Nat
  BY <1>1, <1>2, <1>4, PairsFinite
<1>6. Cardinality(Orphans(f)) \in Nat /\ Cardinality(Orphans(f)') \in Nat
  BY <1>3, NodesFinite
<1>. QED
  BY <1>1, <1>2, <1>3, <1>4, <1>5, <1>6

LEMMA EntryMeaning ==
  ASSUME NetTypes, QueueInv, NEW g \in Frame, NEW n \in Node, NEW i
  PROVE  <<n, i>> \in Entries(g) <=>
           i \in DOMAIN ring[n][PrioOf(g)] /\ cell[n][PrioOf(g)][ring[n][PrioOf(g)][i]] = g
<1>1. /\ ring[n][PrioOf(g)] \in Seq(0 .. QUEUE_SIZE - 1)
      /\ Len(ring[n][PrioOf(g)]) \in 0 .. QUEUE_SIZE /\ QUEUE_SIZE \in Nat
  BY FrameFacts, QueueTypes, NetAssumption
<1>2. DOMAIN ring[n][PrioOf(g)] \subseteq 1 .. QUEUE_SIZE
  BY <1>1, SeqFacts
<1>. QED
  BY <1>2 DEF Entries

\* Queues from which frames are only taken.
LEMMA ShrinkCounts ==
  ASSUME NetTypes, QueueInv, NEW n \in Node, NEW q, UNCHANGED cell,
         ring' = [ring EXCEPT ![n] = q], Shrinks(n, q), NEW g \in Frame
  PROVE  /\ Cardinality(Entries(g)') <= Cardinality(Entries(g))
         /\ /\ ring[n][PrioOf(g)] # <<>> /\ q[PrioOf(g)] = Tail(ring[n][PrioOf(g)])
            /\ <<n, 1>> \in Entries(g)
            => Cardinality(Entries(g)') + 1 <= Cardinality(Entries(g))
<1>0. PICK p : p = PrioOf(g)
  OBVIOUS
<1>1. /\ p \in Prio /\ ring'[n] = q /\ \A m \in Node \ {n} : ring'[m] = ring[m]
      /\ \/ q[p] = ring[n][p] \/ q[p] = <<>>
         \/ ring[n][p] # <<>> /\ q[p] = Tail(ring[n][p])
      /\ ring[n][p] \in Seq(0 .. QUEUE_SIZE - 1)
  BY <1>0, FrameFacts, QueueTypes DEF NetTypes, Shrinks
<1>2. /\ QUEUE_SIZE \in Nat /\ Entries(g) \in SUBSET (Node \X (1 .. QUEUE_SIZE))
      /\ Entries(g)' \in SUBSET (Node \X (1 .. QUEUE_SIZE))
  BY PlaceTypes
<1>3. CASE ring[n][p] # <<>> /\ q[p] = Tail(ring[n][p])
  <2>1. ASSUME NEW m \in Node, NEW i \in 1 .. QUEUE_SIZE, <<m, i>> \in Entries(g)'
        PROVE  IF m = n THEN <<m, i + 1>> \in Entries(g) ELSE <<m, i>> \in Entries(g)
    <3>1. i \in DOMAIN ring'[m][p] /\ cell[m][p][ring'[m][p][i]] = g
      BY <1>0, <2>1 DEF Entries
    <3>2. CASE m # n
      BY <1>0, <1>1, <3>1, <3>2, EntryMeaning
    <3>3. CASE m = n
      <4>1. /\ DOMAIN ring[n][p] = 1 .. Len(ring[n][p]) /\ Len(ring[n][p]) \in Nat
            /\ DOMAIN q[p] = 1 .. Len(ring[n][p]) - 1
            /\ \A j \in 1 .. Len(ring[n][p]) - 1 : q[p][j] = ring[n][p][j + 1]
        BY <1>1, <1>3, TailFacts
      <4>2. i \in 1 .. Len(ring[n][p]) - 1 /\ cell[n][p][ring[n][p][i + 1]] = g
        BY <1>1, <3>1, <3>3, <4>1
      <4>3. i + 1 \in DOMAIN ring[n][p]
        BY <4>1, <4>2
      <4>. QED
        BY <1>0, <3>3, <4>2, <4>3, EntryMeaning
    <3>. QED
      BY <3>2, <3>3
  <2> DEFINE S == Entries(g)
             T == Entries(g)'
  <2>2. /\ S \in SUBSET (Node \X (1 .. QUEUE_SIZE)) /\ T \in SUBSET (Node \X (1 .. QUEUE_SIZE))
        /\ \A m \in Node, i \in 1 .. QUEUE_SIZE : <<m, i>> \in T =>
             IF m = n THEN <<m, i + 1>> \in S ELSE <<m, i>> \in S
    BY <1>2, <2>1
  <2>. HIDE DEF S, T
  <2>3. /\ Cardinality(T) <= Cardinality(S)
        /\ <<n, 1>> \in S => Cardinality(T) + 1 <= Cardinality(S)
    BY <1>2, <2>2, ShiftedPlaces
  <2>. QED
    BY <2>3 DEF S, T
<1>4. CASE ~ (ring[n][p] # <<>> /\ q[p] = Tail(ring[n][p]))
  <2>1. ASSUME NEW m \in Node, NEW i \in 1 .. QUEUE_SIZE, <<m, i>> \in Entries(g)'
        PROVE  <<m, i>> \in Entries(g)
    <3>1. i \in DOMAIN ring'[m][p] /\ cell[m][p][ring'[m][p][i]] = g
      BY <1>0, <2>1 DEF Entries
    <3>2. ring'[m][p] = ring[m][p]
      BY <1>1, <1>4, <3>1
    <3>. QED
      BY <1>0, <3>1, <3>2, EntryMeaning
  <2>2. Entries(g)' \in SUBSET Entries(g)
    BY <1>2, <2>1
  <2>3. Cardinality(Entries(g)') <= Cardinality(Entries(g))
    BY <1>2, <2>2, FewerPlaces
  <2>. QED
    BY <1>0, <1>4, <2>3
<1>. QED
  BY <1>3, <1>4

\* A node that did not change its queues sends no more orphans than before.
LEMMA OrphanMeaning ==
  ASSUME NetTypes, QueueInv, SendingInv, NEW g \in Frame, NEW k \in Node,
         selfDataPkt[k] # NoFrame, selfDataPkt[k] = g
  PROVE  /\ PrioOf(g) \in Prio /\ ring[k][PrioOf(g)] # <<>> /\ 1 \in DOMAIN ring[k][PrioOf(g)]
         /\ ring[k][PrioOf(g)][1] \in 0 .. QUEUE_SIZE - 1
         /\ k \in Orphans(g) <=> <<k, 1>> \notin Entries(g)
<1>1. PrioOf(g) \in Prio /\ ring[k][PrioOf(g)] # <<>>
  BY FrameFacts DEF SendingInv, AtHead
<1>2. 1 \in DOMAIN ring[k][PrioOf(g)]
  BY <1>1, QueuedFacts
<1>3. ring[k][PrioOf(g)][1] \in 0 .. QUEUE_SIZE - 1
  BY <1>1, <1>2, QueueTypes
<1>. QED
  BY <1>1, <1>2, <1>3, EntryMeaning DEF Orphans

LEMMA PairsOf ==
  ASSUME NEW n, NEW S, IsFiniteSet(S)
  PROVE  IsFiniteSet({n} \X S) /\ Cardinality({n} \X S) = Cardinality(S)
<1>1. IsFiniteSet({n}) /\ Cardinality({n}) = 1
  BY FS_Singleton
<1>2. /\ IsFiniteSet({n} \X S)
      /\ Cardinality({n} \X S) = Cardinality({n}) * Cardinality(S)
  BY <1>1, FS_Product
<1>3. Cardinality(S) \in Nat
  BY FS_CardinalityType
<1>. QED
  BY <1>1, <1>2, <1>3

\* What is put into a queue takes one place more; the entries that come to
\* lead to it are counted as copies, and where the frame they led to is being
\* sent, that place is lost too.
LEMMA EnqueueCounts ==
  ASSUME NetTypes, QueueInv, SendingInv, NEW n \in Node, NEW f \in Frame,
         Enqueue(n, f), UNCHANGED selfDataPkt, NEW g \in Frame
  PROVE  Cardinality(Entries(g)') + Cardinality(Orphans(g)') + copies[g]
           <= Cardinality(Entries(g)) + Cardinality(Orphans(g)) + copies'[g]
              + (IF g = f THEN 1 ELSE 0)
<1>0. PICK p, row : p = PrioOf(f) /\ row = Len(ring[n][p])
  OBVIOUS
<1>1. /\ p \in Prio /\ row \in Row
      /\ 0 .. QUEUE_SIZE - 1 \subseteq Row /\ QUEUE_SIZE \notin 0 .. QUEUE_SIZE - 1
      /\ row \in 0 .. QUEUE_SIZE
      /\ Cardinality(Overwritten(n, p, row)) \in Nat
      /\ cell'[n][p][row] = f
      /\ \A m \in Node, r \in Prio, x \in Row :
           ~ (m = n /\ r = p /\ x = row) => cell'[m][r][x] = cell[m][r][x]
      /\ \A m \in Node, r \in Prio : ~ (m = n /\ r = p) => ring'[m][r] = ring[m][r]
      /\ IF row = QUEUE_SIZE THEN ring'[n][p] = ring[n][p]
                             ELSE ring'[n][p] = Append(ring[n][p], row)
  BY <1>0, EnqueueShape
<1>2. /\ row = QUEUE_SIZE => copies' = copies
      /\ row # QUEUE_SIZE =>
           copies' = [copies EXCEPT ![f] = @ + Cardinality(Overwritten(n, p, row))]
      /\ copies \in [Frame -> Nat]
  BY <1>0 DEF Enqueue, NetTypes
<1>3. PICK r : r = PrioOf(g)
  OBVIOUS
<1>4. r \in Prio
  BY <1>3, FrameFacts
<1>5. /\ ring[n][p] \in Seq(0 .. QUEUE_SIZE - 1) /\ QUEUE_SIZE \in Nat
      /\ DOMAIN ring[n][p] = 1 .. row /\ row \in Nat
      /\ \A m \in Node : \A i \in DOMAIN ring[m][r] : ring[m][r][i] \in 0 .. QUEUE_SIZE - 1
  <2>1. ring[n][p] \in Seq(0 .. QUEUE_SIZE - 1) /\ QUEUE_SIZE \in Nat
    BY <1>1, QueueTypes, NetAssumption
  <2>2. DOMAIN ring[n][p] = 1 .. row /\ row \in Nat
    BY <1>0, <2>1, SeqFacts
  <2>3. \A m \in Node : \A i \in DOMAIN ring[m][r] : ring[m][r][i] \in 0 .. QUEUE_SIZE - 1
    BY <1>4, QueueTypes
  <2>. QED
    BY <2>1, <2>2, <2>3
\* Which entry leads where.
<1>6. ASSUME NEW m \in Node, NEW i \in DOMAIN ring[m][r]
      PROVE  /\ i \in DOMAIN ring'[m][r] /\ ring'[m][r][i] = ring[m][r][i]
             /\ cell'[m][r][ring[m][r][i]] =
                  IF m = n /\ r = p /\ ring[m][r][i] = row
                  THEN f ELSE cell[m][r][ring[m][r][i]]
  <2>1. ring[m][r][i] \in Row
    BY <1>1, <1>5
  <2>2. cell'[m][r][ring[m][r][i]] =
          IF m = n /\ r = p /\ ring[m][r][i] = row THEN f ELSE cell[m][r][ring[m][r][i]]
    BY <1>1, <1>4, <2>1
  <2>3. CASE ~ (m = n /\ r = p)
    BY <1>1, <1>4, <2>2, <2>3
  <2>4. CASE m = n /\ r = p /\ row = QUEUE_SIZE
    BY <1>1, <2>2, <2>4
  <2>5. CASE m = n /\ r = p /\ row # QUEUE_SIZE
    <3>1. row \in 0 .. QUEUE_SIZE - 1
      BY <1>1, <1>5, <2>5
    <3>2. ring'[n][p] = Append(ring[n][p], row)
      BY <1>1, <2>5
    <3>3. /\ DOMAIN Append(ring[n][p], row) = 1 .. Len(ring[n][p]) + 1
          /\ \A j \in 1 .. Len(ring[n][p]) : Append(ring[n][p], row)[j] = ring[n][p][j]
      BY <1>5, <3>1, AppendFacts
    <3>4. i \in 1 .. row /\ row = Len(ring[n][p])
      BY <1>0, <1>5, <2>5
    <3>5. i \in 1 .. row + 1
      BY <1>5, <3>4
    <3>. QED
      BY <2>2, <2>5, <3>2, <3>3, <3>4, <3>5
  <2>. QED
    BY <2>3, <2>4, <2>5
<1>7. ASSUME NEW m \in Node, NEW i \in DOMAIN ring'[m][r], i \notin DOMAIN ring[m][r]
      PROVE  m = n /\ r = p /\ row # QUEUE_SIZE /\ i = row + 1 /\ ring'[m][r][i] = row
  <2>1. m = n /\ r = p /\ row # QUEUE_SIZE
    BY <1>1, <1>4, <1>7
  <2>2. row \in 0 .. QUEUE_SIZE - 1
    BY <1>1, <1>5, <2>1
  <2>3. /\ DOMAIN Append(ring[n][p], row) = 1 .. Len(ring[n][p]) + 1
        /\ Append(ring[n][p], row)[Len(ring[n][p]) + 1] = row
    BY <1>5, <2>2, AppendFacts
  <2>4. i \in 1 .. row + 1 /\ i \notin 1 .. row
    BY <1>0, <1>1, <1>5, <1>7, <2>1, <2>3
  <2>5. i = row + 1
    BY <1>5, <2>4
  <2>. QED
    BY <1>0, <1>1, <2>1, <2>3, <2>5
\* What is being sent is an orphan if it was, or its entry now leads to f.
<1>8. ASSUME NEW k \in Orphans(g)'
      PROVE  /\ k \in Node /\ selfDataPkt[k] # NoFrame /\ selfDataPkt[k] = g
             /\ 1 \in DOMAIN ring[k][r] /\ cell'[k][r][ring[k][r][1]] # g
             /\ k \in Orphans(g) \/ (k = n /\ r = p /\ ring[n][p][1] = row /\ g # f
                                     /\ <<n, 1>> \in Entries(g))
  <2>1. k \in Node /\ selfDataPkt[k] # NoFrame /\ selfDataPkt[k] = g
    BY <1>8 DEF Orphans
  <2>2. 1 \in DOMAIN ring[k][r] /\ (k \in Orphans(g) <=> <<k, 1>> \notin Entries(g))
    BY <1>3, <2>1, OrphanMeaning
  <2>3. cell'[k][r][ring'[k][r][1]] # g
    BY <1>3, <1>8 DEF Orphans
  <2>4. cell'[k][r][ring[k][r][1]] # g
    BY <1>6, <2>1, <2>2, <2>3
  <2>5. <<k, 1>> \in Entries(g) => cell[k][r][ring[k][r][1]] = g
    BY <1>3, <2>1, EntryMeaning
  <2>. QED
    BY <1>6, <2>1, <2>2, <2>4, <2>5
<1>9. PICK E, F, O, P : /\ E = Entries(g) /\ F = Entries(g)'
                        /\ O = Orphans(g) /\ P = Orphans(g)'
  OBVIOUS
<1>10. /\ E \in SUBSET (Node \X (1 .. QUEUE_SIZE)) /\ F \in SUBSET (Node \X (1 .. QUEUE_SIZE))
       /\ O \in SUBSET Node /\ P \in SUBSET Node
       /\ Cardinality(E) \in Nat /\ Cardinality(F) \in Nat
       /\ Cardinality(O) \in Nat /\ Cardinality(P) \in Nat
       /\ copies[g] \in Nat /\ copies'[g] \in Nat
  <2>1. copies'[g] \in Nat
    <3>1. CASE row = QUEUE_SIZE
      BY <1>2, <3>1
    <3>2. CASE row # QUEUE_SIZE
      BY <1>1, <1>2, <3>2
    <3>. QED
      BY <3>1, <3>2
  <2>. QED
    BY <1>2, <1>9, <2>1, PlaceTypes
<1>11. ASSUME NEW m \in Node, NEW i, <<m, i>> \in F
       PROVE  \/ <<m, i>> \in E
              \/ /\ g = f /\ m = n /\ row # QUEUE_SIZE
                 /\ i = row + 1 \/ i \in Overwritten(n, p, row)
  <2>1. i \in DOMAIN ring'[m][r] /\ cell'[m][r][ring'[m][r][i]] = g
    BY <1>3, <1>9, <1>11 DEF Entries
  <2>2. CASE i \in DOMAIN ring[m][r]
    <3>1. cell'[m][r][ring[m][r][i]] = g
      BY <1>6, <2>1, <2>2
    <3>2. CASE m = n /\ r = p /\ ring[m][r][i] = row
      <4>1. g = f /\ i \in Overwritten(n, p, row)
        BY <1>6, <2>2, <3>1, <3>2 DEF Overwritten
      <4>2. row # QUEUE_SIZE
        BY <1>1, <1>5, <2>2, <3>2
      <4>. QED
        BY <3>2, <4>1, <4>2
    <3>3. CASE ~ (m = n /\ r = p /\ ring[m][r][i] = row)
      <4>1. cell[m][r][ring[m][r][i]] = g
        BY <1>6, <2>2, <3>1, <3>3
      <4>. QED
        BY <1>3, <1>9, <2>2, <4>1, EntryMeaning
    <3>. QED
      BY <3>2, <3>3
  <2>3. CASE i \notin DOMAIN ring[m][r]
    BY <1>1, <1>7, <2>1, <2>3
  <2>. QED
    BY <2>2, <2>3
<1>12. CASE g = f /\ row # QUEUE_SIZE
  <2>1. PICK S : S = Overwritten(n, p, row)
    OBVIOUS
  <2>2. IsFiniteSet(S) /\ Cardinality(S) \in Nat
    <3>1. S \subseteq 1 .. row /\ IsFiniteSet(1 .. row)
      BY <1>5, <2>1, FS_Interval DEF Overwritten
    <3>. QED
      BY <3>1, FS_Subset, FS_CardinalityType
  <2>3. P \in SUBSET O
    BY <1>8, <1>9, <1>12
  <2>4. Cardinality(P) <= Cardinality(O)
    BY <1>10, <2>3, NodesFinite, FS_Subset
  <2>5. PICK U : U = E \union ({n} \X S)
    OBVIOUS
  <2>6. IsFiniteSet(U) /\ Cardinality(U) <= Cardinality(E) + Cardinality(S) /\ Cardinality(U) \in Nat
    <3>1. IsFiniteSet({n} \X S) /\ Cardinality({n} \X S) = Cardinality(S)
      BY <2>2, PairsOf
    <3>2. IsFiniteSet(E)
      BY <1>5, <1>10, PairsFinite
    <3>3. /\ IsFiniteSet(U)
          /\ Cardinality(U) = Cardinality(E) + Cardinality({n} \X S)
                              - Cardinality(E \intersect ({n} \X S))
      BY <2>5, <3>1, <3>2, FS_Union
    <3>4. IsFiniteSet(E \intersect ({n} \X S))
      <4>1. E \intersect ({n} \X S) \in SUBSET E
        OBVIOUS
      <4>. QED
        BY <3>2, <4>1, FS_Subset
    <3>5. Cardinality(E \intersect ({n} \X S)) \in Nat /\ Cardinality(U) \in Nat
      BY <3>3, <3>4, FS_CardinalityType
    <3>. QED
      BY <1>10, <2>2, <3>1, <3>3, <3>5
  <2>7. /\ IsFiniteSet(U \union {<<n, row + 1>>})
        /\ Cardinality(U \union {<<n, row + 1>>}) <= Cardinality(U) + 1
        /\ Cardinality(U \union {<<n, row + 1>>}) \in Nat
    <3>1. /\ IsFiniteSet(U \union {<<n, row + 1>>})
          /\ Cardinality(U \union {<<n, row + 1>>}) =
               IF <<n, row + 1>> \in U THEN Cardinality(U) ELSE Cardinality(U) + 1
      BY <2>6, FS_AddElement
    <3>2. Cardinality(U) \in Nat
      BY <2>6
    <3>. QED
      BY <3>1, <3>2
  <2>8. F \in SUBSET (U \union {<<n, row + 1>>})
    <3>1. ASSUME NEW e \in F
          PROVE  e \in U \union {<<n, row + 1>>}
      <4>1. e = <<e[1], e[2]>> /\ e[1] \in Node
        BY <1>10
      <4>2. PICK m, i : m = e[1] /\ i = e[2]
        OBVIOUS
      <4>3. <<m, i>> \in E \/ (m = n /\ (i = row + 1 \/ i \in S))
        BY <1>11, <2>1, <4>1, <4>2
      <4>. QED
        BY <2>5, <4>1, <4>2, <4>3
    <3>. QED
      BY <3>1
  <2>9. Cardinality(F) <= Cardinality(U \union {<<n, row + 1>>})
    BY <2>7, <2>8, FS_Subset
  <2>10. copies'[g] = copies[g] + Cardinality(S)
    BY <1>2, <1>12, <2>1
  <2>11. Cardinality(F) + Cardinality(P) + copies[g]
           <= Cardinality(E) + Cardinality(O) + copies'[g] + 1
    BY <1>10, <2>2, <2>4, <2>6, <2>7, <2>9, <2>10
  <2>. QED
    BY <1>9, <1>12, <2>11
<1>13. CASE g # f \/ row = QUEUE_SIZE
  <2>1. copies'[g] = copies[g]
    BY <1>2, <1>13
  <2>2. F \in SUBSET E
    BY <1>10, <1>11, <1>13
  <2>3. /\ Cardinality(F) <= Cardinality(E)
        /\ \A x \in E : x \notin F => Cardinality(F) + 1 <= Cardinality(E)
    BY <1>5, <1>10, <2>2, FewerPlaces
  <2>4. CASE P \subseteq O
    <3>1. Cardinality(P) <= Cardinality(O)
      BY <1>10, <2>4, NodesFinite, FS_Subset
    <3>2. Cardinality(F) + Cardinality(P) + copies[g]
            <= Cardinality(E) + Cardinality(O) + copies'[g]
      BY <1>10, <2>1, <2>3, <3>1
    <3>. QED
      BY <1>9, <1>10, <3>2
  <2>5. CASE ~ P \subseteq O
    <3>1. n \in P /\ P \subseteq O \union {n} /\ <<n, 1>> \in E /\ r = p
      BY <1>8, <1>9, <2>5
    <3>2. <<n, 1>> \notin F
      <4>1. 1 \in DOMAIN ring[n][r] /\ cell'[n][r][ring[n][r][1]] # g
        BY <1>8, <1>9, <3>1
      <4>2. cell'[n][r][ring'[n][r][1]] # g
        BY <1>6, <4>1
      <4>. QED
        BY <1>3, <1>9, <4>2 DEF Entries
    <3>3. Cardinality(F) + 1 <= Cardinality(E)
      BY <2>3, <3>1, <3>2
    <3>4. Cardinality(P) <= Cardinality(O) + 1
      BY <1>10, <3>1, NodesCounted
    <3>5. Cardinality(F) + Cardinality(P) + copies[g]
            <= Cardinality(E) + Cardinality(O) + copies'[g]
      BY <1>10, <2>1, <3>3, <3>4
    <3>. QED
      BY <1>9, <1>10, <3>5
  <2>. QED
    BY <2>4, <2>5
<1>. QED
  BY <1>12, <1>13

\* What has been sent, or refused, is no orphan any more; a dequeue after it
\* costs it a place.
LEMMA SentCounts ==
  ASSUME NetTypes, QueueInv, SendingInv, NEW n \in Node, NEW f \in Frame,
         f = selfDataPkt[n], f # NoFrame, NEW q, ring' = [ring EXCEPT ![n] = q],
         Shrinks(n, q), UNCHANGED cell, selfDataPkt' = [selfDataPkt EXCEPT ![n] = NoFrame],
         NEW g \in Frame
  PROVE  /\ Cardinality(Entries(g)') + Cardinality(Orphans(g)')
              <= Cardinality(Entries(g)) + Cardinality(Orphans(g))
         /\ g = f /\ q[PrioOf(f)] = Tail(ring[n][PrioOf(f)]) =>
              Cardinality(Entries(g)') + Cardinality(Orphans(g)') + 1
                <= Cardinality(Entries(g)) + Cardinality(Orphans(g))
<1>1. /\ Cardinality(Entries(g)') <= Cardinality(Entries(g))
      /\ /\ ring[n][PrioOf(g)] # <<>> /\ q[PrioOf(g)] = Tail(ring[n][PrioOf(g)])
         /\ <<n, 1>> \in Entries(g)
         => Cardinality(Entries(g)') + 1 <= Cardinality(Entries(g))
  BY ShrinkCounts
<1>2. \A k \in Node : k # n => selfDataPkt'[k] = selfDataPkt[k] /\ ring'[k] = ring[k]
  BY DEF NetTypes
<1>3. selfDataPkt'[n] = NoFrame
  BY DEF NetTypes
<1>4. PICK O, P : O = Orphans(g) /\ P = Orphans(g)'
  OBVIOUS
<1>5. O \in SUBSET Node /\ P \in SUBSET Node /\ P \subseteq O /\ n \notin P
  BY <1>2, <1>3, <1>4 DEF Orphans
<1>6. /\ Cardinality(P) <= Cardinality(O)
      /\ n \in O => Cardinality(P) + 1 <= Cardinality(O)
  <2>1. P \subseteq O \union {n}
    BY <1>5
  <2>. QED
    BY <1>5, <2>1, NodesCounted
<1>7. g = f => /\ ring[n][PrioOf(g)] # <<>>
               /\ n \in O \/ <<n, 1>> \in Entries(g)
  BY <1>4, OrphanMeaning
<1>8. /\ Cardinality(Entries(g)) \in Nat /\ Cardinality(Entries(g)') \in Nat
      /\ Cardinality(O) \in Nat /\ Cardinality(P) \in Nat
  BY <1>4, PlaceTypes
<1>9. Cardinality(Entries(g)') + Cardinality(P) <= Cardinality(Entries(g)) + Cardinality(O)
  BY <1>1, <1>6, <1>8
<1>10. ASSUME g = f, q[PrioOf(f)] = Tail(ring[n][PrioOf(f)])
       PROVE  Cardinality(Entries(g)') + Cardinality(P) + 1
                <= Cardinality(Entries(g)) + Cardinality(O)
  <2>1. CASE n \in O
    BY <1>1, <1>6, <1>8, <2>1
  <2>2. CASE <<n, 1>> \in Entries(g)
    <3>1. Cardinality(Entries(g)') + 1 <= Cardinality(Entries(g))
      BY <1>1, <1>7, <1>10, <2>2
    <3>. QED
      BY <1>6, <1>8, <3>1
  <2>. QED
    BY <1>7, <1>10, <2>1, <2>2
<1>. QED
  BY <1>4, <1>9, <1>10

LEMMA HeardCounts ==
  ASSUME NetTypes, NEW m \in Node, NEW f \in Frame,
         inbox' = [inbox EXCEPT ![m] = Append(@, f)], NEW g \in Frame
  PROVE  Cardinality(Arrivals(g)') <= Cardinality(Arrivals(g)) + (IF g = f THEN 1 ELSE 0)
<1>1. PICK s, l : s = inbox[m] /\ l = Len(s)
  OBVIOUS
<1>2. /\ s \in Seq(Frame) /\ inbox'[m] = Append(s, f)
      /\ \A k \in Node : k # m => inbox'[k] = inbox[k]
  BY <1>1 DEF NetTypes
<1>3. /\ DOMAIN s = 1 .. l /\ DOMAIN Append(s, f) = 1 .. l + 1 /\ l \in Nat
      /\ \A i \in 1 .. l : Append(s, f)[i] = s[i]
      /\ Append(s, f)[l + 1] = f
  BY <1>1, <1>2, AppendFacts
<1>4. PICK A, B : A = Arrivals(g) /\ B = Arrivals(g)'
  OBVIOUS
<1>5. /\ A \in SUBSET (Node \X (1 .. RECEIVE_QUEUE_SIZE))
      /\ B \in SUBSET (Node \X (1 .. RECEIVE_QUEUE_SIZE))
      /\ RECEIVE_QUEUE_SIZE \in Nat
      /\ Cardinality(A) \in Nat /\ Cardinality(B) \in Nat
  BY <1>4, PlaceTypes
<1>6. ASSUME NEW k \in Node, NEW i \in 1 .. RECEIVE_QUEUE_SIZE, <<k, i>> \in B
      PROVE  <<k, i>> \in A \/ (g = f /\ k = m /\ i = l + 1)
  <2>1. i \in DOMAIN inbox'[k] /\ inbox'[k][i] = g
    BY <1>4, <1>6 DEF Arrivals
  <2>2. CASE k # m \/ i \in 1 .. l
    <3>1. i \in DOMAIN inbox[k] /\ inbox[k][i] = g
      BY <1>1, <1>2, <1>3, <2>1, <2>2
    <3>. QED
      BY <1>4, <3>1 DEF Arrivals
  <2>3. CASE k = m /\ i \notin 1 .. l
    <3>1. i = l + 1
      BY <1>2, <1>3, <2>1, <2>3
    <3>. QED
      BY <1>2, <1>3, <2>1, <2>3, <3>1
  <2>. QED
    BY <2>2, <2>3
<1>7. CASE g = f
  <2>1. B \subseteq A \union {<<m, l + 1>>}
    BY <1>5, <1>6
  <2>2. Cardinality(B) <= Cardinality(A) + 1
    BY <1>5, <2>1, OnePlaceMore
  <2>. QED
    BY <1>4, <1>7, <2>2
<1>8. CASE g # f
  <2>1. B \in SUBSET A
    BY <1>5, <1>6, <1>8
  <2>2. Cardinality(B) <= Cardinality(A)
    BY <1>5, <2>1, FewerPlaces
  <2>. QED
    BY <1>4, <1>5, <1>8, <2>2
<1>. QED
  BY <1>7, <1>8

LEMMA PickedCounts ==
  ASSUME NetTypes, InboxInv, NEW n \in Node, inbox[n] # <<>>, NEW f, f = Head(inbox[n]),
         inbox' = [inbox EXCEPT ![n] = Tail(@)], NEW g \in Frame
  PROVE  Cardinality(Arrivals(g)') + (IF g = f THEN 1 ELSE 0) <= Cardinality(Arrivals(g))
<1>1. PICK s, l : s = inbox[n] /\ l = Len(s)
  OBVIOUS
<1>2. /\ s \in Seq(Frame) /\ s # <<>> /\ f = Head(s) /\ inbox'[n] = Tail(s)
      /\ l <= RECEIVE_QUEUE_SIZE
      /\ \A k \in Node : k # n => inbox'[k] = inbox[k]
  BY <1>1 DEF NetTypes, InboxInv
<1>3. /\ DOMAIN s = 1 .. l /\ DOMAIN Tail(s) = 1 .. l - 1 /\ l \in Nat \ {0}
      /\ \A i \in 1 .. l - 1 : Tail(s)[i] = s[i + 1]
      /\ f = s[1]
  BY <1>1, <1>2, TailFacts
<1>4. PICK A, B : A = Arrivals(g) /\ B = Arrivals(g)'
  OBVIOUS
<1>5. /\ A \in SUBSET (Node \X (1 .. RECEIVE_QUEUE_SIZE))
      /\ B \in SUBSET (Node \X (1 .. RECEIVE_QUEUE_SIZE))
      /\ RECEIVE_QUEUE_SIZE \in Nat
      /\ Cardinality(A) \in Nat /\ Cardinality(B) \in Nat
  BY <1>4, PlaceTypes
<1>6. ASSUME NEW k \in Node, NEW i \in 1 .. RECEIVE_QUEUE_SIZE, <<k, i>> \in B
      PROVE  IF k = n THEN <<k, i + 1>> \in A ELSE <<k, i>> \in A
  <2>1. i \in DOMAIN inbox'[k] /\ inbox'[k][i] = g
    BY <1>4, <1>6 DEF Arrivals
  <2>2. CASE k # n
    BY <1>2, <1>4, <2>1, <2>2 DEF Arrivals
  <2>3. CASE k = n
    <3>1. i \in 1 .. l - 1 /\ s[i + 1] = g
      BY <1>2, <1>3, <2>1, <2>3
    <3>2. i + 1 \in 1 .. l /\ i + 1 \in 1 .. RECEIVE_QUEUE_SIZE
      BY <1>2, <1>3, <1>5, <3>1
    <3>. QED
      BY <1>1, <1>3, <1>4, <2>3, <3>1, <3>2 DEF Arrivals
  <2>. QED
    BY <2>2, <2>3
<1>7. /\ Cardinality(B) <= Cardinality(A)
      /\ <<n, 1>> \in A => Cardinality(B) + 1 <= Cardinality(A)
  BY <1>5, <1>6, ShiftedPlaces
<1>8. g = f => <<n, 1>> \in A
  <2>1. 1 \in 1 .. l /\ 1 \in 1 .. RECEIVE_QUEUE_SIZE
    BY <1>2, <1>3, <1>5
  <2>. QED
    BY <1>1, <1>3, <1>4, <2>1 DEF Arrivals
<1>. QED
  BY <1>4, <1>5, <1>7, <1>8

\* Where the queues, the cells and what is being sent stay as they are.
LEMMA SameCounts ==
  ASSUME UNCHANGED <<ring, cell, selfDataPkt>>, NEW g
  PROVE  Entries(g)' = Entries(g) /\ Orphans(g)' = Orphans(g)
  BY DEF Entries, Orphans

-----------------------------------------------------------------------------
(* No step adds to what may be delivered more than it counts as copies.    *)

NothingGained(g) ==
  deliveries'[g] + Cardinality(Entries(g)') + Cardinality(Arrivals(g)')
    + Cardinality(Orphans(g)') + Unmade(g)' + copies[g]
  <= deliveries[g] + Cardinality(Entries(g)) + Cardinality(Arrivals(g))
       + Cardinality(Orphans(g)) + Unmade(g) + copies'[g]

LEMMA CountsKept ==
  ASSUME NetTypes, NetTypes', CountInv, \A g \in Frame : NothingGained(g)
  PROVE  CountInv'
<1>1. ASSUME NEW g \in Frame
      PROVE  deliveries'[g] + Places(g)' <= copies'[g]
  <2>1. deliveries[g] + Places(g) <= copies[g] /\ NothingGained(g)
    BY DEF CountInv
  <2>2. /\ deliveries[g] \in Nat /\ copies[g] \in Nat
        /\ deliveries'[g] \in Nat /\ copies'[g] \in Nat
    BY DEF NetTypes
  <2>3. PICK e, a, o, u : /\ e = Cardinality(Entries(g)) /\ a = Cardinality(Arrivals(g))
                          /\ o = Cardinality(Orphans(g)) /\ u = Unmade(g)
    OBVIOUS
  <2>4. PICK f, b, p, v : /\ f = Cardinality(Entries(g)') /\ b = Cardinality(Arrivals(g)')
                          /\ p = Cardinality(Orphans(g)') /\ v = Unmade(g)'
    OBVIOUS
  <2>5. e \in Nat /\ a \in Nat /\ o \in Nat /\ f \in Nat /\ b \in Nat /\ p \in Nat
    BY <2>3, <2>4, PlaceTypes
  <2>6. u \in Nat /\ v \in Nat
    BY <2>3, <2>4 DEF Unmade
  <2>7. Places(g) = e + a + o + u
    BY <2>3 DEF Places
  <2>8. Places(g)' = f + b + p + v
    BY <2>4 DEF Places
  <2>9. deliveries'[g] + f + b + p + v + copies[g]
          <= deliveries[g] + e + a + o + u + copies'[g]
    BY <2>1, <2>3, <2>4 DEF NothingGained
  <2>10. deliveries[g] + (e + a + o + u) <= copies[g]
    BY <2>1, <2>7
  <2>11. deliveries'[g] + (f + b + p + v) <= copies'[g]
    BY <2>2, <2>5, <2>6, <2>9, <2>10
  <2>. QED
    BY <2>8, <2>11
<1>. QED
  BY <1>1 DEF CountInv

\* How the parts of a sum change.
LEMMA GainedParts ==
  ASSUME NEW d \in Nat, NEW c \in Nat, NEW d1 \in Nat, NEW c1 \in Nat, NEW g,
         NEW u \in Nat, NEW u1 \in Nat, u = Unmade(g), u1 = Unmade(g)',
         d = deliveries[g], d1 = deliveries'[g], c = copies[g], c1 = copies'[g],
         NEW x \in Int, NEW y \in Int,
         Cardinality(Entries(g)') + Cardinality(Orphans(g)') + x
           <= Cardinality(Entries(g)) + Cardinality(Orphans(g)),
         Cardinality(Arrivals(g)') + y <= Cardinality(Arrivals(g)),
         d1 + u1 + c <= d + u + c1 + x + y
  PROVE  NothingGained(g)
<1>1. PICK e, a, o : /\ e = Cardinality(Entries(g)) /\ a = Cardinality(Arrivals(g))
                     /\ o = Cardinality(Orphans(g))
  OBVIOUS
<1>2. PICK f, b, p : /\ f = Cardinality(Entries(g)') /\ b = Cardinality(Arrivals(g)')
                     /\ p = Cardinality(Orphans(g)')
  OBVIOUS
<1>3. e \in Nat /\ a \in Nat /\ o \in Nat /\ f \in Nat /\ b \in Nat /\ p \in Nat
  BY <1>1, <1>2, PlaceTypes
<1>4. f + p + x <= e + o /\ b + y <= a
  BY <1>1, <1>2
<1>5. d1 + f + b + p + u1 + c <= d + e + a + o + u + c1
  BY <1>3, <1>4
<1>. QED
  BY <1>1, <1>2, <1>5 DEF NothingGained

LEMMA InitCounts == Init => CountInv
<1>. SUFFICES ASSUME Init, NEW f \in Frame PROVE deliveries[f] + Places(f) <= copies[f]
  BY DEF CountInv
<1>1. PrioOf(f) \in Prio
  BY FrameFacts
<1>2. Entries(f) = {}
  BY <1>1 DEF Init, Entries
<1>3. Arrivals(f) = {}
  BY DEF Init, Arrivals
<1>4. Orphans(f) = {}
  BY DEF Init, Orphans
<1>5. Cardinality({}) = 0
  BY FS_EmptySet
<1>6. Unmade(f) \in 0 .. 1
  BY DEF Unmade
<1>7. deliveries[f] = 0 /\ copies[f] = 1
  BY DEF Init
<1>8. Places(f) = 0 + 0 + 0 + Unmade(f)
  BY <1>2, <1>3, <1>4, <1>5 DEF Places
<1>. QED
  BY <1>6, <1>7, <1>8

\* A frame that is made has one place: in a queue, or none if it is refused.
LEMMA SendCounts ==
  ASSUME NetInv, NetTypes', NEW fl \in Flow, SendTimerFired(fl), NEW g \in Frame
  PROVE  NothingGained(g)
<1>0. PICK n, f : n = SrcOf[fl] /\ f = [flow |-> fl, seq |-> packetsSent[fl]]
  OBVIOUS
<1>1. /\ NetTypes /\ QueueInv /\ SendingInv
      /\ packetsSent[fl] < MaxSeq[fl]
      /\ packetsSent' = [packetsSent EXCEPT ![fl] = @ + 1]
      /\ UNCHANGED <<selfDataPkt, inbox, deliveries>>
      /\ \/ UNCHANGED <<ring, cell, copies>>
         \/ Enqueue(n, f)
  BY <1>0 DEF NetInv, SendTimerFired
<1>2. packetsSent \in [Flow -> Nat]
  BY <1>1 DEF NetTypes
<1>3. f \in Frame /\ n \in Node
  BY <1>0, <1>1, <1>2, MadeFrame, NetAssumption
<1>4. /\ deliveries[g] \in Nat /\ copies[g] \in Nat /\ copies'[g] \in Nat
      /\ deliveries'[g] = deliveries[g]
  BY <1>1 DEF NetTypes
<1>5. Arrivals(g)' = Arrivals(g)
  BY <1>1 DEF Arrivals
<1>6. PICK u, v : u = Unmade(g) /\ v = Unmade(g)'
  OBVIOUS
<1>7. u \in Nat /\ v \in Nat /\ v + (IF g = f THEN 1 ELSE 0) <= u
  <2>1. g.flow \in Flow /\ g.seq \in Nat
    BY FrameFacts
  <2>2. /\ u = IF g.seq < packetsSent[g.flow] THEN 0 ELSE 1
        /\ v = IF g.seq < packetsSent'[g.flow] THEN 0 ELSE 1
    BY <1>6 DEF Unmade
  <2>3. packetsSent'[g.flow] \in Nat /\ packetsSent[g.flow] <= packetsSent'[g.flow]
    BY <1>1, <1>2, <2>1
  <2>4. g = f => g.seq = packetsSent[g.flow] /\ g.seq < packetsSent'[g.flow]
    BY <1>0, <1>1, <1>2
  <2>. QED
    BY <1>2, <2>1, <2>2, <2>3, <2>4
<1>8. PICK e, o, e1, o1 : /\ e = Cardinality(Entries(g)) /\ e1 = Cardinality(Entries(g)')
                          /\ o = Cardinality(Orphans(g)) /\ o1 = Cardinality(Orphans(g)')
  OBVIOUS
<1>9. e \in Nat /\ o \in Nat /\ e1 \in Nat /\ o1 \in Nat
  BY <1>8, PlaceTypes
<1>10. e1 + o1 + copies[g] <= e + o + copies'[g] + (IF g = f THEN 1 ELSE 0)
  <2>1. CASE UNCHANGED <<ring, cell, copies>>
    <3>1. Entries(g)' = Entries(g) /\ Orphans(g)' = Orphans(g)
      BY <1>1, <2>1, SameCounts
    <3>. QED
      BY <1>4, <1>8, <1>9, <2>1, <3>1
  <2>2. CASE Enqueue(n, f)
    BY <1>1, <1>3, <1>8, <2>2, EnqueueCounts
  <2>. QED
    BY <1>1, <2>1, <2>2
<1>11. PICK a : a = Cardinality(Arrivals(g)) /\ a \in Nat
  BY PlaceTypes
<1>12. deliveries[g] + e1 + a + o1 + v + copies[g]
         <= deliveries[g] + e + a + o + u + copies'[g]
  BY <1>4, <1>7, <1>9, <1>10, <1>11
<1>. QED
  BY <1>4, <1>5, <1>6, <1>8, <1>11, <1>12 DEF NothingGained

\* What a node takes up for sending is still in its queue.
LEMMA TxSlotCounts ==
  ASSUME NetInv, NetTypes', NEW n \in Node, TxSlot(n), NEW g \in Frame
  PROVE  NothingGained(g)
<1>1. /\ NetTypes /\ QueueInv
      /\ \A m \in Node : selfDataPkt[m] = NoFrame
      /\ selfDataPkt' = [selfDataPkt EXCEPT ![n] =
           IF Eligible(n) = {} THEN NoFrame ELSE HeadFrame(n)]
      /\ UNCHANGED <<packetsSent, ring, cell, inbox, deliveries, copies>>
  BY DEF NetInv, TxSlot
<1>2. selfDataPkt \in [Node -> Frame \union {NoFrame}]
  BY <1>1 DEF NetTypes
<1>3. ASSUME Eligible(n) # {}
      PROVE  LET f == HeadFrame(n) IN cell[n][PrioOf(f)][ring[n][PrioOf(f)][1]] = f
  <2> DEFINE p == FirstOf(Eligible(n))
             f == HeadFrame(n)
  <2>1. Eligible(n) \in SUBSET Prio /\ \A r \in Eligible(n) : ring[n][r] # <<>>
    BY NetAssumption DEF Eligible, Waiting
  <2>2. p \in Prio /\ ring[n][p] # <<>>
    BY <1>3, <2>1, FirstOfIsLeast
  <2>3. f = CHOOSE h \in HeadOfQueue(n, p) : TRUE
    BY DEF HeadFrame
  <2>. HIDE DEF p, f
  <2>4. HeadOfQueue(n, p) = {cell[n][p][ring[n][p][1]]} /\ HeadOfQueue(n, p) \subseteq QueuedAt(n, p)
    BY <1>1, <2>2, QueuedFacts
  <2>5. f \in HeadOfQueue(n, p)
    BY <2>3, <2>4
  <2>6. f = cell[n][p][ring[n][p][1]] /\ f \in QueuedAt(n, p)
    BY <2>4, <2>5
  <2>7. PrioOf(f) = p
    BY <1>1, <2>2, <2>6, QueuedFacts
  <2>8. cell[n][PrioOf(f)][ring[n][PrioOf(f)][1]] = f
    BY <2>6, <2>7
  <2>. QED
    BY <2>8 DEF f
<1>4. Orphans(g)' \in SUBSET Orphans(g)
  <2>1. ASSUME NEW k \in Orphans(g)'
        PROVE  FALSE
    <3>1. /\ k \in Node /\ selfDataPkt'[k] # NoFrame /\ selfDataPkt'[k] = g
          /\ cell[k][PrioOf(g)][ring[k][PrioOf(g)][1]] # g
      BY <1>1, <2>1 DEF Orphans
    <3>2. k = n /\ Eligible(n) # {} /\ g = HeadFrame(n)
      BY <1>1, <1>2, <3>1
    <3>. QED
      BY <1>3, <3>1, <3>2
  <2>. QED
    BY <2>1
<1>5. Cardinality(Orphans(g)') <= Cardinality(Orphans(g))
  BY <1>4, PlaceTypes, NodesFinite, FS_Subset
<1>6. Entries(g)' = Entries(g) /\ Arrivals(g)' = Arrivals(g)
  BY <1>1 DEF Entries, Arrivals
<1>7. PICK d, c, u : d = deliveries[g] /\ c = copies[g] /\ u = Unmade(g)
  OBVIOUS
<1>8. /\ d = deliveries'[g] /\ c = copies'[g] /\ u = Unmade(g)'
      /\ d \in Nat /\ c \in Nat /\ u \in Nat
  BY <1>1, <1>7 DEF NetTypes, Unmade
<1>9. /\ Cardinality(Entries(g)') + Cardinality(Orphans(g)') + 0
           <= Cardinality(Entries(g)) + Cardinality(Orphans(g))
      /\ Cardinality(Arrivals(g)') + 0 <= Cardinality(Arrivals(g))
  BY <1>5, <1>6, PlaceTypes
<1>10. d + u + c <= d + u + c + 0 + 0 /\ 0 \in Int
  BY <1>8
<1>. QED
  BY <1>7, <1>8, <1>9, <1>10, GainedParts

\* What is heard has a place more, and one less if the acknowledgement is
\* heeded; otherwise it counts as a copy.
LEMMA TransmittedCounts ==
  ASSUME NetInv, NetTypes', NEW n \in Node, NEW heard \in BOOLEAN, NEW acked \in BOOLEAN,
         Transmitted(n, heard, acked), NEW g \in Frame
  PROVE  NothingGained(g)
<1>0. PICK f, m, success : /\ f = selfDataPkt[n] /\ m = route_next_hop(n, DstOf[f.flow])
                           /\ success = (acked /\ ~ activeFault[n])
  OBVIOUS
<1>1. /\ NetTypes /\ QueueInv /\ SendingInv
      /\ f # NoFrame /\ (acked => heard)
      /\ inbox' = IF heard THEN [inbox EXCEPT ![m] = Append(@, f)] ELSE inbox
      /\ copies' = [copies EXCEPT ![f] = @ + (IF heard /\ ~ success THEN 1 ELSE 0)]
      /\ selfDataPkt' = [selfDataPkt EXCEPT ![n] = NoFrame]
      /\ \/ success /\ DequeueSent(n)
         \/ ~ success /\ (GiveUp(n) \/ CountFailure(n))
      /\ UNCHANGED <<packetsSent, cell, deliveries>>
  BY <1>0 DEF NetInv, Transmitted
<1>2. /\ f \in Frame /\ n \in Carriers(f.flow) /\ AtHead(n, f)
      /\ copies \in [Frame -> Nat]
  BY <1>0, <1>1 DEF NetTypes, SendingInv
<1>3. m \in Node
  BY <1>0, <1>2, NextHop
<1>4. \E q : /\ ring' = [ring EXCEPT ![n] = q] /\ Shrinks(n, q)
             /\ success => q[PrioOf(f)] = Tail(ring[n][PrioOf(f)])
  <2>1. CASE success /\ DequeueSent(n)
    BY <1>0, <1>1, <1>2, <2>1, DequeueSentKeeps
  <2>2. CASE ~ success /\ (GiveUp(n) \/ CountFailure(n))
    BY <1>0, <1>1, <1>2, <2>2, FailureKeeps
  <2>. QED
    BY <1>1, <2>1, <2>2
<1>5. PICK q : /\ ring' = [ring EXCEPT ![n] = q] /\ Shrinks(n, q)
               /\ success => q[PrioOf(f)] = Tail(ring[n][PrioOf(f)])
  BY <1>4
<1>6. PICK x, y : /\ x = IF g = f /\ success THEN 1 ELSE 0
                  /\ y = IF g = f /\ heard THEN -1 ELSE 0
  OBVIOUS
<1>7. Cardinality(Entries(g)') + Cardinality(Orphans(g)') + x
        <= Cardinality(Entries(g)) + Cardinality(Orphans(g))
  <2>1. /\ Cardinality(Entries(g)') + Cardinality(Orphans(g)')
             <= Cardinality(Entries(g)) + Cardinality(Orphans(g))
        /\ g = f /\ success =>
             Cardinality(Entries(g)') + Cardinality(Orphans(g)') + 1
               <= Cardinality(Entries(g)) + Cardinality(Orphans(g))
    BY <1>0, <1>1, <1>2, <1>5, SentCounts
  <2>. QED
    BY <1>6, <2>1, PlaceTypes
<1>8. Cardinality(Arrivals(g)') + y <= Cardinality(Arrivals(g))
  <2>1. CASE heard
    <3>1. Cardinality(Arrivals(g)') <= Cardinality(Arrivals(g)) + (IF g = f THEN 1 ELSE 0)
      BY <1>1, <1>2, <1>3, <2>1, HeardCounts
    <3>. QED
      BY <1>6, <2>1, <3>1, PlaceTypes
  <2>2. CASE ~ heard
    <3>1. Arrivals(g)' = Arrivals(g)
      BY <1>1, <2>2 DEF Arrivals
    <3>. QED
      BY <1>6, <2>2, <3>1, PlaceTypes
  <2>. QED
    BY <2>1, <2>2
<1>9. PICK d, c, u, e : /\ d = deliveries[g] /\ c = copies[g] /\ u = Unmade(g)
                        /\ e = copies'[g]
  OBVIOUS
<1>10. /\ d = deliveries'[g] /\ u = Unmade(g)'
       /\ d \in Nat /\ c \in Nat /\ u \in Nat /\ e \in Nat
  BY <1>1, <1>9 DEF NetTypes, Unmade
<1>11. e = c + (IF g = f /\ heard /\ ~ success THEN 1 ELSE 0)
  BY <1>1, <1>2, <1>9
<1>12. success => heard
  BY <1>0, <1>1
<1>13. d + u + c <= d + u + e + x + y /\ x \in Int /\ y \in Int
  BY <1>6, <1>10, <1>11, <1>12
<1>. QED
  BY <1>7, <1>8, <1>9, <1>10, <1>13, GainedParts

LEMMA RefusedCounts ==
  ASSUME NetInv, NetTypes', NEW n \in Node, Refused(n), NEW g \in Frame
  PROVE  NothingGained(g)
<1>0. PICK f : f = selfDataPkt[n]
  OBVIOUS
<1>1. /\ NetTypes /\ QueueInv /\ SendingInv /\ f # NoFrame
      /\ selfDataPkt' = [selfDataPkt EXCEPT ![n] = NoFrame]
      /\ DequeueSent(n) \/ GiveUp(n) \/ CountFailure(n)
      /\ UNCHANGED <<packetsSent, cell, inbox, deliveries, copies>>
  BY <1>0 DEF NetInv, Refused
<1>2. f \in Frame /\ n \in Carriers(f.flow) /\ AtHead(n, f)
  BY <1>0, <1>1 DEF NetTypes, SendingInv
<1>3. \E t : ring' = [ring EXCEPT ![n] = t] /\ Shrinks(n, t)
  <2>1. CASE DequeueSent(n)
    BY <1>0, <1>1, <1>2, <2>1, DequeueSentKeeps
  <2>2. CASE GiveUp(n) \/ CountFailure(n)
    BY <1>0, <1>1, <1>2, <2>2, FailureKeeps
  <2>. QED
    BY <1>1, <2>1, <2>2
<1>4. PICK q : ring' = [ring EXCEPT ![n] = q] /\ Shrinks(n, q)
  BY <1>3
<1>5. Cardinality(Entries(g)') + Cardinality(Orphans(g)')
        <= Cardinality(Entries(g)) + Cardinality(Orphans(g))
  BY <1>0, <1>1, <1>2, <1>4, SentCounts
<1>6. Arrivals(g)' = Arrivals(g)
  BY <1>1 DEF Arrivals
<1>7. PICK d, c, u : d = deliveries[g] /\ c = copies[g] /\ u = Unmade(g)
  OBVIOUS
<1>8. /\ d = deliveries'[g] /\ c = copies'[g] /\ u = Unmade(g)'
      /\ d \in Nat /\ c \in Nat /\ u \in Nat
  BY <1>1, <1>7 DEF NetTypes, Unmade
<1>9. /\ Cardinality(Entries(g)') + Cardinality(Orphans(g)') + 0
           <= Cardinality(Entries(g)) + Cardinality(Orphans(g))
      /\ Cardinality(Arrivals(g)') + 0 <= Cardinality(Arrivals(g))
  BY <1>5, <1>6, PlaceTypes
<1>10. d + u + c <= d + u + c + 0 + 0 /\ 0 \in Int
  BY <1>8
<1>. QED
  BY <1>7, <1>8, <1>9, <1>10, GainedParts

\* What is picked up goes to the application, into a queue, or nowhere.
LEMMA ReceivedCounts ==
  ASSUME NetInv, NetTypes', NEW n \in Node, Received(n), NEW g \in Frame
  PROVE  NothingGained(g)
<1>0. PICK f : f = Head(inbox[n])
  OBVIOUS
<1>1. /\ NetTypes /\ QueueInv /\ InboxInv /\ SendingInv /\ inbox[n] # <<>>
      /\ inbox' = [inbox EXCEPT ![n] = Tail(@)]
      /\ \/ /\ deliveries' = [deliveries EXCEPT ![f] = @ + 1]
            /\ UNCHANGED <<ring, cell, copies>>
         \/ Enqueue(n, f) /\ UNCHANGED deliveries
         \/ UNCHANGED <<ring, cell, copies, deliveries>>
      /\ UNCHANGED <<packetsSent, selfDataPkt>>
  BY <1>0 DEF NetInv, Received
<1>2. f \in Frame
  <2>1. inbox[n] \in Seq(Frame)
    BY <1>1 DEF NetTypes
  <2>. QED
    BY <1>0, <1>1, <2>1, TailFacts
<1>3. PICK y : y = IF g = f THEN 1 ELSE 0
  OBVIOUS
<1>4. Cardinality(Arrivals(g)') + y <= Cardinality(Arrivals(g))
  BY <1>0, <1>1, <1>3, PickedCounts
<1>5. PICK d, c, u, b, e : /\ d = deliveries[g] /\ c = copies[g] /\ u = Unmade(g)
                           /\ b = deliveries'[g] /\ e = copies'[g]
  OBVIOUS
<1>6. /\ u = Unmade(g)' /\ d \in Nat /\ c \in Nat /\ u \in Nat /\ b \in Nat /\ e \in Nat
  BY <1>1, <1>5 DEF NetTypes, Unmade
<1>7. CASE UNCHANGED <<ring, cell, copies>> /\ b <= d + y
  <2>1. Entries(g)' = Entries(g) /\ Orphans(g)' = Orphans(g)
    BY <1>1, <1>7, SameCounts
  <2>2. Cardinality(Entries(g)') + Cardinality(Orphans(g)') + 0
          <= Cardinality(Entries(g)) + Cardinality(Orphans(g))
    BY <2>1, PlaceTypes
  <2>3. b + u + c <= d + u + e + 0 + y /\ y \in Int /\ 0 \in Int
    BY <1>3, <1>5, <1>6, <1>7
  <2>. QED
    BY <1>4, <1>5, <1>6, <2>2, <2>3, GainedParts
<1>8. CASE Enqueue(n, f) /\ b = d
  <2>1. PICK x : x = c - e - y
    OBVIOUS
  <2>2. Cardinality(Entries(g)') + Cardinality(Orphans(g)') + c
          <= Cardinality(Entries(g)) + Cardinality(Orphans(g)) + e + y
    BY <1>1, <1>2, <1>3, <1>5, <1>8, EnqueueCounts
  <2>3. x \in Int /\ y \in Int
    BY <1>3, <1>6, <2>1
  <2>4. Cardinality(Entries(g)') + Cardinality(Orphans(g)') + x
          <= Cardinality(Entries(g)) + Cardinality(Orphans(g))
    BY <1>3, <1>6, <2>1, <2>2, PlaceTypes
  <2>5. b + u + c <= d + u + e + x + y
    BY <1>3, <1>6, <1>8, <2>1
  <2>. QED
    BY <1>4, <1>5, <1>6, <2>3, <2>4, <2>5, GainedParts
<1>9. deliveries \in [Frame -> Nat]
  BY <1>1 DEF NetTypes
<1>10. CASE deliveries' = [deliveries EXCEPT ![f] = @ + 1] /\ UNCHANGED <<ring, cell, copies>>
  <2>1. b <= d + y
    BY <1>2, <1>3, <1>5, <1>6, <1>9, <1>10
  <2>. QED
    BY <1>7, <1>10, <2>1
<1>11. CASE UNCHANGED deliveries
  <2>1. b = d /\ b <= d + y
    BY <1>3, <1>5, <1>6, <1>11
  <2>2. UNCHANGED <<ring, cell, copies>> \/ Enqueue(n, f) \/ deliveries' # deliveries
    BY <1>1, <1>11
  <2>. QED
    BY <1>1, <1>7, <1>8, <1>10, <1>11, <2>1
<1>. QED
  BY <1>1, <1>10, <1>11

LEMMA OtherwiseCounts ==
  ASSUME CountInv, (\E n \in FaultyNode : FaultChanges(n)) \/ UNCHANGED vars
  PROVE  CountInv'
<1>1. UNCHANGED <<packetsSent, ring, cell, selfDataPkt, inbox, deliveries, copies>>
  BY DEF FaultChanges, vars, macVars
<1>2. ASSUME NEW g \in Frame
      PROVE  Places(g)' = Places(g)
  <2>1. Entries(g)' = Entries(g) /\ Orphans(g)' = Orphans(g)
    BY <1>1, SameCounts
  <2>2. Arrivals(g)' = Arrivals(g) /\ Unmade(g)' = Unmade(g)
    BY <1>1 DEF Arrivals, Unmade
  <2>. QED
    BY <2>1, <2>2 DEF Places
<1>. QED
  BY <1>1, <1>2 DEF CountInv

\* However often acknowledgements are lost or not heeded, cells are reused and
\* nodes give up: a frame reaches its application at most once, and once more
\* for each such event that made a copy of it (TdmaMacP.nc:209-231,922-1012,
\* 1050).
THEOREM CopiesCaused == Spec => []CopiesHaveACause
<1>1. NetInv /\ NetInv' /\ CountInv /\ [Next]_vars => CountInv'
  <2>. SUFFICES ASSUME NetInv, NetInv', CountInv, [Next]_vars PROVE CountInv'
    OBVIOUS
  <2>1. NetTypes /\ NetTypes'
    BY DEF NetInv
  <2>2. ASSUME NEW fl \in Flow, SendTimerFired(fl) PROVE CountInv'
    BY <2>1, <2>2, SendCounts, CountsKept
  <2>3. ASSUME NEW n \in Node, TxSlot(n) PROVE CountInv'
    BY <2>1, <2>3, TxSlotCounts, CountsKept
  <2>4. ASSUME NEW n \in Node, Transmission(n) PROVE CountInv'
    <3>1. \A g \in Frame : NothingGained(g)
      BY <2>1, <2>4, TransmittedCounts, RefusedCounts DEF Transmission
    <3>. QED
      BY <2>1, <3>1, CountsKept
  <2>5. ASSUME NEW n \in Node, Received(n) PROVE CountInv'
    BY <2>1, <2>5, ReceivedCounts, CountsKept
  <2>. QED
    BY <2>2, <2>3, <2>4, <2>5, OtherwiseCounts DEF Next
<1>2. NetInv /\ CountInv => CopiesHaveACause
  <2>. SUFFICES ASSUME NetInv, CountInv, NEW f \in Frame PROVE deliveries[f] <= copies[f]
    BY DEF CopiesHaveACause
  <2>1. deliveries[f] + Places(f) <= copies[f]
    BY DEF CountInv
  <2>2. Places(f) \in Nat
    <3>1. Unmade(f) \in Nat
      BY DEF Unmade
    <3>. QED
      BY <3>1, PlaceTypes DEF Places
  <2>3. deliveries[f] \in Nat /\ copies[f] \in Nat
    BY DEF NetInv, NetTypes
  <2>. QED
    BY <2>1, <2>2, <2>3
<1>. QED
  BY <1>1, <1>2, InitCounts, NetInvariant, PTL DEF Spec
=============================================================================
