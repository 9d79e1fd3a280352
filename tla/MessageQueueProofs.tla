------------------------- MODULE MessageQueueProofs --------------------------
(***************************************************************************)
(* What a client of Lab8 prints, for every capacity of the queue, every    *)
(* number of messages and whichever processes SIGINT reaches: the texts    *)
(* that clients wrote to it, in the order in which each client wrote them, *)
(* and each once, while its receive thread has a queue and no signal has   *)
(* come.  After that a failed msgrcv may repeat the last message, or bring *)
(* garbage, and nothing else.  The way from each client to each is an      *)
(* ordered channel, in which what was printed is no longer pending.        *)
(***************************************************************************)
EXTENDS MessageQueue, SequenceTheorems, FiniteSetTheorems, WellFoundedInduction, TLAPS

-----------------------------------------------------------------------------
(* The operators on sequences.                                             *)

\* A nonempty set of positions has a first one.
LEMMA FirstPosition ==
  ASSUME NEW n \in Nat, NEW T, T \subseteq 1..n, T # {}
  PROVE  \E k \in T : \A j \in T : k <= j
<1> DEFINE U == 1..n
           Up(k) == 1..k
           F == {Up(k) : k \in T}
<1>1. IsFiniteSet(U)
  BY FS_Interval
<1>2. IsWellFoundedOn(StrictSubsetOrdering(U), SUBSET U)
  BY <1>1, FS_StrictSubsetOrderingWellFounded, FS_FiniteSubsetsOfFinite, Zenon
<1>3. F \subseteq SUBSET U
  OBVIOUS
<1>4. F # {}
  OBVIOUS
<1>5. \E x \in F : \A y \in F : ~(<<y, x>> \in StrictSubsetOrdering(U))
  <2> HIDE DEF F, U
  <2>1. QED
    BY <1>2, <1>3, <1>4, WFMin
<1>6. PICK k \in T : \A j \in T : ~(<<Up(j), Up(k)>> \in StrictSubsetOrdering(U))
  BY <1>5, Zenon
<1>7. ASSUME NEW j \in T PROVE k <= j
  <2>1. Up(j) \in SUBSET U /\ Up(k) \in SUBSET U
    OBVIOUS
  <2>2. ~(Up(j) \subseteq Up(k) /\ Up(j) # Up(k))
    BY <1>6, <2>1 DEF StrictSubsetOrdering
  <2>3. CASE j < k
    <3>1. Up(j) \subseteq Up(k) /\ k \in Up(k) /\ k \notin Up(j)
      BY <2>3
    <3>2. QED
      BY <2>2, <3>1
  <2>4. QED
    BY <2>3
<1>8. QED
  BY <1>7

LEMMA OldestIsOfType ==
  ASSUME queue \in Seq(Messages), NEW t, OfType(t) # {}
  PROVE  /\ Oldest(t) \in 1..Len(queue) /\ queue[Oldest(t)].mtype = t
         /\ \A k \in OfType(t) : Oldest(t) <= k
<1>1. OfType(t) \subseteq 1..Len(queue) /\ Len(queue) \in Nat
  BY DEF OfType
<1>2. \E k \in OfType(t) : \A j \in OfType(t) : k <= j
  BY <1>1, FirstPosition
<1>3. Oldest(t) \in OfType(t) /\ \A k \in OfType(t) : Oldest(t) <= k
  BY <1>2 DEF Oldest
<1>4. QED
  BY <1>1, <1>3 DEF OfType

\* RemoveAt takes one element out and moves the later ones up.
LEMMA RemoveAtProperties ==
  ASSUME NEW S, NEW s \in Seq(S), NEW i \in 1..Len(s)
  PROVE  /\ RemoveAt(s, i) \in Seq(S) /\ Len(RemoveAt(s, i)) = Len(s) - 1
         /\ \A k \in 1..(Len(s) - 1) :
              RemoveAt(s, i)[k] = s[IF k <= i - 1 THEN k ELSE k + 1]
         /\ \A k \in DOMAIN RemoveAt(s, i) : \E j \in DOMAIN s : RemoveAt(s, i)[k] = s[j]
<1> DEFINE a == SubSeq(s, 1, i - 1)
           b == SubSeq(s, i + 1, Len(s))
<1>1. Len(s) \in Nat /\ DOMAIN s = 1..Len(s)
  OBVIOUS
<1>2. a \in Seq(S) /\ Len(a) = i - 1 /\ \A k \in 1..(i - 1) : a[k] = s[k]
  BY <1>1
<1>3. b \in Seq(S) /\ Len(b) = Len(s) - i /\ \A k \in 1..(Len(s) - i) : b[k] = s[i + k]
  <2>1. /\ \A k \in (i + 1)..Len(s) : s[k] \in S
        /\ i + 1 \in Int /\ Len(s) \in Int
    BY <1>1
  <2>2. /\ b \in Seq(S) /\ Len(b) = IF i + 1 <= Len(s) THEN Len(s) - (i + 1) + 1 ELSE 0
        /\ \A k \in 1..(Len(s) - (i + 1) + 1) : b[k] = s[i + 1 + k - 1]
    <3> HIDE DEF b
    <3>1. QED
      BY <2>1, SubSeqProperties DEF b
  <2>3. QED
    <3> HIDE DEF b
    <3>1. Len(b) = Len(s) - i
      <4>1. ASSUME NEW n \in Nat, i \in 1..n
            PROVE  (IF i + 1 <= n THEN n - (i + 1) + 1 ELSE 0) = n - i
        BY <4>1
      <4>2. QED
        BY <1>1, <2>2, <4>1
    <3>2. ASSUME NEW k \in 1..(Len(s) - i) PROVE b[k] = s[i + k]
      <4>1. k \in 1..(Len(s) - (i + 1) + 1) /\ i + 1 + k - 1 = i + k
        BY <1>1
      <4>2. QED
        BY <2>2, <4>1
    <3>3. QED
      BY <2>2, <3>1, <3>2
<1>4. /\ a \o b \in Seq(S) /\ Len(a \o b) = Len(s) - 1
      /\ \A k \in 1..(Len(s) - 1) :
           (a \o b)[k] = IF k <= i - 1 THEN a[k] ELSE b[k - (i - 1)]
  <2> HIDE DEF a, b
  <2>1. /\ a \o b \in Seq(S) /\ Len(a \o b) = Len(a) + Len(b)
        /\ \A k \in 1..(Len(a) + Len(b)) :
             (a \o b)[k] = IF k <= Len(a) THEN a[k] ELSE b[k - Len(a)]
    BY <1>2, <1>3, ConcatProperties
  <2>2. Len(a) + Len(b) = Len(s) - 1
    BY <1>1, <1>2, <1>3
  <2>3. QED
    BY <1>2, <2>1, <2>2
<1>5. ASSUME NEW k \in 1..(Len(s) - 1)
      PROVE  /\ (a \o b)[k] = s[IF k <= i - 1 THEN k ELSE k + 1]
             /\ \E j \in DOMAIN s : (a \o b)[k] = s[j]
  <2> HIDE DEF a, b
  <2>1. CASE k <= i - 1
    <3>1. k \in 1..(i - 1) /\ k \in DOMAIN s
      BY <1>1, <2>1
    <3>2. (a \o b)[k] = s[k]
      BY <1>2, <1>4, <2>1, <3>1
    <3>3. QED
      BY <2>1, <3>1, <3>2
  <2>2. CASE ~(k <= i - 1)
    <3>1. k - (i - 1) \in 1..(Len(s) - i) /\ k + 1 \in 1..Len(s)
      BY <1>1, <2>2
    <3>2. (a \o b)[k] = b[k - (i - 1)] /\ i + (k - (i - 1)) = k + 1
      BY <1>1, <1>4, <2>2
    <3>3. (a \o b)[k] = s[k + 1]
      BY <1>3, <3>1, <3>2
    <3>4. QED
      BY <1>1, <2>2, <3>1, <3>3
  <2>3. QED
    BY <2>1, <2>2
<1>6. RemoveAt(s, i) = a \o b
  BY DEF RemoveAt
<1>7. DOMAIN (a \o b) = 1..(Len(s) - 1)
  <2> HIDE DEF a, b
  <2>1. QED
    BY <1>4
<1>8. QED
  <2> HIDE DEF a, b
  <2>1. QED
    BY <1>4, <1>5, <1>6, <1>7

\* Append adds m behind s.
LEMMA AppendHas ==
  ASSUME NEW S, NEW s \in Seq(S), NEW m \in S
  PROVE  /\ Append(s, m) \in Seq(S)
         /\ \A k \in DOMAIN Append(s, m) :
              Append(s, m)[k] = m \/ \E j \in DOMAIN s : Append(s, m)[k] = s[j]
         /\ \A k \in DOMAIN Append(s, m) :
              \/ k \in DOMAIN s /\ Append(s, m)[k] = s[k]
              \/ k = Len(s) + 1 /\ Append(s, m)[k] = m
BY AppendProperties

-----------------------------------------------------------------------------
(* The invariant.                                                          *)

\* Numbers of queues only grow; what a client has needs its receive thread.
Lives ==
  /\ exists <= created /\ \A p \in 1..4 : msgid[p] <= created
  /\ \A c \in Clients :
       /\ main[c] \in {"start", "handler"} => recv[c] = "none"
       /\ recv[c] = "none" => message[c] = <<>> /\ printed[c] = <<>>
       /\ recv[c] # "none" => msgid[c] > 0
       /\ main[c] = "send" => nextDest[c] \in Clients /\ sent[c] < MAX_SENDS[c]

\* A text that a client has written.
Written(m) == m.text \in 1..sent[m.source]

\* Only Quit and written texts are in the queue, each under its address.
OnQueue(m) == \/ m.text = Quit /\ m.mtype # ToServer
              \/ Written(m) /\ m.mtype \in {ToServer, m.dest}

\* What a client may hold: what was written to it or, with an excuse, garbage.
Local(c, m) == (m.dest = c /\ Written(m)) \/ (m.text = Garbage /\ MayFail(c))

QueueOK == \A k \in DOMAIN queue : OnQueue(queue[k])
\* What a receive thread's buffer has a number of, was received.
Received(c, m) == m.text > 0 => m.dest = c /\ Written(m)

HandsOK == /\ server = "forward" => Written(msg)
           /\ \A c \in Clients : /\ recv[c] = "push" => Local(c, inHand[c])
                                 /\ Received(c, inHand[c])
LocalOK == \A c \in Clients :
             /\ \A k \in DOMAIN message[c] : Local(c, message[c][k])
             /\ \A k \in DOMAIN printed[c] : Local(c, printed[c][k])

Inv == TypeOK /\ Lives /\ QueueOK /\ HandsOK /\ LocalOK

LEMMA InitInv == Init => Inv
<1> SUFFICES ASSUME Init PROVE Inv
  OBVIOUS
<1>1. is_running \in [1..4 -> BOOLEAN]
  BY Zenon DEF Init
<1>2. Blank \in Messages
  BY DEF Blank, Messages, Clients, ToServer, Texts, Garbage
<1>3. TypeOK
  BY <1>1, <1>2, MessageQueueAssumption DEF Init, TypeOK
<1>4. Lives /\ QueueOK /\ HandsOK /\ LocalOK
  <2>1. \A c \in Clients : Received(c, Blank)
    BY DEF Received, Blank, Garbage
  <2>2. QED
    BY <2>1 DEF Init, Lives, QueueOK, HandsOK, LocalOK
<1>5. QED
  BY <1>3, <1>4 DEF Inv

-----------------------------------------------------------------------------
(* What the calls of the kernel keep.                                      *)

LEMMA GetKeeps ==
  ASSUME TypeOK, Lives, NEW p \in 1..4, Get(p)
  PROVE  /\ exists' \in 0..MAX_QUEUES /\ created' \in 0..MAX_QUEUES
         /\ queue' \in Seq(Messages) /\ Len(queue') <= CAPACITY
         /\ msgid' \in [1..4 -> 0..MAX_QUEUES]
         /\ exists' <= created' /\ \A q \in 1..4 : msgid'[q] <= created'
         /\ msgid'[p] > 0 /\ \A q \in (1..4) \ {p} : msgid'[q] = msgid[q]
         /\ \A q \in (1..4) \ {p} : msgid[q] > 0 /\ Removed(q) => Removed(q)'
         /\ queue' = queue \/ queue' = <<>>
<1> USE DEF TypeOK, Lives, Get, Removed, kernel
<1>1. CASE exists # 0
  BY <1>1
<1>2. CASE exists = 0
  BY <1>2, MessageQueueAssumption
<1>3. QED
  BY <1>1, <1>2

LEMMA SendKeeps ==
  ASSUME TypeOK, NEW p \in 1..4, NEW m \in Messages, Send(p, m)
  PROVE  /\ queue' \in Seq(Messages) /\ Len(queue') <= CAPACITY
         /\ \A k \in DOMAIN queue' :
              queue'[k] = m \/ \E j \in DOMAIN queue : queue'[k] = queue[j]
         /\ UNCHANGED <<exists, created>>
<1>1. queue' = Append(queue, m) /\ Len(queue) < CAPACITY /\ UNCHANGED <<exists, created>>
  BY MessageQueueAssumption DEF Send, Full, TypeOK
<1>2. /\ Append(queue, m) \in Seq(Messages) /\ Len(Append(queue, m)) = Len(queue) + 1
      /\ \A k \in 1..Len(queue) : Append(queue, m)[k] = queue[k]
      /\ Append(queue, m)[Len(queue) + 1] = m
  BY AppendProperties DEF TypeOK
<1>3. \A k \in DOMAIN queue' :
        queue'[k] = m \/ \E j \in DOMAIN queue : queue'[k] = queue[j]
  BY <1>1, <1>2 DEF TypeOK
<1>4. QED
  BY <1>1, <1>2, <1>3, MessageQueueAssumption DEF TypeOK

LEMMA ReceiveKeeps ==
  ASSUME TypeOK, NEW p \in 1..4, NEW t, Receive(p, t)
  PROVE  /\ queue' \in Seq(Messages) /\ Len(queue') <= CAPACITY
         /\ \A k \in DOMAIN queue' : \E j \in DOMAIN queue : queue'[k] = queue[j]
         /\ UNCHANGED <<exists, created>>
         /\ Oldest(t) \in DOMAIN queue /\ queue[Oldest(t)] \in Messages
         /\ queue[Oldest(t)].mtype = t
<1>1. Oldest(t) \in 1..Len(queue) /\ queue[Oldest(t)].mtype = t
  BY OldestIsOfType DEF Receive, TypeOK
<1>2. queue' = RemoveAt(queue, Oldest(t)) /\ UNCHANGED <<exists, created>>
  BY DEF Receive
<1>3. /\ queue' \in Seq(Messages) /\ Len(queue') = Len(queue) - 1
      /\ \A k \in DOMAIN queue' : \E j \in DOMAIN queue : queue'[k] = queue[j]
  BY <1>1, <1>2, RemoveAtProperties DEF TypeOK
<1>4. QED
  BY <1>1, <1>2, <1>3, MessageQueueAssumption DEF TypeOK

LEMMA RemoveKeeps ==
  ASSUME TypeOK, Lives, NEW p \in 1..4, RemoveQueue(p), UNCHANGED msgid
  PROVE  /\ exists' \in 0..MAX_QUEUES /\ created' = created /\ exists' <= created'
         /\ queue' \in Seq(Messages) /\ Len(queue') <= CAPACITY
         /\ \A q \in 1..4 : msgid[q] > 0 /\ Removed(q) => Removed(q)'
         /\ queue' = queue \/ queue' = <<>>
<1>1. CASE Removed(p)
  BY <1>1 DEF TypeOK, Lives, RemoveQueue, Removed, kernel
<1>2. CASE ~Removed(p)
  <2>1. exists' = 0 /\ queue' = <<>> /\ created' = created
    BY <1>2 DEF RemoveQueue
  <2>2. <<>> \in Seq(Messages) /\ Len(<<>>) <= CAPACITY
    BY MessageQueueAssumption
  <2>3. ASSUME NEW q \in 1..4, msgid[q] > 0 PROVE Removed(q)'
    BY <2>1, <2>3 DEF Removed
  <2>4. QED
    BY <2>1, <2>2, <2>3, MessageQueueAssumption DEF TypeOK, Lives
<1>3. QED
  BY <1>1, <1>2

-----------------------------------------------------------------------------
(* Types and lives, and what no step takes back: a text once written, and  *)
(* the excuse of a client that has a receive thread.                       *)

Kept == /\ \A a \in Clients : sent[a] <= sent'[a]
        /\ \A c \in Clients : recv[c] # "none" /\ MayFail(c) => MayFail(c)'

Basics == TypeOK' /\ Lives' /\ Kept

\* Most steps stop nobody and send nothing.
LEMMA QuietKept ==
  ASSUME TypeOK, UNCHANGED <<is_running, exists, msgid>>,
         \A a \in Clients : sent[a] <= sent'[a]
  PROVE  Kept
<1>1. \A c \in Clients : MayFail(c) => MayFail(c)'
  BY Zenon DEF MayFail, Removed
<1>2. QED
  BY <1>1 DEF Kept

LEMMA SentKept == ASSUME TypeOK, UNCHANGED sent PROVE \A a \in Clients : sent[a] <= sent'[a]
BY DEF TypeOK

LEMMA MainBasics == ASSUME TypeOK, Lives, NEW c \in Clients, MainStep(c) PROVE Basics
<1> USE DEF Basics, GotoMain
<1>1. c \in 1..4 /\ c # Server /\ Clients \subseteq 1..4
  BY DEF Clients, Server
<1>2. CASE InstallHandler(c)
  <2>1. TypeOK' /\ Lives'
    BY <1>1, <1>2 DEF InstallHandler, TypeOK, Lives, kernel, serving
  <2>2. Kept
    BY <1>2, QuietKept, SentKept DEF InstallHandler, kernel
  <2>3. QED
    BY <2>1, <2>2
<1>3. CASE Start(c)
  <2>1. is_running' \in [1..4 -> BOOLEAN] /\ \A p \in 1..4 : p # c => is_running'[p] = is_running[p]
    BY <1>1, <1>3, Zenon DEF Start, TypeOK
  <2>2. Get(c) /\ UNCHANGED <<nextDest, sent, inHand, message, printed, serving>>
    BY <1>3 DEF Start
  <2>3. /\ main[c] = "handler" /\ recv[c] = "none"
        /\ main' = [main EXCEPT ![c] = "loop"] /\ recv' = [recv EXCEPT ![c] = "test"]
    BY <1>3 DEF Start, Lives
  <2>4. TypeOK'
    BY <1>1, <2>1, <2>2, <2>3, GetKeeps DEF TypeOK, serving
  <2>5. Lives'
    BY <1>1, <2>2, <2>3, GetKeeps DEF Lives, TypeOK
  <2>6. \A b \in Clients : recv[b] # "none" /\ MayFail(b) => MayFail(b)'
    <3>1. SUFFICES ASSUME NEW b \in Clients, recv[b] # "none", MayFail(b) PROVE MayFail(b)'
      OBVIOUS
    <3>2. b # c /\ b \in 1..4 /\ msgid[b] > 0
      BY <1>1, <2>3, <3>1 DEF Lives
    <3>3. Removed(b) => Removed(b)'
      BY <1>1, <2>2, <3>2, GetKeeps
    <3>4. is_running'[b] = is_running[b]
      BY <2>1, <3>2
    <3>5. QED
      BY <3>1, <3>3, <3>4, Zenon DEF MayFail
  <2>7. UNCHANGED sent
    BY <1>3 DEF Start
  <2>8. QED
    BY <2>4, <2>5, <2>6, <2>7, SentKept DEF Kept
<1>4. CASE MainLoop(c)
  <2>1. TypeOK' /\ Lives'
    BY <1>1, <1>4 DEF MainLoop, TypeOK, Lives, kernel, serving
  <2>2. Kept
    BY <1>4, QuietKept, SentKept DEF MainLoop, kernel
  <2>3. QED
    BY <2>1, <2>2
<1>5. CASE PrintMsg(c)
  <2>1. /\ message[c] \in Seq(Messages) /\ message[c] # <<>> /\ printed[c] \in Seq(Messages)
        /\ recv[c] # "none"
    BY <1>5 DEF PrintMsg, TypeOK, Lives
  <2>2. Tail(message[c]) \in Seq(Messages) /\ Append(printed[c], Head(message[c])) \in Seq(Messages)
    BY <2>1, HeadTailProperties, AppendHas
  <2>3. TypeOK' /\ Lives'
    BY <1>1, <1>5, <2>1, <2>2 DEF PrintMsg, TypeOK, Lives, kernel, serving
  <2>4. Kept
    BY <1>5, QuietKept, SentKept DEF PrintMsg, kernel
  <2>5. QED
    BY <2>3, <2>4
<1>6. CASE Choose(c)
  <2>1. Alternate(c) \in Clients /\ Alternate(c) \in 0..3
    BY DEF Alternate, Others, Clients
  <2>2. CASE sent[c] < MAX_SENDS[c]
    <3>1. /\ main' = [main EXCEPT ![c] = "send"]
          /\ nextDest' = [nextDest EXCEPT ![c] = Alternate(c)]
      BY <1>6, <2>2 DEF Choose
    <3> HIDE DEF GotoMain
    <3>2. TypeOK'
      BY <1>6, <2>1, <3>1 DEF Choose, TypeOK, kernel, serving
    <3>3. Lives'
      BY <1>1, <1>6, <2>1, <2>2, <3>1 DEF Choose, TypeOK, Lives, kernel, serving
    <3>4. QED
      BY <1>6, <3>2, <3>3, QuietKept, SentKept DEF Choose, kernel
  <2>3. CASE ~(sent[c] < MAX_SENDS[c])
    BY <1>1, <1>6, <2>3, QuietKept, SentKept DEF Choose, TypeOK, Lives, kernel, serving
  <2>4. QED
    BY <2>2, <2>3
<1>7. CASE SendMsg(c)
  <2> DEFINE m == [mtype |-> ToServer, source |-> c, dest |-> nextDest[c], text |-> sent[c] + 1]
  <2>1. nextDest[c] \in Clients /\ sent[c] \in Nat /\ sent[c] < MAX_SENDS[c]
    BY <1>7, MessageQueueAssumption DEF SendMsg, Lives, TypeOK
  <2>2. m \in Messages
    BY <2>1, MessageQueueAssumption DEF Messages, ToServer, Texts, Clients
  <2>3. CASE Send(c, m) /\ sent' = [sent EXCEPT ![c] = @ + 1]
    <3> HIDE DEF m
    <3>1. /\ queue' \in Seq(Messages) /\ Len(queue') <= CAPACITY
          /\ UNCHANGED <<exists, created>>
      BY <1>1, <2>2, <2>3, SendKeeps
    <3>2. /\ sent' \in [Clients -> Nat]
          /\ \A a \in Clients : sent[a] <= sent'[a] /\ sent'[a] <= MAX_SENDS[a]
      <4>1. sent[c] + 1 \in Nat /\ sent[c] <= sent[c] + 1 /\ sent[c] + 1 <= MAX_SENDS[c]
        BY <2>1, MessageQueueAssumption
      <4>2. /\ sent \in [Clients -> Nat] /\ \A a \in Clients : sent[a] <= MAX_SENDS[a]
            /\ sent' = [sent EXCEPT ![c] = sent[c] + 1]
        BY <2>3 DEF TypeOK
      <4>3. \A a \in Clients : sent[a] \in Int
        BY <4>2
      <4>4. QED
        BY <4>1, <4>2, <4>3
    <3>3. TypeOK' /\ Lives'
      BY <1>1, <1>7, <3>1, <3>2 DEF SendMsg, TypeOK, Lives, serving
    <3>4. QED
      BY <1>7, <3>1, <3>2, <3>3, QuietKept DEF SendMsg
  <2>4. CASE UNCHANGED <<kernel, sent>>
    <3>1. TypeOK' /\ Lives'
      BY <1>1, <1>7, <2>4 DEF SendMsg, TypeOK, Lives, kernel, serving
    <3>2. QED
      BY <1>7, <2>4, <3>1, QuietKept, SentKept DEF SendMsg, kernel
  <2>5. QED
    BY <1>7, <2>3, <2>4 DEF SendMsg
<1>8. CASE Join(c)
  <2>1. TypeOK' /\ Lives'
    BY <1>1, <1>8 DEF Join, TypeOK, Lives, kernel, serving
  <2>2. Kept
    BY <1>8, QuietKept, SentKept DEF Join, kernel
  <2>3. QED
    BY <2>1, <2>2
<1>9. CASE Leave(c)
  <2>1. RemoveQueue(c) /\ UNCHANGED msgid
    BY <1>9 DEF Leave
  <2>2. TypeOK' /\ Lives'
    BY <1>1, <1>9, <2>1, RemoveKeeps DEF Leave, TypeOK, Lives, serving
  <2>3. \A b \in Clients : recv[b] # "none" /\ Removed(b) => Removed(b)'
    BY <1>1, <2>1, RemoveKeeps DEF Lives
  <2>4. UNCHANGED <<is_running, sent>>
    BY <1>9 DEF Leave
  <2>5. \A b \in Clients : recv[b] # "none" /\ MayFail(b) => MayFail(b)'
    BY <2>3, <2>4, Zenon DEF MayFail
  <2>6. QED
    BY <2>2, <2>4, <2>5, SentKept DEF Kept
<1>10. QED
  BY <1>2, <1>3, <1>4, <1>5, <1>6, <1>7, <1>8, <1>9 DEF MainStep

\* The receive thread.  Its client's own flag changes only from true to false.
LEMMA StopKept ==
  ASSUME TypeOK, UNCHANGED <<exists, msgid>>, \A a \in Clients : sent[a] <= sent'[a],
         NEW p \in 1..4, NEW b \in BOOLEAN, is_running' = [is_running EXCEPT ![p] = @ /\ b]
  PROVE  Kept /\ is_running' \in [1..4 -> BOOLEAN]
<1>1. is_running' \in [1..4 -> BOOLEAN] /\ \A q \in 1..4 : ~is_running[q] => ~is_running'[q]
  BY Zenon DEF TypeOK
<1>2. \A c \in Clients : c \in 1..4
  BY DEF Clients
<1>3. \A c \in Clients : MayFail(c) => MayFail(c)'
  BY <1>1, <1>2, Zenon DEF MayFail, Removed
<1>4. QED
  BY <1>1, <1>3 DEF Kept

\* SIGINT sets the flag to false.
LEMMA SigintKept ==
  ASSUME TypeOK, UNCHANGED <<exists, msgid>>, \A a \in Clients : sent[a] <= sent'[a],
         NEW p \in 1..4, is_running' = [is_running EXCEPT ![p] = FALSE]
  PROVE  Kept /\ is_running' \in [1..4 -> BOOLEAN]
<1>1. is_running' \in [1..4 -> BOOLEAN] /\ \A q \in 1..4 : ~is_running[q] => ~is_running'[q]
  BY Zenon DEF TypeOK
<1>2. \A c \in Clients : c \in 1..4
  BY DEF Clients
<1>3. \A c \in Clients : MayFail(c) => MayFail(c)'
  BY <1>1, <1>2, Zenon DEF MayFail, Removed
<1>4. QED
  BY <1>1, <1>3 DEF Kept

LEMMA BufferTypes ==
  ASSUME TypeOK, NEW c \in Clients, NEW m \in Uninitialized(c)
  PROVE  m \in Messages /\ (m = inHand[c] \/ m.text \in {Quit, Garbage})
<1>1. CASE m = inHand[c]
  BY <1>1 DEF TypeOK
<1>2. CASE m \in {[Blank EXCEPT !.text = t] : t \in {Quit, Garbage}}
  BY <1>2 DEF Blank, Messages, Clients, ToServer, Texts, Quit, Garbage
<1>3. QED
  BY <1>1, <1>2 DEF Uninitialized

\* After a failed msgrcv the buffer is used all the same or, at the bound, not.
LEMMA FailsHandles ==
  ASSUME NEW c, RecvFails(c)
  PROVE  /\ recv[c] = "receive" /\ Removed(c)
         /\ UNCHANGED <<kernel, msgid, main, nextDest, sent, message, printed, serving>>
         /\ \/ \E m \in Uninitialized(c) : Handle(c, m) /\ QuitsOn(c, m)
            \/ recv' = [recv EXCEPT ![c] = "test"] /\ UNCHANGED <<is_running, inHand>>
BY DEF RecvFails

LEMMA HandleTypes ==
  ASSUME TypeOK, NEW c \in Clients, NEW m \in Messages, recv[c] # "none", Handle(c, m)
  PROVE  /\ recv' \in [Clients -> {"none", "test", "receive", "push", "exit"}]
         /\ inHand' \in [Clients -> Messages] /\ recv'[c] # "none"
         /\ \A b \in Clients : b # c => recv'[b] = recv[b]
BY DEF TypeOK, Handle

LEMMA RecvBasics ==
  ASSUME TypeOK, Lives, NEW c \in Clients, RecvStep(c) \/ SigintRecv(c) PROVE Basics
<1> USE DEF Basics
<1>1. c \in 1..4 /\ c # Server /\ Clients \subseteq 1..4
  BY DEF Clients, Server
<1>2. CASE RecvTest(c)
  <2>1. TypeOK' /\ Lives'
    BY <1>2 DEF RecvTest, TypeOK, Lives, kernel, serving
  <2>2. QED
    BY <1>2, <2>1, QuietKept, SentKept DEF RecvTest, kernel
<1>3. CASE RecvMsg(c)
  <2> DEFINE m == queue[Oldest(c)]
  <2>1. /\ Handle(c, m) /\ QuitsOn(c, m) /\ Receive(c, c) /\ recv[c] = "receive"
        /\ UNCHANGED <<msgid, main, nextDest, sent, message, printed, serving>>
    BY <1>3 DEF RecvMsg
  <2>2. /\ queue' \in Seq(Messages) /\ Len(queue') <= CAPACITY
        /\ UNCHANGED <<exists, created>> /\ m \in Messages
    BY <1>1, <2>1, ReceiveKeeps
  <2> HIDE DEF m
  <2>3. Kept /\ is_running' \in [1..4 -> BOOLEAN]
    BY <1>1, <2>1, <2>2, StopKept, SentKept DEF QuitsOn
  <2>4. TypeOK' /\ Lives'
    BY <2>1, <2>2, <2>3, HandleTypes DEF TypeOK, Lives, serving
  <2>5. QED
    BY <2>3, <2>4
<1>4. CASE RecvFails(c)
  <2>1. /\ recv[c] = "receive"
        /\ UNCHANGED <<kernel, msgid, main, nextDest, sent, message, printed, serving>>
    BY <1>4, FailsHandles
  <2>2. CASE \E m \in Uninitialized(c) : Handle(c, m) /\ QuitsOn(c, m)
    <3>1. PICK m \in Uninitialized(c) : Handle(c, m) /\ QuitsOn(c, m)
      BY <2>2
    <3>2. m \in Messages
      BY BufferTypes
    <3>3. Kept /\ is_running' \in [1..4 -> BOOLEAN]
      BY <1>1, <2>1, <3>1, StopKept, SentKept DEF QuitsOn, kernel
    <3>4. TypeOK' /\ Lives'
      BY <2>1, <3>1, <3>2, <3>3, HandleTypes DEF TypeOK, Lives, kernel, serving
    <3>5. QED
      BY <3>3, <3>4
  <2>3. CASE recv' = [recv EXCEPT ![c] = "test"] /\ UNCHANGED <<is_running, inHand>>
    <3>1. TypeOK' /\ Lives'
      BY <2>1, <2>3 DEF TypeOK, Lives, kernel, serving
    <3>2. QED
      BY <2>1, <2>3, <3>1, QuietKept, SentKept DEF kernel
  <2>4. QED
    BY <1>4, <2>2, <2>3, FailsHandles
<1>5. CASE Push(c)
  <2>1. /\ Append(message[c], inHand[c]) \in Seq(Messages) /\ recv[c] # "none"
    BY <1>5, AppendHas DEF Push, TypeOK
  <2>2. TypeOK' /\ Lives'
    BY <1>5, <2>1 DEF Push, TypeOK, Lives, kernel, serving
  <2>3. QED
    BY <1>5, <2>2, QuietKept, SentKept DEF Push, kernel
<1>6. CASE SigintRecv(c)
  <2>1. PICK m \in Uninitialized(c) : Handle(c, m)
    BY <1>6 DEF SigintRecv
  <2>2. /\ recv[c] = "receive" /\ m \in Messages
        /\ UNCHANGED <<kernel, msgid, main, nextDest, sent, message, printed, serving>>
        /\ is_running' = [is_running EXCEPT ![c] = FALSE]
    BY <1>6, BufferTypes DEF SigintRecv
  <2>3. Kept /\ is_running' \in [1..4 -> BOOLEAN]
    BY <1>1, <2>2, SigintKept, SentKept DEF kernel
  <2>4. TypeOK' /\ Lives'
    BY <2>1, <2>2, <2>3, HandleTypes DEF TypeOK, Lives, kernel, serving
  <2>5. QED
    BY <2>3, <2>4
<1>7. QED
  BY <1>2, <1>3, <1>4, <1>5, <1>6 DEF RecvStep

\* The server, and the signals it gets.
LEMMA GetBasics ==
  ASSUME TypeOK, Lives, Get(Server), server' \in {"loop", "done"},
         UNCHANGED <<is_running, clients, msg, quitTo>>
  PROVE  Basics
<1>1. Server \in 1..4 /\ \A c \in Clients : c \in (1..4) \ {Server}
  BY DEF Server, Clients
<1>2. TypeOK'
  BY <1>1, GetKeeps DEF TypeOK, clients
<1>3. Lives'
  BY <1>1, GetKeeps DEF TypeOK, Lives, clients
<1>4. \A c \in Clients : recv[c] # "none" /\ Removed(c) => Removed(c)'
  BY <1>1, GetKeeps DEF Lives
<1>5. \A c \in Clients : recv[c] # "none" /\ MayFail(c) => MayFail(c)'
  BY <1>4, Zenon DEF MayFail
<1>6. QED
  BY <1>2, <1>3, <1>5, SentKept DEF Basics, Kept, clients

LEMMA ServerSendBasics ==
  ASSUME TypeOK, Lives, NEW m \in Messages,
         Send(Server, m) \/ (Removed(Server) /\ UNCHANGED kernel),
         server' \in {"loop", "quit", "remove"}, msg' = m, quitTo' \in 1..3,
         UNCHANGED <<msgid, is_running, clients>>
  PROVE  Basics
<1>1. Server \in 1..4
  BY DEF Server
<1>2. queue' \in Seq(Messages) /\ Len(queue') <= CAPACITY /\ UNCHANGED <<exists, created>>
  BY <1>1, SendKeeps DEF TypeOK, kernel
<1>3. TypeOK' /\ Lives'
  BY <1>2 DEF TypeOK, Lives, clients
<1>4. QED
  BY <1>2, <1>3, QuietKept, SentKept DEF Basics, clients

LEMMA ForwardedTypes ==
  ASSUME TypeOK
  PROVE  /\ [msg EXCEPT !.mtype = msg.dest] \in Messages
         /\ [msg EXCEPT !.mtype = quitTo, !.text = Quit] \in Messages
<1>1. /\ msg \in [mtype : 1..4, source : Clients, dest : Clients, text : Texts]
      /\ msg.dest \in 1..4 /\ quitTo \in 1..4 /\ Quit \in Texts
  <2>1. msg \in [mtype : 1..4, source : Clients, dest : Clients, text : Texts]
    BY DEF TypeOK, Messages
  <2>2. msg.dest \in Clients /\ quitTo \in 1..3
    BY <2>1 DEF TypeOK
  <2>3. Quit \in Texts
    BY DEF Texts
  <2>4. QED
    BY <2>1, <2>2, <2>3 DEF Clients
<1>2. [msg EXCEPT !.mtype = msg.dest] \in Messages
  BY <1>1 DEF Messages
<1>3. [msg EXCEPT !.mtype = quitTo, !.text = Quit] \in Messages
  BY <1>1 DEF Messages
<1>4. QED
  BY <1>2, <1>3

LEMMA ServerBasics ==
  ASSUME TypeOK, Lives, ServerStep \/ KillServer \/ SigintServer PROVE Basics
<1>0. Server \in 1..4
  BY DEF Server
<1>1. CASE StartServer
  BY <1>1, GetBasics DEF StartServer
<1>2. CASE ServerReceive
  <2>1. /\ queue' \in Seq(Messages) /\ Len(queue') <= CAPACITY /\ UNCHANGED <<exists, created>>
        /\ msg' \in Messages
    BY <1>0, <1>2, ReceiveKeeps DEF ServerReceive
  <2>2. TypeOK' /\ Lives'
    BY <1>2, <2>1 DEF ServerReceive, TypeOK, Lives, clients
  <2>3. QED
    BY <1>2, <2>1, <2>2, QuietKept, SentKept DEF ServerReceive, Basics, clients
<1>3. CASE Forward
  BY <1>3, ForwardedTypes, ServerSendBasics DEF Forward, TypeOK
<1>4. CASE BeginQuit
  <2>1. TypeOK' /\ Lives'
    BY <1>4 DEF BeginQuit, TypeOK, Lives, kernel, clients
  <2>2. QED
    BY <1>4, <2>1, QuietKept, SentKept DEF BeginQuit, Basics, kernel, clients
<1>5. CASE SendQuit
  <2>1. quitTo' \in 1..3 /\ server' \in {"quit", "remove"}
    BY <1>5 DEF SendQuit, NextQuit, TypeOK
  <2>2. QED
    BY <1>5, <2>1, ForwardedTypes, ServerSendBasics DEF SendQuit
<1>6. CASE StopServer
  <2>1. RemoveQueue(Server) /\ server' = "done" /\ UNCHANGED <<msgid, is_running, clients, msg, quitTo>>
    BY <1>6 DEF StopServer
  <2>2. TypeOK' /\ Lives'
    BY <1>0, <2>1, RemoveKeeps DEF TypeOK, Lives, clients
  <2>3. \A b \in Clients : recv[b] # "none" /\ Removed(b) => Removed(b)'
    BY <1>0, <2>1, RemoveKeeps DEF Lives, Clients
  <2>4. \A b \in Clients : recv[b] # "none" /\ MayFail(b) => MayFail(b)'
    BY <2>1, <2>3, Zenon DEF MayFail
  <2>5. QED
    BY <2>1, <2>2, <2>4, SentKept DEF Basics, Kept, clients
<1>7. CASE KillServer
  <2>1. CASE Get(Server)
    BY <1>7, <2>1, GetBasics DEF KillServer
  <2>2. CASE UNCHANGED <<kernel, msgid>>
    <3>1. TypeOK' /\ Lives'
      BY <1>7, <2>2 DEF KillServer, TypeOK, Lives, kernel, clients
    <3>2. QED
      BY <1>7, <2>2, <3>1, QuietKept, SentKept DEF KillServer, Basics, kernel, clients
  <2>3. QED
    BY <1>7, <2>1, <2>2 DEF KillServer
<1>8. CASE SigintServer
  <2>1. /\ UNCHANGED <<kernel, msgid, clients>>
        /\ is_running' = [is_running EXCEPT ![Server] = FALSE]
    BY <1>8 DEF SigintServer
  <2>2. /\ server' \in {"start", "loop", "forward", "quit", "remove", "done"}
        /\ msg' \in Messages /\ quitTo' \in 1..3
    <3>1. CASE UNCHANGED <<server, msg, quitTo>>
      BY <3>1 DEF TypeOK
    <3>2. CASE server' = "loop" /\ msg' = [msg EXCEPT !.mtype = msg.dest] /\ UNCHANGED quitTo
      BY <3>2, ForwardedTypes DEF TypeOK
    <3>3. CASE msg' = [msg EXCEPT !.mtype = quitTo, !.text = Quit] /\ NextQuit
      <4>1. msg' \in Messages
        BY <3>3, ForwardedTypes
      <4>2. QED
        BY <3>3, <4>1 DEF NextQuit, TypeOK
    <3>4. QED
      BY <1>8, <3>1, <3>2, <3>3 DEF SigintServer
  <2>3. Kept /\ is_running' \in [1..4 -> BOOLEAN]
    BY <1>0, <2>1, SigintKept, SentKept DEF kernel, clients
  <2>4. TypeOK' /\ Lives'
    BY <2>1, <2>2, <2>3 DEF TypeOK, Lives, kernel, clients
  <2>5. QED
    BY <2>3, <2>4 DEF Basics
<1>9. QED
  BY <1>1, <1>2, <1>3, <1>4, <1>5, <1>6, <1>7, <1>8 DEF ServerStep

LEMMA SignalBasics ==
  ASSUME TypeOK, Lives, NEW c \in Clients, KillClient(c) \/ SigintMain(c) PROVE Basics
<1>0. c \in 1..4
  BY DEF Clients
<1>1. CASE KillClient(c)
  <2>1. TypeOK' /\ Lives'
    BY <1>1 DEF KillClient, GotoMain, TypeOK, Lives, kernel, serving
  <2>2. QED
    BY <1>1, <2>1, QuietKept, SentKept DEF KillClient, Basics, kernel
<1>2. CASE SigintMain(c)
  <2>1. Kept /\ is_running' \in [1..4 -> BOOLEAN]
    BY <1>0, <1>2, SigintKept, SentKept DEF SigintMain, kernel
  <2>2. /\ UNCHANGED <<kernel, msgid, recv, nextDest, sent, inHand, message, printed, serving>>
        /\ main' = main \/ (main[c] = "send" /\ main' = [main EXCEPT ![c] = "loop"])
    BY <1>2 DEF SigintMain, GotoMain
  <2>3. main' \in [Clients -> {"start", "handler", "loop", "drain", "send", "join",
                                "remove", "done"}]
    BY <2>2 DEF TypeOK
  <2>4. \A b \in Clients : main'[b] = main[b] \/ (main'[b] = "loop" /\ main[b] = "send")
    BY <2>2 DEF TypeOK
  <2>5. TypeOK'
    BY <2>1, <2>2, <2>3 DEF TypeOK, kernel, serving
  <2>6. Lives'
    BY <2>2, <2>4 DEF TypeOK, Lives, kernel, serving
  <2>7. QED
    BY <2>1, <2>5, <2>6 DEF Basics
<1>3. QED
  BY <1>1, <1>2

LEMMA InterruptibleAreProcesses == \A p \in Interruptible : p = Server \/ p \in Clients
BY MessageQueueAssumption DEF Server, Clients

LEMMA NextBasics == ASSUME TypeOK, Lives, Next PROVE Basics
BY MainBasics, RecvBasics, ServerBasics, SignalBasics, InterruptibleAreProcesses
   DEF Next, Sigint

-----------------------------------------------------------------------------
(* What is in the queue and in the hands of the threads.                   *)

LEMMA WrittenKept ==
  ASSUME TypeOK, Basics, NEW m \in Messages, Written(m) PROVE Written(m)'
<1>1. /\ m.source \in Clients /\ m.text \in 1..sent[m.source]
      /\ sent[m.source] \in Int /\ sent'[m.source] \in Int
  BY DEF Written, Messages, TypeOK, Basics
<1>2. sent[m.source] <= sent'[m.source]
  BY <1>1 DEF Basics, Kept
<1>3. QED
  BY <1>1, <1>2 DEF Written

LEMMA QueueFrame ==
  ASSUME TypeOK, Basics, QueueOK,
         \A k \in DOMAIN queue' :
           OnQueue(queue[k])' \/ \E j \in DOMAIN queue : queue'[k] = queue[j]
  PROVE  QueueOK'
<1>1. \A j \in DOMAIN queue : queue[j] \in Messages
  BY DEF TypeOK
<1>2. ASSUME NEW j \in DOMAIN queue, NEW k \in DOMAIN queue', queue'[k] = queue[j]
      PROVE  OnQueue(queue[k])'
  <2>1. OnQueue(queue[j])
    BY DEF QueueOK
  <2>2. Written(queue[j]) => queue[j].text \in 1..sent'[queue[j].source]
    BY <1>1, WrittenKept DEF Written
  <2>3. QED
    BY <1>2, <2>1, <2>2 DEF OnQueue, Written
<1>3. QED
  BY <1>2 DEF QueueOK

LEMMA HandsFrame ==
  ASSUME TypeOK, Basics, HandsOK,
         server' = "forward" => (server = "forward" /\ msg' = msg) \/ Written(msg)',
         \A c \in Clients : recv'[c] = "push" =>
           (recv[c] = "push" /\ inHand'[c] = inHand[c]) \/ Local(c, inHand[c])',
         \A c \in Clients : inHand'[c] = inHand[c] \/ Received(c, inHand[c])'
  PROVE  HandsOK'
<1>1. (server = "forward" => Written(msg))'
  <2>1. msg \in Messages
    BY DEF TypeOK
  <2>2. server = "forward" => msg.text \in 1..sent'[msg.source]
    BY <2>1, WrittenKept DEF HandsOK, Written
  <2>3. QED
    BY <2>2 DEF Written
<1>2. ASSUME NEW c \in Clients, recv'[c] = "push", ~Local(c, inHand[c])'
      PROVE  FALSE
  <2>1. inHand[c] \in Messages /\ recv[c] = "push" /\ inHand'[c] = inHand[c]
    BY <1>2 DEF TypeOK
  <2>2. Local(c, inHand[c])
    BY <2>1 DEF HandsOK
  <2> DEFINE m == inHand[c]
  <2>3. \/ m.dest = c /\ m.text \in 1..sent'[m.source]
        \/ m.text = Garbage /\ MayFail(c)'
    BY <2>1, <2>2, WrittenKept DEF Local, Written, Basics, Kept
  <2>4. QED
    BY <1>2, <2>1, <2>3 DEF Local, Written
<1>3. ASSUME NEW c \in Clients, inHand'[c] = inHand[c] PROVE Received(c, inHand[c])'
  <2>1. inHand[c] \in Messages /\ Received(c, inHand[c])
    BY DEF TypeOK, HandsOK
  <2>2. inHand[c].text > 0 => inHand[c].dest = c /\ inHand[c].text \in 1..sent'[inHand[c].source]
    BY <2>1, WrittenKept DEF Received, Written
  <2>3. QED
    BY <1>3, <2>2 DEF Received, Written
<1>4. QED
  BY <1>1, <1>2, <1>3 DEF HandsOK

LEMMA LocalFrame ==
  ASSUME Inv, Basics,
         \A c \in Clients :
           /\ \A k \in DOMAIN message'[c] :
                \/ recv[c] = "push" /\ message'[c][k] = inHand[c]
                \/ \E j \in DOMAIN message[c] : message'[c][k] = message[c][j]
           /\ \A k \in DOMAIN printed'[c] :
                \/ \E j \in DOMAIN message[c] : printed'[c][k] = message[c][j]
                \/ \E j \in DOMAIN printed[c] : printed'[c][k] = printed[c][j]
  PROVE  LocalOK'
<1>1. SUFFICES ASSUME NEW c \in Clients
               PROVE  /\ \A k \in DOMAIN message'[c] : Local(c, message[c][k])'
                      /\ \A k \in DOMAIN printed'[c] : Local(c, printed[c][k])'
  BY DEF LocalOK
<1> DEFINE H(m) == m \in Messages /\ Local(c, m) /\ recv[c] # "none"
           L(m) == \/ m.dest = c /\ m.text \in 1..sent'[m.source]
                   \/ m.text = Garbage /\ MayFail(c)'
<1>2. ASSUME NEW m, H(m) PROVE L(m)
  BY <1>2, WrittenKept DEF Local, Written, Basics, Kept, Inv
<1>3. recv[c] = "push" => H(inHand[c])
  BY DEF Inv, HandsOK, TypeOK
<1>4. \A j \in DOMAIN message[c] : H(message[c][j])
  BY DEF Inv, LocalOK, Lives, TypeOK
<1>5. \A j \in DOMAIN printed[c] : H(printed[c][j])
  BY DEF Inv, LocalOK, Lives, TypeOK
<1>6. \A k \in DOMAIN message'[c] : L(message'[c][k])
  <2> HIDE DEF H, L
  <2>1. QED
    BY <1>2, <1>3, <1>4
<1>7. \A k \in DOMAIN printed'[c] : L(printed'[c][k])
  <2> HIDE DEF H, L
  <2>1. QED
    BY <1>2, <1>4, <1>5
<1>8. QED
  BY <1>6, <1>7 DEF Local, Written

Genuine == QueueOK /\ HandsOK /\ LocalOK

\* The main thread only moves messages from one local sequence to the other.
LEMMA MainGenuine ==
  ASSUME Inv, Basics, NEW c \in Clients, MainStep(c) \/ KillClient(c) \/ SigintMain(c)
  PROVE  Genuine'
<1> USE DEF Inv, Genuine, GotoMain
<1>1. c \in 1..4
  BY DEF Clients
<1>2. CASE \/ InstallHandler(c) \/ MainLoop(c) \/ Choose(c) \/ Join(c)
           \/ KillClient(c) \/ SigintMain(c)
  <2>1. UNCHANGED <<queue, server, msg, recv, inHand, message, printed>>
    BY <1>2 DEF InstallHandler, MainLoop, Choose, Join, KillClient, SigintMain, kernel, serving
  <2>2. QED
    BY <2>1, QueueFrame, HandsFrame, LocalFrame
<1>3. CASE Start(c)
  <2>1. /\ UNCHANGED <<server, msg, inHand, message, printed>>
        /\ \A b \in Clients : recv'[b] = "push" => recv[b] = "push"
        /\ queue' = queue \/ queue' = <<>>
    BY <1>1, <1>3, GetKeeps DEF Start, serving, TypeOK
  <2>2. QED
    BY <2>1, QueueFrame, HandsFrame, LocalFrame
<1>4. CASE PrintMsg(c)
  <2>1. /\ message[c] \in Seq(Messages) /\ message[c] # <<>> /\ printed[c] \in Seq(Messages)
        /\ UNCHANGED <<queue, server, msg, recv, inHand>>
    BY <1>4 DEF PrintMsg, TypeOK, kernel, serving
  <2>2. /\ \A k \in DOMAIN Tail(message[c]) :
             \E j \in DOMAIN message[c] : Tail(message[c])[k] = message[c][j]
        /\ Head(message[c]) \in Messages
        /\ \E j \in DOMAIN message[c] : Head(message[c]) = message[c][j]
    BY <2>1, HeadTailProperties
  <2> DEFINE r == Append(printed[c], Head(message[c]))
  <2>3. \A k \in DOMAIN r :
          r[k] = Head(message[c]) \/ \E j \in DOMAIN printed[c] : r[k] = printed[c][j]
    <3>1. printed[c] \in Seq(Messages) /\ Head(message[c]) \in Messages
      BY <2>1, <2>2
    <3> HIDE DEF Inv, Genuine, GotoMain
    <3>2. QED
      BY <3>1, AppendHas
  <2>4. /\ printed' = [printed EXCEPT ![c] = r]
        /\ message' = [message EXCEPT ![c] = Tail(message[c])]
    BY <1>4 DEF PrintMsg
  <2> HIDE DEF r
  <2>5. \A b \in Clients :
           /\ \A k \in DOMAIN message'[b] :
                \E j \in DOMAIN message[b] : message'[b][k] = message[b][j]
           /\ \A k \in DOMAIN printed'[b] :
                \/ \E j \in DOMAIN message[b] : printed'[b][k] = message[b][j]
                \/ \E j \in DOMAIN printed[b] : printed'[b][k] = printed[b][j]
    <3>1. message'[c] = Tail(message[c]) /\ printed'[c] = r
      BY <2>4 DEF TypeOK
    <3>2. \A b \in Clients : b # c => message'[b] = message[b] /\ printed'[b] = printed[b]
      BY <2>4 DEF TypeOK
    <3> HIDE DEF Inv, Genuine, GotoMain
    <3>3. \A k \in DOMAIN message'[c] :
            \E j \in DOMAIN message[c] : message'[c][k] = message[c][j]
      BY <2>2, <3>1
    <3>4. \A k \in DOMAIN printed'[c] :
            \/ \E j \in DOMAIN message[c] : printed'[c][k] = message[c][j]
            \/ \E j \in DOMAIN printed[c] : printed'[c][k] = printed[c][j]
      <4>1. PICK j \in DOMAIN message[c] : Head(message[c]) = message[c][j]
        BY <2>2
      <4>2. QED
        BY <2>3, <3>1, <4>1
    <3>5. QED
      BY <3>2, <3>3, <3>4
  <2>6. QED
    BY <2>1, <2>5, QueueFrame, HandsFrame, LocalFrame
<1>5. CASE SendMsg(c)
  <2> DEFINE m == [mtype |-> ToServer, source |-> c, dest |-> nextDest[c], text |-> sent[c] + 1]
  <2>1. UNCHANGED <<server, msg, recv, inHand, message, printed>>
    BY <1>5 DEF SendMsg, serving
  <2>2. CASE Send(c, m) /\ sent' = [sent EXCEPT ![c] = @ + 1]
    <3>1. m \in Messages
      <4>1. nextDest[c] \in Clients /\ sent[c] \in Nat /\ sent[c] < MAX_SENDS[c]
        BY <1>5, MessageQueueAssumption DEF SendMsg, Lives, TypeOK
      <4>2. QED
        BY <4>1, MessageQueueAssumption DEF Messages, ToServer, Texts, Clients
    <3>2. sent'[c] = sent[c] + 1 /\ sent[c] \in Nat
      BY <2>2, MessageQueueAssumption DEF TypeOK
    <3>3. m.text \in 1..sent'[m.source] /\ m.mtype = ToServer
      BY <3>2
    <3>4. \A k \in DOMAIN queue' :
            queue'[k] = m \/ \E j \in DOMAIN queue : queue'[k] = queue[j]
      <4> HIDE DEF m
      <4>1. QED
        BY <1>1, <2>2, <3>1, SendKeeps
    <3> HIDE DEF m
    <3>5. \A k \in DOMAIN queue' :
            OnQueue(queue[k])' \/ \E j \in DOMAIN queue : queue'[k] = queue[j]
      BY <3>3, <3>4 DEF OnQueue, Written
    <3>6. QED
      BY <2>1, <3>5, QueueFrame, HandsFrame, LocalFrame
  <2>3. CASE UNCHANGED <<kernel, sent>>
    BY <2>1, <2>3, QueueFrame, HandsFrame, LocalFrame DEF kernel
  <2>4. QED
    BY <1>5, <2>2, <2>3 DEF SendMsg
<1>6. CASE Leave(c)
  <2>1. /\ UNCHANGED <<server, msg, recv, inHand, message, printed>>
        /\ queue' = queue \/ queue' = <<>>
    BY <1>6 DEF Leave, serving, RemoveQueue, kernel
  <2>2. QED
    BY <2>1, QueueFrame, HandsFrame, LocalFrame
<1>7. QED
  BY <1>2, <1>3, <1>4, <1>5, <1>6 DEF MainStep

\* The receive thread takes what is addressed to it, or garbage if it has an
\* excuse.
LEMMA HandleGenuine ==
  ASSUME Inv, Basics, NEW c \in Clients, NEW m \in Messages, recv[c] = "receive",
         Handle(c, m), m.text # Quit => Local(c, m)', Received(c, m)',
         UNCHANGED <<server, msg, message, printed>>,
         \A k \in DOMAIN queue' : \E j \in DOMAIN queue : queue'[k] = queue[j]
  PROVE  Genuine'
<1> USE DEF Inv
<1>1. QueueOK'
  BY QueueFrame
<1>2. ASSUME NEW b \in Clients, recv'[b] = "push"
      PROVE  (recv[b] = "push" /\ inHand'[b] = inHand[b]) \/ Local(b, inHand[b])'
  <2>1. CASE b = c
    <3>1. m.text # Quit /\ inHand'[c] = m
      BY <1>2, <2>1 DEF Handle, TypeOK
    <3>2. QED
      BY <2>1, <3>1 DEF Local, Written
  <2>2. CASE b # c
    BY <1>2, <2>2 DEF Handle, TypeOK
  <2>3. QED
    BY <2>1, <2>2
<1>3. HandsOK'
  <2>1. /\ inHand'[c] = m /\ \A b \in Clients : b # c => inHand'[b] = inHand[b]
    BY DEF Handle, TypeOK
  <2>2. Received(c, inHand[c])'
    BY <2>1 DEF Received, Written
  <2>3. \A b \in Clients : inHand'[b] = inHand[b] \/ Received(b, inHand[b])'
    BY <2>1, <2>2
  <2>4. QED
    BY <1>2, <2>3, HandsFrame
<1>4. LocalOK'
  BY LocalFrame
<1>5. QED
  BY <1>1, <1>3, <1>4 DEF Genuine

\* What a failed msgrcv leaves in the buffer was received before, or is garbage
\* or Quit.
LEMMA FailedGenuine ==
  ASSUME Inv, Basics, NEW c \in Clients, NEW m \in Uninitialized(c), recv[c] = "receive",
         Handle(c, m), MayFail(c)', UNCHANGED <<queue, server, msg, message, printed>>
  PROVE  Genuine'
<1> USE DEF Inv
<1>1. m \in Messages /\ (m = inHand[c] \/ m.text \in {Quit, Garbage})
  BY BufferTypes
<1>2. m.text > 0 => m.dest = c /\ m.text \in 1..sent'[m.source]
  <2>1. m.text > 0 => m = inHand[c]
    BY <1>1 DEF Quit, Garbage
  <2>2. m.text > 0 => m.dest = c /\ Written(m)
    BY <2>1 DEF HandsOK, Received
  <2>3. QED
    BY <1>1, <2>2, WrittenKept DEF Written
<1>3. m.text > 0 \/ m.text \in {Quit, Garbage}
  BY <1>1 DEF Messages, Texts
<1>4. (m.text # Quit => Local(c, m)') /\ Received(c, m)'
  BY <1>2, <1>3 DEF Local, Received, Written
<1>5. QED
  BY <1>1, <1>4, HandleGenuine

LEMMA RecvGenuine ==
  ASSUME Inv, Basics, NEW c \in Clients, RecvStep(c) \/ SigintRecv(c) PROVE Genuine'
<1> USE DEF Inv, Genuine
<1>1. c \in 1..4 /\ c # ToServer
  BY DEF Clients, ToServer
<1>2. CASE RecvTest(c)
  <2>1. /\ UNCHANGED <<queue, server, msg, inHand, message, printed>>
        /\ \A b \in Clients : recv'[b] = "push" => recv[b] = "push"
    BY <1>2 DEF RecvTest, TypeOK, kernel, serving
  <2>2. QED
    BY <2>1, QueueFrame, HandsFrame, LocalFrame
<1>3. CASE RecvMsg(c)
  <2>0. PICK m : m = queue[Oldest(c)]
    OBVIOUS
  <2>1. /\ Handle(c, m) /\ Receive(c, c) /\ recv[c] = "receive"
        /\ UNCHANGED <<server, msg, message, printed, sent>>
    BY <1>3, <2>0 DEF RecvMsg, serving
  <2>2. /\ \A k \in DOMAIN queue' : \E j \in DOMAIN queue : queue'[k] = queue[j]
        /\ m \in Messages /\ m.mtype = c /\ OnQueue(m)
    BY <1>1, <2>0, <2>1, ReceiveKeeps DEF QueueOK
  <2>3. m.text # Quit => m.dest = c /\ Written(m)
    BY <1>1, <2>2 DEF OnQueue
  <2>4. m.text # Quit => m.dest = c /\ m.text \in 1..sent'[m.source]
    BY <2>1, <2>3 DEF Written
  <2>5. (m.text # Quit => Local(c, m)') /\ Received(c, m)'
    BY <2>4 DEF Local, Received, Written, Quit
  <2>6. QED
    BY <2>1, <2>2, <2>5, HandleGenuine
<1>4. CASE RecvFails(c)
  <2>1. /\ recv[c] = "receive" /\ Removed(c)
        /\ UNCHANGED <<exists, msgid, queue, server, msg, message, printed>>
    BY <1>4, FailsHandles DEF kernel, serving
  <2>2. MayFail(c)'
    BY <2>1 DEF MayFail, Removed
  <2>3. CASE \E m \in Uninitialized(c) : Handle(c, m)
    <3>1. PICK m \in Uninitialized(c) : Handle(c, m)
      BY <2>3
    <3>2. QED
      BY <2>1, <2>2, <3>1, FailedGenuine
  <2>4. CASE recv' = [recv EXCEPT ![c] = "test"] /\ UNCHANGED inHand
    <3>1. \A b \in Clients : recv'[b] = "push" => recv[b] = "push"
      BY <2>4 DEF TypeOK
    <3>2. QED
      BY <2>1, <2>4, <3>1, QueueFrame, HandsFrame, LocalFrame
  <2>5. QED
    BY <1>4, <2>3, <2>4, FailsHandles
<1>5. CASE Push(c)
  <2>1. /\ UNCHANGED <<queue, server, msg, inHand, printed>> /\ recv[c] = "push"
        /\ \A b \in Clients : recv'[b] = "push" => recv[b] = "push"
        /\ message' = [message EXCEPT ![c] = Append(message[c], inHand[c])]
    BY <1>5 DEF Push, TypeOK, kernel, serving
  <2>2. message[c] \in Seq(Messages) /\ inHand[c] \in Messages
    BY DEF TypeOK
  <2>3. \A k \in DOMAIN Append(message[c], inHand[c]) :
          \/ Append(message[c], inHand[c])[k] = inHand[c]
          \/ \E j \in DOMAIN message[c] : Append(message[c], inHand[c])[k] = message[c][j]
    <3> HIDE DEF Inv, Genuine
    <3>1. QED
      BY <2>2, AppendHas
  <2>4. /\ message'[c] = Append(message[c], inHand[c])
        /\ \A b \in Clients : b # c => message'[b] = message[b]
    BY <2>1 DEF TypeOK
  <2>5. \A b \in Clients : \A k \in DOMAIN message'[b] :
          \/ recv[b] = "push" /\ message'[b][k] = inHand[b]
          \/ \E j \in DOMAIN message[b] : message'[b][k] = message[b][j]
    <3> HIDE DEF Inv, Genuine
    <3>1. QED
      BY <2>1, <2>3, <2>4
  <2>6. QED
    BY <2>1, <2>5, QueueFrame, HandsFrame, LocalFrame
<1>6. CASE SigintRecv(c)
  <2>1. PICK m \in Uninitialized(c) : Handle(c, m)
    BY <1>6 DEF SigintRecv
  <2>2. recv[c] = "receive" /\ UNCHANGED <<queue, server, msg, message, printed>>
    BY <1>6 DEF SigintRecv, kernel, serving
  <2>3. ~is_running'[c]
    BY <1>1, <1>6, Zenon DEF SigintRecv, TypeOK
  <2>4. MayFail(c)'
    BY <2>3, Zenon DEF MayFail
  <2>5. QED
    BY <2>1, <2>2, <2>4, FailedGenuine
<1>7. QED
  BY <1>2, <1>3, <1>4, <1>5, <1>6 DEF RecvStep

\* The server sends a message to its destination, and Quit to everyone.
LEMMA ServerSendGenuine ==
  ASSUME Inv, Basics, NEW m \in Messages, OnQueue(m), server' # "forward",
         Send(Server, m) \/ UNCHANGED kernel, UNCHANGED clients
  PROVE  Genuine'
<1> USE DEF Inv, Genuine
<1>1. Server \in 1..4
  BY DEF Server
<1>2. \A k \in DOMAIN queue' :
        queue'[k] = m \/ \E j \in DOMAIN queue : queue'[k] = queue[j]
  BY <1>1, SendKeeps DEF kernel
<1>3. \A k \in DOMAIN queue' :
        OnQueue(queue[k])' \/ \E j \in DOMAIN queue : queue'[k] = queue[j]
  BY <1>2 DEF OnQueue, Written, clients
<1>4. QED
  BY <1>3, QueueFrame, HandsFrame, LocalFrame DEF clients

LEMMA ServerGenuine ==
  ASSUME Inv, Basics, ServerStep \/ KillServer \/ SigintServer PROVE Genuine'
<1> USE DEF Inv, Genuine
<1>1. Server \in 1..4
  BY DEF Server
<1>2. CASE StartServer \/ KillServer
  <2>1. UNCHANGED clients /\ server' # "forward" /\ (queue' = queue \/ queue' = <<>>)
    BY <1>1, <1>2, GetKeeps DEF StartServer, KillServer, kernel
  <2>2. QED
    BY <2>1, QueueFrame, HandsFrame, LocalFrame DEF clients
<1>3. CASE ServerReceive
  <2>1. /\ \A k \in DOMAIN queue' : \E j \in DOMAIN queue : queue'[k] = queue[j]
        /\ msg'.mtype = ToServer /\ OnQueue(msg') /\ UNCHANGED clients
    BY <1>1, <1>3, ReceiveKeeps DEF ServerReceive, QueueOK
  <2>2. Written(msg)'
    BY <2>1 DEF OnQueue, Written, clients
  <2>3. QED
    BY <2>1, <2>2, QueueFrame, HandsFrame, LocalFrame DEF clients
<1>4. CASE Forward
  <2> DEFINE m == [msg EXCEPT !.mtype = msg.dest]
  <2>1. m \in Messages /\ Written(msg) /\ msg \in Messages
    BY <1>4, ForwardedTypes DEF Forward, HandsOK, TypeOK
  <2>2. OnQueue(m)
    BY <2>1 DEF OnQueue, Written, Messages
  <2>3. QED
    BY <1>4, <2>1, <2>2, ServerSendGenuine DEF Forward
<1>5. CASE BeginQuit
  <2>1. UNCHANGED <<queue, clients>> /\ server' # "forward"
    BY <1>5 DEF BeginQuit, kernel
  <2>2. QED
    BY <2>1, QueueFrame, HandsFrame, LocalFrame DEF clients
<1>6. CASE SendQuit
  <2> DEFINE m == [msg EXCEPT !.mtype = quitTo, !.text = Quit]
  <2>1. m \in Messages /\ msg \in Messages /\ quitTo \in 1..3
    BY ForwardedTypes DEF TypeOK
  <2>2. OnQueue(m)
    BY <2>1 DEF OnQueue, Messages, ToServer
  <2>3. server' # "forward"
    BY <1>6 DEF SendQuit, NextQuit
  <2>4. QED
    BY <1>6, <2>1, <2>2, <2>3, ServerSendGenuine DEF SendQuit
<1>7. CASE StopServer
  <2>1. UNCHANGED clients /\ server' # "forward" /\ (queue' = queue \/ queue' = <<>>)
    BY <1>7 DEF StopServer, RemoveQueue, kernel
  <2>2. QED
    BY <2>1, QueueFrame, HandsFrame, LocalFrame DEF clients
<1>8. CASE SigintServer
  <2>1. UNCHANGED <<queue, clients>>
    BY <1>8 DEF SigintServer, kernel
  <2>2. server' = "forward" => server = "forward" /\ msg' = msg
    BY <1>8 DEF SigintServer, NextQuit
  <2>3. QED
    BY <2>1, <2>2, QueueFrame, HandsFrame, LocalFrame DEF clients
<1>9. QED
  BY <1>2, <1>3, <1>4, <1>5, <1>6, <1>7, <1>8 DEF ServerStep

LEMMA NextInv == ASSUME Inv, [Next]_vars PROVE Inv'
<1>1. CASE UNCHANGED vars
  BY <1>1 DEF Inv, TypeOK, Lives, QueueOK, HandsOK, Received, LocalOK, OnQueue, Written, Local,
              MayFail, Removed, vars, kernel, clients, serving
<1>2. CASE Next
  <2>1. Basics
    BY <1>2, NextBasics DEF Inv
  <2>2. Genuine'
    BY <1>2, <2>1, MainGenuine, RecvGenuine, ServerGenuine, InterruptibleAreProcesses
       DEF Next, Sigint
  <2>3. QED
    BY <2>1, <2>2 DEF Inv, Basics, Genuine
<1>3. QED
  BY <1>1, <1>2

-----------------------------------------------------------------------------
\* client1.cpp:28-107, server.cpp:40-73: the inductive invariant; it has the
\* types, and says where written texts, Quit and garbage may be.
THEOREM MqInvariant == Spec => []Inv
BY InitInv, NextInv, PTL DEF Spec

\* The types of the queue and of all threads.
THEOREM MqTypeCorrect == Spec => []TypeOK
<1>1. Inv => TypeOK
  BY DEF Inv
<1>2. QED
  BY <1>1, MqInvariant, PTL

\* client1.cpp:85-107, server.cpp:52-56: a client prints what a client wrote to
\* it, or garbage once its queue is gone or a signal has come.
THEOREM MqPrintedIsSent == Spec => []PrintedIsSent
<1>1. Inv => PrintedIsSent
  BY DEF Inv, LocalOK, Local, Written, MayFail, PrintedIsSent
<1>2. QED
  BY <1>1, MqInvariant, PTL

-----------------------------------------------------------------------------
(* The order of the messages.  A position on the way to b is a place i and *)
(* an index k; each step maps the positions that are taken after it to     *)
(* positions that held the same messages before it, and keeps their order. *)
(* The buffer of the receive thread is a place also when it is stale: what *)
(* it then holds was pushed, and is pushed again if msgrcv fails.          *)

InPlace(b, i, k, m) ==
  \/ i = 1 /\ k \in DOMAIN printed[b] /\ m = printed[b][k]
  \/ i = 2 /\ k \in DOMAIN message[b] /\ m = message[b][k]
  \/ i = 3 /\ k = 1 /\ m = inHand[b]
  \/ i = 4 /\ k \in OfType(b) /\ m = queue[k]
  \/ i = 5 /\ k = 1 /\ server = "forward" /\ m = msg
  \/ i = 6 /\ k \in OfType(ToServer) /\ m = queue[k]

Before(i, k, j, l) == i < j \/ (i = j /\ k < l)

\* What is in place j on the way to b may be in an earlier place too.
Stale(b, j) == j <= 3 /\ (MayFail(b) \/ (j = 3 /\ recv[b] # "push"))

Apart(b, j, m, n) == ~Overtakes(b, m, n) \/ (Stale(b, j) /\ m.text = n.text)

NoneOvertakes(b) ==
  \A i, k, m, j, l, n :
    InPlace(b, i, k, m) /\ InPlace(b, j, l, n) /\ Before(i, k, j, l) => Apart(b, j, m, n)

OrderInv == \A b \in Clients : NoneOvertakes(b)

LEMMA WayIsPlaces == OrderInv => InOrder
<1> SUFFICES ASSUME OrderInv, NEW b \in Clients, NEW i \in DOMAIN Way(b), NEW j \in DOMAIN Way(b),
                    NEW k \in DOMAIN Way(b)[i], NEW l \in DOMAIN Way(b)[j],
                    i < j \/ (i = j /\ k < l)
             PROVE  \/ ~Overtakes(b, Way(b)[i][k], Way(b)[j][l])
                    \/ j <= 3 /\ MayFail(b) /\ Way(b)[i][k].text = Way(b)[j][l].text
  BY DEF InOrder
<1>1. ASSUME NEW x \in DOMAIN Way(b), NEW y \in DOMAIN Way(b)[x]
      PROVE  InPlace(b, x, y, Way(b)[x][y])
  <2>1. x \in 1..6
    BY DEF Way
  <2>2. CASE x = 1
    BY <1>1, <2>2 DEF Way, InPlace
  <2>3. CASE x = 2
    BY <1>1, <2>3 DEF Way, InPlace
  <2>4. CASE x = 3
    BY <1>1, <2>4 DEF Way, InPlace
  <2>5. CASE x = 4
    BY <1>1, <2>5 DEF Way, InPlace, Typed
  <2>6. CASE x = 5
    BY <1>1, <2>6 DEF Way, InPlace
  <2>7. CASE x = 6
    BY <1>1, <2>7 DEF Way, InPlace, Typed
  <2>8. QED
    BY <2>1, <2>2, <2>3, <2>4, <2>5, <2>6, <2>7
<1>2. InPlace(b, i, k, Way(b)[i][k]) /\ InPlace(b, j, l, Way(b)[j][l])
  BY <1>1
<1>3. Apart(b, j, Way(b)[i][k], Way(b)[j][l])
  BY <1>2 DEF OrderInv, NoneOvertakes, Before
<1>4. j = 3 => recv[b] = "push"
  BY DEF Way
<1>5. QED
  <2> HIDE DEF Way
  <2>1. QED
    BY <1>3, <1>4 DEF Apart, Stale

\* What is in a place has a position and, if its text is a number, was written.
LEMMA PlaceTypes ==
  ASSUME Inv, NEW b \in Clients, NEW i, NEW k, NEW m, InPlace(b, i, k, m)
  PROVE  /\ i \in 1..6 /\ k \in Nat \ {0} /\ m \in Messages
         /\ m.text > 0 => Written(m)
<1>1. i \in 1..6 /\ k \in Nat \ {0} /\ m \in Messages
  BY DEF InPlace, OfType, Inv, TypeOK
<1>2. m.text > 0 => m.text # Quit /\ m.text # Garbage
  BY DEF Quit, Garbage
<1>3. Written(m) \/ m.text = Quit \/ m.text = Garbage \/ ~(m.text > 0)
  BY DEF InPlace, OfType, Inv, QueueOK, HandsOK, LocalOK, OnQueue, Local, Received
<1>4. QED
  BY <1>1, <1>2, <1>3

\* Two messages whose places a step moves or leaves stay apart.
LEMMA StayApart ==
  ASSUME Inv, OrderInv, Kept, NEW b \in Clients, NEW i, NEW k, NEW m, NEW j, NEW l, NEW n, NEW h,
         InPlace(b, i, k, m), InPlace(b, j, l, n), Before(i, k, j, l), j <= 3 => h <= 3,
         j = 3 /\ recv[b] # "push" => (h = 3 /\ recv'[b] # "push") \/ MayFail(b)'
  PROVE  Apart(b, h, m, n)'
<1>1. Apart(b, j, m, n)
  BY DEF OrderInv, NoneOvertakes
<1>2. j <= 3 => recv[b] # "none"
  <2>1. SUFFICES ASSUME j <= 3 PROVE recv[b] # "none"
    OBVIOUS
  <2>2. i \in 1..6 /\ j \in 1..6 /\ (i = 3 => k = 1) /\ (j = 3 => l = 1)
    BY PlaceTypes DEF InPlace
  <2>3. i \in {1, 2}
    BY <2>1, <2>2 DEF Before
  <2>4. message[b] # <<>> \/ printed[b] # <<>>
    BY <2>3 DEF InPlace, Inv, TypeOK
  <2>5. QED
    BY <2>4 DEF Inv, Lives
<1>3. CASE ~Overtakes(b, m, n)
  BY <1>3 DEF Apart
<1>4. CASE j <= 3 /\ MayFail(b) /\ m.text = n.text
  <2>1. MayFail(b)' /\ h <= 3
    BY <1>2, <1>4 DEF Kept
  <2>2. Stale(b, h)'
    BY <2>1 DEF Stale
  <2>3. QED
    BY <1>4, <2>2 DEF Apart
<1>5. CASE j = 3 /\ recv[b] # "push" /\ m.text = n.text
  <2>1. Stale(b, h)'
    BY <1>5 DEF Stale
  <2>2. QED
    BY <1>5, <2>1 DEF Apart
<1>6. QED
  BY <1>1, <1>3, <1>4, <1>5 DEF Apart, Stale

\* A step that takes nothing new into a place.
LEMMA FewerPlaces ==
  ASSUME Inv, OrderInv, Kept,
         \A b \in Clients : \A i, k, m : InPlace(b, i, k, m)' => InPlace(b, i, k, m),
         \A b \in Clients : recv'[b] = "push" => recv[b] = "push"
  PROVE  OrderInv'
<1> SUFFICES ASSUME NEW b \in Clients, NEW i, NEW k, NEW m, NEW j, NEW l, NEW n,
                    InPlace(b, i, k, m)', InPlace(b, j, l, n)', Before(i, k, j, l)
             PROVE  Apart(b, j, m, n)'
  BY DEF OrderInv, NoneOvertakes, Before
<1>1. InPlace(b, i, k, m) /\ InPlace(b, j, l, n)
  OBVIOUS
<1> HIDE DEF InPlace
<1>2. QED
  BY <1>1, StayApart

LEMMA FewerWays ==
  ASSUME Inv, OrderInv, Kept, UNCHANGED <<message, printed, inHand>>,
         queue' = queue \/ queue' = <<>>,
         \A b \in Clients : recv'[b] = "push" => recv[b] = "push",
         server' = "forward" => server = "forward" /\ msg' = msg
  PROVE  OrderInv'
<1>1. ASSUME NEW b \in Clients, NEW i, NEW k, NEW m, InPlace(b, i, k, m)'
      PROVE  InPlace(b, i, k, m)
  BY <1>1 DEF InPlace, OfType
<1>2. QED
  BY <1>1, FewerPlaces

\* PrintMsg moves the first message of the local queue to the end of printed.
LEMMA PrintOrder ==
  ASSUME Inv, OrderInv, Kept, NEW c \in Clients, PrintMsg(c) PROVE OrderInv'
<1> DEFINE s == message[c]
           r == Append(printed[c], Head(s))
           N == Len(printed[c])
<1>1. /\ s \in Seq(Messages) /\ s # <<>> /\ printed[c] \in Seq(Messages) /\ N \in Nat
      /\ UNCHANGED <<queue, server, msg, recv, inHand>>
      /\ printed' = [printed EXCEPT ![c] = r] /\ message' = [message EXCEPT ![c] = Tail(s)]
  BY DEF PrintMsg, Inv, TypeOK, kernel, serving
<1>2. /\ Head(s) = s[1] /\ Head(s) \in Messages /\ 1 \in DOMAIN s
      /\ \A y \in DOMAIN Tail(s) : y + 1 \in DOMAIN s /\ Tail(s)[y] = s[y + 1] /\ y \in Nat \ {0}
  BY <1>1
<1>3. \A y \in DOMAIN r : \/ y \in DOMAIN printed[c] /\ y <= N /\ r[y] = printed[c][y]
                          \/ y = N + 1 /\ r[y] = s[1]
  <2> HIDE DEF s
  <2>1. \A y \in DOMAIN r : \/ y \in DOMAIN printed[c] /\ r[y] = printed[c][y]
                            \/ y = N + 1 /\ r[y] = Head(s)
    BY <1>1, <1>2, AppendHas
  <2> HIDE DEF r
  <2>2. QED
    BY <1>1, <1>2, <2>1
<1>4. /\ printed'[c] = r /\ message'[c] = Tail(s)
      /\ \A b \in Clients : b # c => message'[b] = message[b] /\ printed'[b] = printed[b]
  BY <1>1 DEF Inv, TypeOK
<1> HIDE DEF r
<1> SUFFICES ASSUME NEW b \in Clients, NEW i, NEW k, NEW m, NEW j, NEW l, NEW n,
                    InPlace(b, i, k, m)', InPlace(b, j, l, n)', Before(i, k, j, l)
             PROVE  Apart(b, j, m, n)'
  BY DEF OrderInv, NoneOvertakes, Before
<1>5. CASE b # c
  <2>1. InPlace(b, i, k, m) /\ InPlace(b, j, l, n)
    BY <1>1, <1>4, <1>5 DEF InPlace, OfType
  <2>2. QED
    BY <1>1, <2>1, StayApart
<1>6. CASE b = c
  <2> DEFINE I(x, y) == IF x = 1 /\ y = N + 1 THEN 2 ELSE x
             K(x, y) == IF x = 1 /\ y = N + 1 THEN 1 ELSE IF x = 2 THEN y + 1 ELSE y
  <2>1. ASSUME NEW x, NEW y, NEW u, InPlace(c, x, y, u)'
        PROVE  /\ InPlace(c, I(x, y), K(x, y), u) /\ x \in 1..6
               /\ (x = 1 => y \in 1..(N + 1)) /\ (x = 2 => y \in Nat \ {0})
    <3>1. CASE x = 1
      BY <1>1, <1>2, <1>3, <1>4, <2>1, <3>1 DEF InPlace
    <3>2. CASE x = 2
      BY <1>2, <1>4, <2>1, <3>2 DEF InPlace
    <3>3. CASE x \notin {1, 2}
      BY <1>1, <2>1, <3>3 DEF InPlace, OfType
    <3>4. QED
      BY <3>1, <3>2, <3>3
  <2>2. InPlace(c, I(i, k), K(i, k), m) /\ InPlace(c, I(j, l), K(j, l), n)
    BY <1>6, <2>1
  <2>3. Before(I(i, k), K(i, k), I(j, l), K(j, l))
    <3>1. /\ i \in 1..6 /\ (i = 1 => k \in 1..(N + 1)) /\ (i = 2 => k \in Nat \ {0})
          /\ j \in 1..6 /\ (j = 1 => l \in 1..(N + 1)) /\ (j = 2 => l \in Nat \ {0})
      BY <1>6, <2>1
    <3> HIDE DEF N
    <3>2. QED
      BY <1>1, <3>1 DEF Before
  <2>4. I(j, l) <= 3 => j <= 3
    BY <2>1
  <2>5. I(j, l) = 3 => j = 3
    BY <2>1
  <2> HIDE DEF I, K, N
  <2>6. QED
    BY <1>1, <1>6, <2>2, <2>3, <2>4, <2>5, StayApart
<1>7. QED
  BY <1>5, <1>6

\* Push moves the message in the thread's hand to the end of the local queue.
LEMMA PushOrder ==
  ASSUME Inv, OrderInv, Kept, NEW c \in Clients, Push(c) PROVE OrderInv'
<1> DEFINE s == message[c]
           r == Append(s, inHand[c])
           N == Len(s)
<1>1. /\ s \in Seq(Messages) /\ inHand[c] \in Messages /\ N \in Nat /\ recv[c] = "push"
      /\ UNCHANGED <<queue, server, msg, printed, inHand>>
      /\ recv' = [recv EXCEPT ![c] = "test"] /\ message' = [message EXCEPT ![c] = r]
  BY DEF Push, Inv, TypeOK, kernel, serving
<1>2. \A y \in DOMAIN r : \/ y \in DOMAIN s /\ y <= N /\ r[y] = s[y]
                          \/ y = N + 1 /\ r[y] = inHand[c]
  <2> HIDE DEF s
  <2>1. \A y \in DOMAIN r : \/ y \in DOMAIN s /\ r[y] = s[y]
                            \/ y = N + 1 /\ r[y] = inHand[c]
    BY <1>1, AppendHas
  <2> HIDE DEF r
  <2>2. QED
    BY <1>1, <2>1
<1>3. /\ message'[c] = r /\ recv'[c] = "test"
      /\ \A b \in Clients : b # c => message'[b] = message[b] /\ recv'[b] = recv[b]
  BY <1>1 DEF Inv, TypeOK
<1> HIDE DEF r
<1> SUFFICES ASSUME NEW b \in Clients, NEW i, NEW k, NEW m, NEW j, NEW l, NEW n,
                    InPlace(b, i, k, m)', InPlace(b, j, l, n)', Before(i, k, j, l)
             PROVE  Apart(b, j, m, n)'
  BY DEF OrderInv, NoneOvertakes, Before
<1>4. CASE b # c
  <2>1. InPlace(b, i, k, m) /\ InPlace(b, j, l, n)
    BY <1>1, <1>3, <1>4 DEF InPlace, OfType
  <2>2. QED
    BY <1>3, <1>4, <2>1, StayApart
<1>5. CASE b = c
  <2> DEFINE I(x, y) == IF x = 2 /\ y = N + 1 THEN 3 ELSE x
             K(x, y) == IF x = 2 /\ y = N + 1 THEN 1 ELSE y
  <2>1. ASSUME NEW x, NEW y, NEW u, InPlace(c, x, y, u)'
        PROVE  /\ InPlace(c, I(x, y), K(x, y), u) /\ x \in 1..6 /\ (x = 3 => y = 1)
               /\ y \in Nat \ {0} /\ (x = 2 => y <= N + 1)
    <3>1. CASE x = 2
      BY <1>1, <1>2, <1>3, <2>1, <3>1 DEF InPlace
    <3>2. CASE x # 2
      <4>1. InPlace(c, x, y, u) /\ (x = 3 => y = 1)
        BY <1>1, <1>3, <2>1, <3>2 DEF InPlace, OfType
      <4>2. QED
        BY <3>2, <4>1, PlaceTypes
    <3>3. QED
      BY <3>1, <3>2
  <2>2. InPlace(c, I(i, k), K(i, k), m) /\ InPlace(c, I(j, l), K(j, l), n)
    BY <1>5, <2>1
  <2>3. /\ i \in 1..6 /\ k \in Nat \ {0} /\ (i = 2 => k <= N + 1) /\ (i = 3 => k = 1)
        /\ j \in 1..6 /\ l \in Nat \ {0} /\ (j = 2 => l <= N + 1) /\ (j = 3 => l = 1)
        /\ N \in Nat
    BY <1>1, <1>5, <2>1
  <2>4. CASE i = 2 /\ k = N + 1 /\ j = 3
    <3>1. m = inHand[c] /\ n = inHand[c]
      BY <2>2, <2>3, <2>4 DEF InPlace
    <3>2. Stale(c, 3)'
      BY <1>3 DEF Stale
    <3>3. QED
      BY <1>5, <2>4, <3>1, <3>2 DEF Apart
  <2>5. CASE ~(i = 2 /\ k = N + 1 /\ j = 3)
    <3>1. Before(I(i, k), K(i, k), I(j, l), K(j, l))
      <4> HIDE DEF N
      <4>1. QED
        BY <2>3, <2>5 DEF Before
    <3>2. I(j, l) <= 3 => j <= 3
      BY <2>3
    <3> HIDE DEF I, K, N
    <3>3. QED
      BY <1>1, <1>5, <2>2, <3>1, <3>2, StayApart
  <2>6. QED
    BY <2>4, <2>5
<1>6. QED
  BY <1>4, <1>5

\* Receive takes the first message of its type; the others move up, in order.
LEMMA ReceiveOrder ==
  ASSUME Inv, NEW p, NEW t, Receive(p, t)
  PROVE  /\ Oldest(t) \in OfType(t) /\ Oldest(t) \in Nat \ {0}
         /\ \A y \in OfType(t) : Oldest(t) <= y
         /\ \A v : \A y \in OfType(v)' : LET x == IF y < Oldest(t) THEN y ELSE y + 1
                                        IN  /\ y \in Nat \ {0} /\ x \in OfType(v)
                                            /\ queue'[y] = queue[x]
<1> DEFINE o == Oldest(t)
<1>1. /\ queue \in Seq(Messages) /\ Len(queue) \in Nat /\ DOMAIN queue = 1..Len(queue)
      /\ OfType(t) # {} /\ queue' = RemoveAt(queue, o)
  BY DEF Receive, Inv, TypeOK
<1>2. /\ o \in 1..Len(queue) /\ queue[o].mtype = t /\ \A y \in OfType(t) : o <= y
  BY <1>1, OldestIsOfType
<1> HIDE DEF o
<1>3. /\ queue' \in Seq(Messages) /\ Len(queue') = Len(queue) - 1
      /\ \A y \in 1..(Len(queue) - 1) : queue'[y] = queue[IF y <= o - 1 THEN y ELSE y + 1]
  <2> HIDE DEF Inv
  <2>1. QED
    BY <1>1, <1>2, RemoveAtProperties
<1>4. ASSUME NEW y \in 1..(Len(queue) - 1)
      PROVE  /\ y \in Nat \ {0} /\ (IF y < o THEN y ELSE y + 1) \in DOMAIN queue
             /\ queue'[y] = queue[IF y < o THEN y ELSE y + 1]
  <2>1. y <= o - 1 <=> y < o
    BY <1>1, <1>2
  <2>2. queue'[y] = queue[IF y <= o - 1 THEN y ELSE y + 1]
    BY <1>3
  <2>3. QED
    BY <1>1, <1>2, <2>1, <2>2
<1>5. ASSUME NEW v, NEW y \in OfType(v)'
      PROVE  LET x == IF y < o THEN y ELSE y + 1
             IN  y \in Nat \ {0} /\ x \in OfType(v) /\ queue'[y] = queue[x]
  <2>1. y \in DOMAIN queue' /\ queue'[y].mtype = v
    BY DEF OfType
  <2>2. y \in 1..(Len(queue) - 1)
    BY <1>1, <1>3, <2>1
  <2>3. QED
    BY <1>4, <2>1, <2>2 DEF OfType
<1>6. QED
  BY <1>1, <1>2, <1>5 DEF OfType, o

\* RecvMsg moves the oldest message of its type from the queue to the hand of
\* the receive thread, behind what that thread handed on before.
LEMMA TakeOrder ==
  ASSUME Inv, OrderInv, Kept, NEW c \in Clients, RecvMsg(c) PROVE OrderInv'
<1> DEFINE o == Oldest(c)
           S(y) == IF y < o THEN y ELSE y + 1
<1>1. /\ o \in OfType(c) /\ o \in Nat \ {0} /\ \A y \in OfType(c) : o <= y
      /\ \A v : \A y \in OfType(v)' :
           y \in Nat \ {0} /\ S(y) \in OfType(v) /\ queue'[y] = queue[S(y)]
  BY ReceiveOrder DEF RecvMsg
<1>2. /\ UNCHANGED <<server, msg, printed, message>> /\ recv[c] = "receive"
      /\ inHand'[c] = queue[o]
      /\ \A b \in Clients : b # c => inHand'[b] = inHand[b] /\ recv'[b] = recv[b]
  BY DEF RecvMsg, Handle, Inv, TypeOK, serving
<1> HIDE DEF o
<1> SUFFICES ASSUME NEW b \in Clients, NEW i, NEW k, NEW m, NEW j, NEW l, NEW n,
                    InPlace(b, i, k, m)', InPlace(b, j, l, n)', Before(i, k, j, l)
             PROVE  Apart(b, j, m, n)'
  BY DEF OrderInv, NoneOvertakes, Before
<1> DEFINE New(x) == b = c /\ x = 3
           I(x, y) == IF New(x) THEN 4 ELSE x
           K(x, y) == IF New(x) THEN o ELSE IF x \in {4, 6} THEN S(y) ELSE y
<1>3. ASSUME NEW x, NEW y, NEW u, InPlace(b, x, y, u)'
      PROVE  /\ InPlace(b, I(x, y), K(x, y), u) /\ x \in 1..6 /\ y \in Nat \ {0}
             /\ (x = 4 => S(y) \in OfType(b)) /\ (New(x) => y = 1)
  <2>1. CASE x \in {1, 2, 5}
    <3>1. InPlace(b, x, y, u)
      BY <1>2, <1>3, <2>1 DEF InPlace
    <3>2. QED
      BY <2>1, <3>1, PlaceTypes
  <2>2. CASE x = 3
    BY <1>1, <1>2, <1>3, <2>2 DEF InPlace
  <2>3. CASE x = 4
    BY <1>1, <1>3, <2>3 DEF InPlace
  <2>4. CASE x = 6
    BY <1>1, <1>3, <2>4 DEF InPlace
  <2>5. QED
    BY <1>3, <2>1, <2>2, <2>3, <2>4 DEF InPlace
<1>4. InPlace(b, I(i, k), K(i, k), m) /\ InPlace(b, I(j, l), K(j, l), n)
  BY <1>3
<1>5. Before(I(i, k), K(i, k), I(j, l), K(j, l))
  <2>1. /\ i \in 1..6 /\ k \in Nat \ {0} /\ (New(i) => k = 1)
        /\ j \in 1..6 /\ l \in Nat \ {0} /\ (New(j) => l = 1)
        /\ j = 4 /\ b = c => o <= S(l)
        /\ o \in Nat
    BY <1>1, <1>3
  <2>2. j = 4 /\ b = c => o < S(l)
    BY <2>1
  <2>3. CASE i # j
    BY <2>1, <2>2, <2>3 DEF Before
  <2>4. CASE i = j
    BY <2>1, <2>4 DEF Before
  <2>5. QED
    BY <2>3, <2>4
<1>6. (I(j, l) <= 3 => j <= 3) /\ (I(j, l) = 3 => j = 3 /\ b # c)
  BY <1>3
<1> HIDE DEF I, K, New, S
<1>7. QED
  BY <1>2, <1>4, <1>5, <1>6, StayApart

\* ServerReceive moves the oldest message for the server to its hand.
LEMMA ServerTakeOrder ==
  ASSUME Inv, OrderInv, Kept, ServerReceive PROVE OrderInv'
<1> DEFINE o == Oldest(ToServer)
           S(y) == IF y < o THEN y ELSE y + 1
<1>1. /\ o \in OfType(ToServer) /\ o \in Nat \ {0} /\ \A y \in OfType(ToServer) : o <= y
      /\ \A v : \A y \in OfType(v)' :
           y \in Nat \ {0} /\ S(y) \in OfType(v) /\ queue'[y] = queue[S(y)]
  BY ReceiveOrder DEF ServerReceive
<1>2. UNCHANGED <<printed, message, recv, inHand>> /\ msg' = queue[o]
  BY DEF ServerReceive, clients
<1> HIDE DEF o
<1> SUFFICES ASSUME NEW b \in Clients, NEW i, NEW k, NEW m, NEW j, NEW l, NEW n,
                    InPlace(b, i, k, m)', InPlace(b, j, l, n)', Before(i, k, j, l)
             PROVE  Apart(b, j, m, n)'
  BY DEF OrderInv, NoneOvertakes, Before
<1> DEFINE I(x, y) == IF x = 5 THEN 6 ELSE x
           K(x, y) == IF x = 5 THEN o ELSE IF x \in {4, 6} THEN S(y) ELSE y
<1>3. ASSUME NEW x, NEW y, NEW u, InPlace(b, x, y, u)'
      PROVE  /\ InPlace(b, I(x, y), K(x, y), u) /\ x \in 1..6 /\ y \in Nat \ {0}
             /\ (x = 6 => S(y) \in OfType(ToServer)) /\ (x = 5 => y = 1)
  <2>1. CASE x \in {1, 2, 3}
    BY <1>2, <1>3, <2>1 DEF InPlace, Inv, TypeOK
  <2>2. CASE x = 5
    BY <1>1, <1>2, <1>3, <2>2 DEF InPlace
  <2>3. CASE x = 4
    BY <1>1, <1>3, <2>3 DEF InPlace
  <2>4. CASE x = 6
    BY <1>1, <1>3, <2>4 DEF InPlace
  <2>5. QED
    BY <1>3, <2>1, <2>2, <2>3, <2>4 DEF InPlace
<1>4. InPlace(b, I(i, k), K(i, k), m) /\ InPlace(b, I(j, l), K(j, l), n)
  BY <1>3
<1>5. Before(I(i, k), K(i, k), I(j, l), K(j, l))
  <2>1. /\ i \in 1..6 /\ k \in Nat \ {0} /\ (i = 5 => k = 1)
        /\ j \in 1..6 /\ l \in Nat \ {0} /\ (j = 5 => l = 1)
        /\ j = 6 => o <= S(l)
    BY <1>1, <1>3
  <2>2. j = 6 => o < S(l)
    BY <1>1, <2>1
  <2>3. QED
    BY <1>1, <2>1, <2>2 DEF Before
<1>6. (I(j, l) <= 3 => j <= 3) /\ (I(j, l) = 3 => j = 3)
  BY <1>3
<1> HIDE DEF I, K, S
<1>7. QED
  BY <1>2, <1>4, <1>5, <1>6, StayApart

\* Send appends.
LEMMA SendOrder ==
  ASSUME Inv, NEW p, NEW m \in Messages, Send(p, m)
  PROVE  /\ Len(queue) \in Nat
         /\ \A v : \A y \in OfType(v)' :
              /\ y \in Nat \ {0}
              /\ \/ y <= Len(queue) /\ y \in OfType(v) /\ queue'[y] = queue[y]
                 \/ y = Len(queue) + 1 /\ queue'[y] = m /\ v = m.mtype
<1>1. queue \in Seq(Messages) /\ queue' = Append(queue, m)
  BY DEF Inv, TypeOK, Send
<1>2. QED
  BY <1>1 DEF OfType

\* Forward moves the message in the server's hand behind what it forwarded to
\* the same client before, or drops it with the queue.
LEMMA ForwardOrder ==
  ASSUME Inv, OrderInv, Kept, Forward PROVE OrderInv'
<1> DEFINE f == [msg EXCEPT !.mtype = msg.dest]
           N == Len(queue)
<1>1. /\ UNCHANGED <<printed, message, recv, inHand>> /\ server = "forward" /\ server' = "loop"
      /\ Send(Server, f) \/ UNCHANGED queue
  BY DEF Forward, clients, kernel
<1>2. CASE UNCHANGED queue
  BY <1>1, <1>2, FewerWays
<1>3. CASE Send(Server, f)
  <2>1. /\ f \in Messages /\ f.mtype \in Clients /\ f.mtype # ToServer
        /\ f.source = msg.source /\ f.dest = msg.dest /\ f.text = msg.text
    <3>1. msg \in Messages
      BY DEF Inv, TypeOK
    <3>2. QED
      BY <3>1 DEF Messages, Clients, ToServer
  <2>2. /\ N \in Nat
        /\ \A v : \A y \in OfType(v)' :
             /\ y \in Nat \ {0}
             /\ \/ y <= N /\ y \in OfType(v) /\ queue'[y] = queue[y]
                \/ y = N + 1 /\ queue'[y] = f /\ v = f.mtype
    BY <1>3, <2>1, SendOrder
  <2> HIDE DEF f
  <2> SUFFICES ASSUME NEW b \in Clients, NEW i, NEW k, NEW m, NEW j, NEW l, NEW n,
                      InPlace(b, i, k, m)', InPlace(b, j, l, n)', Before(i, k, j, l)
               PROVE  Apart(b, j, m, n)'
    BY DEF OrderInv, NoneOvertakes, Before
  <2> DEFINE New(x, y) == x = 4 /\ y = N + 1
             I(x, y) == IF New(x, y) THEN 5 ELSE x
             K(x, y) == IF New(x, y) THEN 1 ELSE y
             M(x, y, u) == IF New(x, y) THEN msg ELSE u
  <2>3. ASSUME NEW x, NEW y, NEW u, InPlace(b, x, y, u)'
        PROVE  /\ InPlace(b, I(x, y), K(x, y), M(x, y, u))
               /\ x \in (1..6) \ {5} /\ y \in Nat \ {0} /\ (x = 4 => y <= N + 1)
               /\ u.source = M(x, y, u).source /\ u.dest = M(x, y, u).dest
               /\ u.text = M(x, y, u).text
    <3>1. CASE x \in {1, 2, 3, 5}
      BY <1>1, <2>3, <3>1 DEF InPlace, Inv, TypeOK
    <3>2. CASE x = 4
      BY <1>1, <2>1, <2>2, <2>3, <3>2 DEF InPlace
    <3>3. CASE x = 6
      BY <2>1, <2>2, <2>3, <3>3 DEF InPlace
    <3>4. QED
      BY <2>3, <3>1, <3>2, <3>3 DEF InPlace
  <2>4. InPlace(b, I(i, k), K(i, k), M(i, k, m)) /\ InPlace(b, I(j, l), K(j, l), M(j, l, n))
    BY <2>3
  <2>5. Before(I(i, k), K(i, k), I(j, l), K(j, l))
    <3>1. /\ i \in (1..6) \ {5} /\ k \in Nat \ {0} /\ (i = 4 => k <= N + 1)
          /\ j \in (1..6) \ {5} /\ l \in Nat \ {0} /\ (j = 4 => l <= N + 1)
      BY <2>3
    <3>2. N \in Nat
      BY <2>2
    <3> HIDE DEF N
    <3>3. QED
      BY <3>1, <3>2 DEF Before
  <2>6. PICK u, w : u = M(i, k, m) /\ w = M(j, l, n)
    OBVIOUS
  <2>7. Apart(b, j, u, w)'
    <3>1. (I(j, l) <= 3 => j <= 3) /\ (I(j, l) = 3 => j = 3)
      BY <2>3
    <3>2. InPlace(b, I(i, k), K(i, k), u) /\ InPlace(b, I(j, l), K(j, l), w)
      BY <2>4, <2>6
    <3> HIDE DEF I, K, M, New
    <3>3. QED
      BY <1>1, <2>5, <3>1, <3>2, StayApart
  <2>8. /\ m.source = u.source /\ m.dest = u.dest /\ m.text = u.text
        /\ n.source = w.source /\ n.dest = w.dest /\ n.text = w.text
    <3> HIDE DEF I, K, New
    <3>1. QED
      BY <2>3, <2>6
  <2>9. QED
    BY <2>7, <2>8 DEF Apart, Overtakes
<1>4. QED
  BY <1>1, <1>2, <1>3

\* Quit has no number.
LEMMA QuitOrder ==
  ASSUME Inv, OrderInv, Kept, SendQuit PROVE OrderInv'
<1> DEFINE q == [msg EXCEPT !.mtype = quitTo, !.text = Quit]
<1>1. /\ UNCHANGED <<printed, message, recv, inHand>> /\ server' # "forward"
      /\ Send(Server, q) \/ UNCHANGED queue
  BY DEF SendQuit, NextQuit, clients, kernel
<1>2. CASE UNCHANGED queue
  BY <1>1, <1>2, FewerWays
<1>3. CASE Send(Server, q)
  <2>1. q \in Messages /\ q.text = Quit
    BY ForwardedTypes DEF Inv, TypeOK, Messages
  <2>2. \A v : \A y \in OfType(v)' : \/ y \in OfType(v) /\ queue'[y] = queue[y]
                                   \/ queue'[y] = q
    BY <1>3, <2>1, SendOrder
  <2> HIDE DEF q
  <2> SUFFICES ASSUME NEW b \in Clients, NEW i, NEW k, NEW m, NEW j, NEW l, NEW n,
                      InPlace(b, i, k, m)', InPlace(b, j, l, n)', Before(i, k, j, l)
               PROVE  Apart(b, j, m, n)'
    BY DEF OrderInv, NoneOvertakes, Before
  <2>3. ASSUME NEW x, NEW y, NEW u, InPlace(b, x, y, u)' PROVE InPlace(b, x, y, u) \/ u = q
    BY <1>1, <2>2, <2>3 DEF InPlace
  <2>4. CASE m = q \/ n = q
    <3>1. n.text > 0 /\ m.text >= n.text => m.text # Quit /\ n.text # Quit
      <4>1. m \in Messages /\ n \in Messages
        BY <2>1, <2>3, PlaceTypes
      <4>2. m.text \in Int /\ n.text \in Int
        BY <4>1, MessageQueueAssumption DEF Messages, Texts, Quit, Garbage
      <4>3. QED
        BY <4>2 DEF Quit
    <3>2. QED
      BY <2>1, <2>4, <3>1 DEF Overtakes, Apart
  <2>5. CASE InPlace(b, i, k, m) /\ InPlace(b, j, l, n)
    BY <1>1, <2>5, StayApart
  <2>6. QED
    BY <2>3, <2>4, <2>5
<1>4. QED
  BY <1>1, <1>2, <1>3

\* A new message is the last on its way, and its number is higher than those
\* of the messages that its client wrote before.
LEMMA SendMsgOrder ==
  ASSUME Inv, OrderInv, Kept, NEW c \in Clients, SendMsg(c) PROVE OrderInv'
<1> DEFINE w == [mtype |-> ToServer, source |-> c, dest |-> nextDest[c], text |-> sent[c] + 1]
           N == Len(queue)
<1>1. /\ UNCHANGED <<printed, message, recv, inHand, server, msg>>
      /\ Send(c, w) \/ UNCHANGED queue
  BY DEF SendMsg, serving, kernel
<1>2. CASE UNCHANGED queue
  BY <1>1, <1>2, FewerWays
<1>3. CASE Send(c, w)
  <2>1. /\ w \in Messages /\ w.mtype = ToServer /\ w.source = c /\ w.text = sent[c] + 1
        /\ sent[c] \in Nat
    <3>1. nextDest[c] \in Clients /\ sent[c] \in Nat /\ sent[c] < MAX_SENDS[c]
      BY MessageQueueAssumption DEF SendMsg, Inv, Lives, TypeOK
    <3>2. QED
      BY <3>1, MessageQueueAssumption DEF Messages, ToServer, Texts, Clients
  <2>2. /\ N \in Nat
        /\ \A v : \A y \in OfType(v)' :
             /\ y \in Nat \ {0}
             /\ \/ y <= N /\ y \in OfType(v) /\ queue'[y] = queue[y]
                \/ y = N + 1 /\ queue'[y] = w /\ v = w.mtype
    BY <1>3, <2>1, SendOrder
  <2> HIDE DEF w
  <2> SUFFICES ASSUME NEW b \in Clients, NEW i, NEW k, NEW m, NEW j, NEW l, NEW n,
                      InPlace(b, i, k, m)', InPlace(b, j, l, n)', Before(i, k, j, l)
               PROVE  Apart(b, j, m, n)'
    BY DEF OrderInv, NoneOvertakes, Before
  <2>3. ASSUME NEW x, NEW y, NEW u, InPlace(b, x, y, u)'
        PROVE  \/ InPlace(b, x, y, u) /\ x \in 1..6 /\ (x = 6 => y \in 1..N)
               \/ x = 6 /\ y = N + 1 /\ u = w
    <3>1. CASE x \in {1, 2, 3, 5}
      BY <1>1, <2>3, <3>1 DEF InPlace
    <3>2. CASE x = 4
      BY <2>1, <2>2, <2>3, <3>2 DEF InPlace, ToServer, Clients
    <3>3. CASE x = 6
      BY <2>2, <2>3, <3>3 DEF InPlace
    <3>4. QED
      BY <2>3, <3>1, <3>2, <3>3 DEF InPlace
  <2>4. CASE InPlace(b, i, k, m) /\ InPlace(b, j, l, n)
    BY <1>1, <2>4, StayApart
  <2>5. CASE i = 6 /\ k = N + 1 /\ m = w
    <3>1. j \in 1..6 /\ (j = 6 => l \in 1..(N + 1))
      BY <2>2, <2>3
    <3>2. QED
      BY <2>2, <2>5, <3>1 DEF Before
  <2>6. CASE InPlace(b, i, k, m) /\ n = w
    <3>1. m \in Messages /\ (m.text > 0 => m.text \in 1..sent[m.source])
      BY <2>6, PlaceTypes DEF Written
    <3>2. m.text \in Int
      BY <3>1, MessageQueueAssumption DEF Messages, Texts, Quit, Garbage
    <3>3. QED
      BY <2>1, <2>6, <3>1, <3>2 DEF Overtakes, Apart
  <2>7. QED
    BY <2>3, <2>4, <2>5, <2>6
<1>4. QED
  BY <1>1, <1>2, <1>3

\* A failed msgrcv leaves the buffer as it is, where it is in its place already,
\* or what has no number.
LEMMA FailedOrder ==
  ASSUME Inv, OrderInv, Kept, NEW c \in Clients, NEW g \in Uninitialized(c), Handle(c, g),
         MayFail(c)', recv[c] = "receive", UNCHANGED <<queue, server, msg, message, printed>>
  PROVE  OrderInv'
<1>1. /\ \A b \in Clients : b # c => inHand'[b] = inHand[b] /\ recv'[b] = recv[b]
      /\ inHand'[c] = g
  BY DEF Handle, Inv, TypeOK
<1>2. g \in Messages /\ (g = inHand[c] \/ g.text \in {Quit, Garbage})
  BY BufferTypes DEF Inv
<1> SUFFICES ASSUME NEW b \in Clients, NEW i, NEW k, NEW m, NEW j, NEW l, NEW n,
                    InPlace(b, i, k, m)', InPlace(b, j, l, n)', Before(i, k, j, l)
             PROVE  Apart(b, j, m, n)'
  BY DEF OrderInv, NoneOvertakes, Before
<1>3. ASSUME NEW x, NEW y, NEW u, InPlace(b, x, y, u)'
      PROVE  InPlace(b, x, y, u) \/ (u = g /\ g.text \in {Quit, Garbage})
  BY <1>1, <1>2, <1>3 DEF InPlace, OfType
<1>4. CASE InPlace(b, i, k, m) /\ InPlace(b, j, l, n)
  BY <1>1, <1>4, StayApart
<1>5. CASE (m = g \/ n = g) /\ g.text \in {Quit, Garbage}
  <2>1. m \in Messages /\ n \in Messages
    BY <1>2, <1>3, PlaceTypes
  <2>2. m.text \in Int /\ n.text \in Int
    BY <2>1, MessageQueueAssumption DEF Messages, Texts, Quit, Garbage
  <2>3. QED
    BY <1>5, <2>2 DEF Apart, Overtakes, Quit, Garbage
<1>6. QED
  BY <1>3, <1>4, <1>5

LEMMA GarbageOrder ==
  ASSUME Inv, OrderInv, Kept, NEW c \in Clients, RecvFails(c) \/ SigintRecv(c) PROVE OrderInv'
<1>0. c \in 1..4
  BY DEF Clients
<1>1. CASE SigintRecv(c)
  <2>1. ~is_running'[c]
    BY <1>0, <1>1, Zenon DEF SigintRecv, Inv, TypeOK
  <2>2. MayFail(c)'
    BY <2>1, Zenon DEF MayFail
  <2>3. QED
    BY <1>1, <2>2, FailedOrder DEF SigintRecv, kernel, serving
<1>2. CASE RecvFails(c)
  <2>1. /\ recv[c] = "receive" /\ Removed(c)
        /\ UNCHANGED <<exists, msgid, queue, server, msg, message, printed>>
    BY <1>2, FailsHandles DEF kernel, serving
  <2>2. MayFail(c)'
    BY <2>1 DEF MayFail, Removed
  <2>3. CASE \E g \in Uninitialized(c) : Handle(c, g)
    BY <2>1, <2>2, <2>3, FailedOrder
  <2>4. CASE recv' = [recv EXCEPT ![c] = "test"] /\ UNCHANGED inHand
    <3>1. \A b \in Clients : recv'[b] = "push" => recv[b] = "push"
      BY <2>4 DEF Inv, TypeOK
    <3>2. QED
      BY <2>1, <2>4, <3>1, FewerWays
  <2>5. QED
    BY <1>2, <2>3, <2>4, FailsHandles
<1>3. QED
  BY <1>1, <1>2

\* The other steps put no message in a place.
LEMMA MainOrder ==
  ASSUME Inv, OrderInv, Kept, NEW c \in Clients, MainStep(c) \/ KillClient(c) \/ SigintMain(c)
  PROVE  OrderInv'
<1>1. CASE PrintMsg(c)
  BY <1>1, PrintOrder
<1>2. CASE SendMsg(c)
  BY <1>2, SendMsgOrder
<1>3. CASE Start(c)
  <2>1. queue' = queue \/ queue' = <<>>
    BY <1>3 DEF Start, Get, kernel
  <2>2. /\ UNCHANGED <<message, printed, inHand, server, msg>>
        /\ \A b \in Clients : recv'[b] = "push" => recv[b] = "push"
    BY <1>3 DEF Start, Inv, TypeOK, serving
  <2>3. QED
    BY <2>1, <2>2, FewerWays
<1>4. CASE \/ InstallHandler(c) \/ MainLoop(c) \/ Choose(c) \/ Join(c) \/ Leave(c)
           \/ KillClient(c) \/ SigintMain(c)
  <2>1. /\ UNCHANGED <<message, printed, inHand, recv, server, msg>>
        /\ queue' = queue \/ queue' = <<>>
    BY <1>4 DEF InstallHandler, MainLoop, Choose, Join, Leave, RemoveQueue, KillClient,
                SigintMain, kernel, serving
  <2>2. QED
    BY <2>1, FewerWays
<1>5. QED
  BY <1>1, <1>2, <1>3, <1>4 DEF MainStep

LEMMA RecvOrder ==
  ASSUME Inv, OrderInv, Kept, NEW c \in Clients, RecvStep(c) \/ SigintRecv(c) PROVE OrderInv'
<1>1. CASE RecvTest(c)
  <2>1. /\ UNCHANGED <<message, printed, inHand, queue, server, msg>>
        /\ \A b \in Clients : recv'[b] = "push" => recv[b] = "push"
    BY <1>1 DEF RecvTest, Inv, TypeOK, kernel, serving
  <2>2. QED
    BY <2>1, FewerWays
<1>2. QED
  BY <1>1, TakeOrder, GarbageOrder, PushOrder DEF RecvStep

LEMMA ServerOrder ==
  ASSUME Inv, OrderInv, Kept, ServerStep \/ KillServer \/ SigintServer PROVE OrderInv'
<1>1. CASE StartServer \/ KillServer \/ BeginQuit \/ StopServer \/ SigintServer
  <2>1. /\ UNCHANGED <<message, printed, inHand, recv>>
        /\ queue' = queue \/ queue' = <<>>
        /\ server' = "forward" => server = "forward" /\ msg' = msg
    BY <1>1 DEF StartServer, KillServer, BeginQuit, StopServer, SigintServer, NextQuit,
                Get, RemoveQueue, kernel, clients
  <2>2. QED
    BY <2>1, FewerWays
<1>2. QED
  BY <1>1, ServerTakeOrder, ForwardOrder, QuitOrder DEF ServerStep

LEMMA OrderInvariant == Spec => []OrderInv
<1>1. Init => OrderInv
  <2>1. ASSUME Init, NEW b \in Clients, NEW i, NEW k, NEW m, InPlace(b, i, k, m)
        PROVE  i = 3 /\ k = 1
    BY <2>1 DEF Init, InPlace, OfType
  <2>2. QED
    BY <2>1 DEF OrderInv, NoneOvertakes, Before
<1>2. Inv /\ OrderInv /\ [Next]_vars => OrderInv'
  <2>1. SUFFICES ASSUME Inv, OrderInv, [Next]_vars PROVE OrderInv'
    OBVIOUS
  <2>2. CASE UNCHANGED vars
    <3>1. Kept
      BY <2>1, <2>2, QuietKept, SentKept DEF Inv, vars, kernel, clients
    <3>2. QED
      BY <2>1, <2>2, <3>1, FewerWays DEF vars, kernel, clients, serving
  <2>3. CASE Next
    <3>1. Kept
      BY <2>1, <2>3, NextBasics DEF Inv, Basics
    <3>2. QED
      BY <2>1, <2>3, <3>1, MainOrder, RecvOrder, ServerOrder, InterruptibleAreProcesses
         DEF Next, Sigint
  <2>4. QED
    BY <2>1, <2>2, <2>3
<1>3. QED
  BY <1>1, <1>2, MqInvariant, PTL DEF Spec

\* server.cpp:43-62, client1.cpp:67-107: no message overtakes an earlier one of
\* the same client to the same client.  None is in two places either, except in
\* the addressee after a msgrcv that may have failed: its buffer keeps the
\* message received last, which it may push again any number of times, and even
\* then the repeated message is the last of its source.  For every capacity and
\* number of messages, whoever is interrupted.
THEOREM MqInOrder == Spec => []InOrder
BY OrderInvariant, WayIsPlaces, PTL

-----------------------------------------------------------------------------
(* The channel.  The places are taken together: what is held on a way, and *)
(* what was printed, by ways and numbers.  What is held and was printed    *)
(* already, a failed msgrcv repeats: it is not pending.                    *)

Held    == Range(queue) \cup Pushed \cup InHands
Holding == Numbered(Held)
Pending == Holding \ Numbered(Printed)
Way2Number(m) == <<  <<m.source, m.dest>>, m.text  >>

LEMMA NumberedIs ==
  ASSUME NEW S, NEW x
  PROVE  x \in Numbered(S) <=> \E m \in S : m.text > 0 /\ x = Way2Number(m)
BY DEF Numbered, Way2Number

LEMMA HeldIs ==
  ASSUME NEW m
  PROVE  m \in Held <=>
           \/ \E k \in DOMAIN queue : m = queue[k]
           \/ \E b \in Clients : \E k \in DOMAIN message[b] : m = message[b][k]
           \/ \E b \in Clients : recv[b] = "push" /\ m = inHand[b]
           \/ server = "forward" /\ m = msg
BY DEF Held, Range, Pushed, InHands

LEMMA PrintedSet ==
  ASSUME NEW m
  PROVE  m \in Printed <=> \E b \in Clients : \E k \in DOMAIN printed[b] : m = printed[b][k]
BY DEF Printed, Range

\* A number that is held, or printed, is in a place on its way.
LEMMA HeldInPlace ==
  ASSUME Inv, NEW m \in Held, m.text > 0
  PROVE  /\ m \in Messages /\ Written(m) /\ m.dest \in Clients
         /\ \E i \in 2..6 : \E k : InPlace(m.dest, i, k, m)
<1>0. m.text > 0 => m.text # Quit /\ m.text # Garbage
  BY DEF Quit, Garbage
<1>1. CASE \E k \in DOMAIN queue : m = queue[k]
  <2>1. PICK k \in DOMAIN queue : m = queue[k]
    BY <1>1
  <2>2. m \in Messages /\ OnQueue(m)
    BY <2>1 DEF Inv, TypeOK, QueueOK
  <2>3. Written(m) /\ m.mtype \in {ToServer, m.dest} /\ m.dest \in Clients
    BY <1>0, <2>2 DEF OnQueue, Messages
  <2>4. InPlace(m.dest, 4, k, m) \/ InPlace(m.dest, 6, k, m)
    BY <2>1, <2>3 DEF InPlace, OfType
  <2>5. QED
    BY <2>2, <2>3, <2>4
<1>2. CASE \E b \in Clients : \E k \in DOMAIN message[b] : m = message[b][k]
  <2>1. PICK b \in Clients : \E k \in DOMAIN message[b] : m = message[b][k]
    BY <1>2
  <2>2. PICK k \in DOMAIN message[b] : m = message[b][k]
    BY <2>1
  <2>3. m \in Messages /\ Local(b, m)
    BY <2>2 DEF Inv, TypeOK, LocalOK
  <2>4. m.dest = b /\ Written(m)
    BY <1>0, <2>3 DEF Local
  <2>5. InPlace(b, 2, k, m)
    BY <2>2 DEF InPlace
  <2>6. QED
    BY <2>3, <2>4, <2>5
<1>3. CASE \E b \in Clients : recv[b] = "push" /\ m = inHand[b]
  <2>1. PICK b \in Clients : recv[b] = "push" /\ m = inHand[b]
    BY <1>3
  <2>2. m \in Messages /\ Local(b, m)
    BY <2>1 DEF Inv, TypeOK, HandsOK
  <2>3. m.dest = b /\ Written(m)
    BY <1>0, <2>2 DEF Local
  <2>4. InPlace(b, 3, 1, m)
    BY <2>1 DEF InPlace
  <2>5. QED
    BY <2>2, <2>3, <2>4
<1>4. CASE server = "forward" /\ m = msg
  <2>1. m \in Messages /\ Written(m) /\ m.dest \in Clients
    BY <1>4 DEF Inv, TypeOK, HandsOK, Messages
  <2>2. InPlace(m.dest, 5, 1, m)
    BY <1>4 DEF InPlace
  <2>3. QED
    BY <2>1, <2>2
<1>5. QED
  BY <1>1, <1>2, <1>3, <1>4, HeldIs

LEMMA PrintedInPlace ==
  ASSUME Inv, NEW m \in Printed, m.text > 0
  PROVE  /\ m \in Messages /\ Written(m) /\ m.dest \in Clients
         /\ \E k : InPlace(m.dest, 1, k, m)
<1>1. PICK b \in Clients : \E k \in DOMAIN printed[b] : m = printed[b][k]
  BY PrintedSet
<1>2. PICK k \in DOMAIN printed[b] : m = printed[b][k]
  BY <1>1
<1>3. m \in Messages /\ Local(b, m)
  BY <1>2 DEF Inv, TypeOK, LocalOK
<1>4. m.dest = b /\ Written(m)
  BY <1>3 DEF Local, Garbage
<1>5. InPlace(b, 1, k, m)
  BY <1>2 DEF InPlace
<1>6. QED
  BY <1>3, <1>4, <1>5

\* On each way what was printed has lower numbers than what is held, or is it.
LEMMA PrintedFirst ==
  ASSUME Inv, OrderInv, NEW x \in Numbered(Printed), NEW y \in Holding, x[1] = y[1]
  PROVE  x[2] \in Nat /\ y[2] \in Nat /\ (x[2] < y[2] \/ x = y)
<1>1. PICK p \in Printed : p.text > 0 /\ x = Way2Number(p)
  BY NumberedIs
<1>2. PICK h \in Held : h.text > 0 /\ y = Way2Number(h)
  BY NumberedIs DEF Holding
<1>3. p \in Messages /\ h \in Messages /\ p.dest \in Clients
  BY <1>1, <1>2, HeldInPlace, PrintedInPlace
<1>4. p.source = h.source /\ p.dest = h.dest /\ x[2] = p.text /\ y[2] = h.text
  BY <1>1, <1>2 DEF Way2Number
<1>5. p.text \in Int /\ h.text \in Int
  BY <1>3, MessageQueueAssumption DEF Messages, Texts, Quit, Garbage
<1>6. PICK k : InPlace(p.dest, 1, k, p)
  BY <1>1, PrintedInPlace
<1>7. PICK i \in 2..6 : \E l : InPlace(h.dest, i, l, h)
  BY <1>2, HeldInPlace
<1>8. PICK l : InPlace(h.dest, i, l, h)
  BY <1>7
<1>9. Before(1, k, i, l)
  BY <1>7 DEF Before
<1>10. ~Overtakes(p.dest, p, h) \/ p.text = h.text
  BY <1>3, <1>4, <1>6, <1>8, <1>9 DEF OrderInv, NoneOvertakes, Apart
<1>11. p.text < h.text \/ p.text = h.text
  BY <1>1, <1>2, <1>4, <1>5, <1>10 DEF Overtakes
<1>12. p.text = h.text => x = y
  BY <1>1, <1>2, <1>4 DEF Way2Number
<1>13. QED
  BY <1>1, <1>2, <1>4, <1>5, <1>11, <1>12

-----------------------------------------------------------------------------
(* What the steps do to these sets.                                        *)

InQueue(m)   == \E k \in DOMAIN queue : m = queue[k]
Pushes(b, m) == \E k \in DOMAIN message[b] : m = message[b][k]
Prints(b, m) == \E k \in DOMAIN printed[b] : m = printed[b][k]
InHand(b, m) == recv[b] = "push" /\ m = inHand[b]
InServer(m)  == server = "forward" /\ m = msg

LEMMA HeldNow ==
  ASSUME NEW m
  PROVE  m \in Held <=> InQueue(m) \/ (\E b \in Clients : Pushes(b, m) \/ InHand(b, m)) \/ InServer(m)
BY HeldIs DEF InQueue, Pushes, InHand, InServer

LEMMA HeldNext ==
  ASSUME NEW m
  PROVE  m \in Held' <=>
           InQueue(m)' \/ (\E b \in Clients : Pushes(b, m)' \/ InHand(b, m)') \/ InServer(m)'
<1>1. m \in Held' <=>
           \/ \E k \in DOMAIN queue' : m = queue'[k]
           \/ \E b \in Clients : \E k \in DOMAIN message'[b] : m = message'[b][k]
           \/ \E b \in Clients : recv'[b] = "push" /\ m = inHand'[b]
           \/ server' = "forward" /\ m = msg'
  BY DEF Held, Range, Pushed, InHands
<1>2. QED
  BY <1>1 DEF InQueue, Pushes, InHand, InServer

LEMMA PrintedNow == ASSUME NEW m PROVE m \in Printed <=> \E b \in Clients : Prints(b, m)
BY PrintedSet DEF Prints

LEMMA PrintedNext == ASSUME NEW m PROVE m \in Printed' <=> \E b \in Clients : Prints(b, m)'
<1>1. m \in Printed' <=> \E b \in Clients : \E k \in DOMAIN printed'[b] : m = printed'[b][k]
  BY DEF Printed, Range
<1>2. QED
  BY <1>1 DEF Prints

LEMMA NumberedSubset ==
  ASSUME NEW S, NEW T,
         \A m \in S : m.text > 0 =>
           \E n \in T : n.text > 0 /\ Way2Number(n) = Way2Number(m)
  PROVE  Numbered(S) \subseteq Numbered(T)
<1> SUFFICES ASSUME NEW x \in Numbered(S) PROVE x \in Numbered(T)
  OBVIOUS
<1>1. PICK m \in S : m.text > 0 /\ x = Way2Number(m)
  BY NumberedIs
<1>2. PICK n \in T : n.text > 0 /\ Way2Number(n) = Way2Number(m)
  BY <1>1
<1>3. QED
  BY <1>1, <1>2, NumberedIs

LEMMA NumberedUnion ==
  ASSUME NEW S, NEW T PROVE Numbered(S \cup T) = Numbered(S) \cup Numbered(T)
BY DEF Numbered

\* The kernel's queue: what each call adds, takes out or throws away.
Queues == /\ exists \in {0, created} /\ (exists = 0 => queue = <<>>)
          /\ server \in {"loop", "forward", "quit", "remove"} => msgid[Server] > 0
          /\ \A c \in Clients :
               main[c] \in {"loop", "drain", "send", "join", "remove"} => msgid[c] > 0

Lossy == QueueLost \/ ~is_running[Server]

LEMMA GetFrame ==
  ASSUME Inv, Queues, NEW p \in 1..4, Get(p)
  PROVE  /\ queue' = queue /\ (QueueLost' <=> QueueLost)
         /\ exists' \in {0, created'} /\ exists' # 0
         /\ msgid'[p] > 0 /\ \A q \in (1..4) \ {p} : msgid'[q] = msgid[q]
<1>1. msgid'[p] > 0 /\ \A q \in (1..4) \ {p} : msgid'[q] = msgid[q]
  BY GetKeeps DEF Inv
<1>2. created \in Nat
  BY MessageQueueAssumption DEF Inv, TypeOK
<1>3. CASE exists # 0
  BY <1>1, <1>3 DEF Get, kernel, Queues, QueueLost
<1>4. CASE exists = 0
  BY <1>1, <1>2, <1>4 DEF Get, Queues, QueueLost
<1>5. QED
  BY <1>3, <1>4

LEMMA SendFrame ==
  ASSUME Inv, NEW p, NEW m, Send(p, m)
  PROVE  /\ \A x : InQueue(x)' <=> InQueue(x) \/ x = m
         /\ UNCHANGED <<exists, created>> /\ exists = msgid[p]
<1>1. queue \in Seq(Messages) /\ queue' = Append(queue, m)
  BY DEF Inv, TypeOK, Send
<1>2. Len(queue) \in Nat /\ DOMAIN queue = 1..Len(queue) /\ DOMAIN queue' = 1..(Len(queue) + 1)
  BY <1>1
<1>3. \A k \in 1..(Len(queue) + 1) :
        queue'[k] = IF k <= Len(queue) THEN queue[k] ELSE m
  BY <1>1, <1>2
<1>4. ASSUME NEW x PROVE InQueue(x)' <=> InQueue(x) \/ x = m
  <2>1. InQueue(x)' => InQueue(x) \/ x = m
    BY <1>2, <1>3 DEF InQueue
  <2>2. InQueue(x) => InQueue(x)'
    BY <1>2, <1>3 DEF InQueue
  <2>3. x = m => InQueue(x)'
    <3>1. Len(queue) + 1 \in DOMAIN queue' /\ queue'[Len(queue) + 1] = m
      BY <1>2, <1>3
    <3>2. QED
      BY <3>1 DEF InQueue
  <2>4. QED
    BY <2>1, <2>2, <2>3
<1>5. QED
  BY <1>4 DEF Send, Removed

LEMMA ReceiveFrame ==
  ASSUME Inv, NEW p, NEW t, Receive(p, t)
  PROVE  /\ InQueue(queue[Oldest(t)])
         /\ \A x : InQueue(x) <=> InQueue(x)' \/ x = queue[Oldest(t)]
         /\ UNCHANGED <<exists, created>>
<1> DEFINE o == Oldest(t)
<1>1. queue \in Seq(Messages) /\ OfType(t) # {} /\ queue' = RemoveAt(queue, o)
  BY DEF Inv, TypeOK, Receive
<1>2. o \in 1..Len(queue)
  BY <1>1, OldestIsOfType
<1> HIDE DEF o
<1>3. /\ queue' \in Seq(Messages) /\ Len(queue') = Len(queue) - 1
      /\ \A k \in 1..(Len(queue) - 1) : queue'[k] = queue[IF k <= o - 1 THEN k ELSE k + 1]
  BY <1>1, <1>2, RemoveAtProperties
<1>4. Len(queue) \in Nat /\ DOMAIN queue = 1..Len(queue) /\ DOMAIN queue' = 1..(Len(queue) - 1)
  BY <1>1, <1>2, <1>3
<1>5. ASSUME NEW x, InQueue(x)' PROVE InQueue(x)
  <2>1. PICK k \in 1..(Len(queue) - 1) : x = queue'[k]
    BY <1>4, <1>5 DEF InQueue
  <2>2. (IF k <= o - 1 THEN k ELSE k + 1) \in DOMAIN queue
    BY <1>2, <1>4
  <2>3. QED
    BY <1>3, <2>1, <2>2 DEF InQueue
<1>6. ASSUME NEW x, InQueue(x), x # queue[o] PROVE InQueue(x)'
  <2>1. PICK k \in 1..Len(queue) : x = queue[k]
    BY <1>4, <1>6 DEF InQueue
  <2>2. CASE k < o
    <3>1. k \in 1..(Len(queue) - 1) /\ k <= o - 1
      BY <1>2, <1>4, <2>2
    <3>2. queue'[k] = queue[k]
      BY <1>3, <3>1
    <3>3. QED
      BY <1>4, <2>1, <3>1, <3>2 DEF InQueue
  <2>3. CASE k > o
    <3>1. k - 1 \in 1..(Len(queue) - 1) /\ ~(k - 1 <= o - 1) /\ (k - 1) + 1 = k
      BY <1>2, <1>4, <2>3
    <3>2. queue'[k - 1] = queue[k]
      BY <1>3, <3>1
    <3>3. QED
      BY <1>4, <2>1, <3>1, <3>2 DEF InQueue
  <2>4. QED
    BY <1>2, <1>4, <1>6, <2>1, <2>2, <2>3
<1>7. InQueue(queue[o])
  BY <1>2, <1>4 DEF InQueue
<1>8. QED
  BY <1>5, <1>6, <1>7 DEF Receive, o

\* Where there is no queue, removing it changes nothing; where there is one,
\* it is lost.
LEMMA RemoveFrame ==
  ASSUME Inv, Queues, NEW p, RemoveQueue(p)
  PROVE  /\ exists' \in {0, created'} /\ (exists' = 0 => queue' = <<>>)
         /\ UNCHANGED <<exists, created, queue>> \/ (QueueLost' /\ queue' = <<>>)
<1>1. created \in Nat
  BY MessageQueueAssumption DEF Inv, TypeOK
<1>2. QED
  BY <1>1 DEF RemoveQueue, kernel, Queues, QueueLost

Elem(x, s) == \E k \in DOMAIN s : x = s[k]

LEMMA AppendFrame ==
  ASSUME NEW S, NEW s \in Seq(S), NEW m \in S
  PROVE  \A x : Elem(x, Append(s, m)) <=> Elem(x, s) \/ x = m
<1> SUFFICES ASSUME NEW x PROVE Elem(x, Append(s, m)) <=> Elem(x, s) \/ x = m
  OBVIOUS
<1> USE DEF Elem
<1>1. Len(s) \in Nat /\ DOMAIN s = 1..Len(s)
  OBVIOUS
<1>2. /\ DOMAIN Append(s, m) = 1..(Len(s) + 1)
      /\ \A k \in 1..(Len(s) + 1) : Append(s, m)[k] = IF k <= Len(s) THEN s[k] ELSE m
  BY <1>1
<1>3. Len(s) + 1 \in 1..(Len(s) + 1) /\ 1..Len(s) \subseteq 1..(Len(s) + 1)
  BY <1>1
<1>4. \A k \in 1..(Len(s) + 1) : k \in 1..Len(s) \/ k = Len(s) + 1
  BY <1>1
<1>5. Append(s, m)[Len(s) + 1] = m /\ \A k \in 1..Len(s) : Append(s, m)[k] = s[k]
  BY <1>1, <1>2
<1>6. QED
  BY <1>1, <1>2, <1>3, <1>4, <1>5

-----------------------------------------------------------------------------
(* What a receive thread's buffer keeps was pushed before.                 *)

Buffered == \A c \in Clients :
  recv[c] # "push" /\ inHand[c].text > 0 => Pushes(c, inHand[c]) \/ Prints(c, inHand[c])

LEMMA BufferedFrame ==
  ASSUME Buffered,
         \A b \in Clients : \A x : Pushes(b, x) \/ Prints(b, x) => Pushes(b, x)' \/ Prints(b, x)',
         \A b \in Clients : recv'[b] # "push" /\ inHand'[b].text > 0 =>
           (recv[b] # "push" /\ inHand'[b] = inHand[b]) \/ Pushes(b, inHand[b])'
  PROVE  Buffered'
<1> SUFFICES ASSUME NEW b \in Clients, recv'[b] # "push", inHand'[b].text > 0
             PROVE  Pushes(b, inHand[b])' \/ Prints(b, inHand[b])'
  BY DEF Buffered
<1>1. CASE recv[b] # "push" /\ inHand'[b] = inHand[b]
  <2>1. PICK x : x = inHand[b] /\ x = inHand'[b]
    BY <1>1
  <2>2. Pushes(b, x) \/ Prints(b, x)
    BY <1>1, <2>1 DEF Buffered
  <2>3. Pushes(b, x)' \/ Prints(b, x)'
    BY <2>2
  <2>4. QED
    BY <2>1, <2>3 DEF Pushes, Prints
<1>2. QED
  BY <1>1

LEMMA SameLocal ==
  ASSUME UNCHANGED <<message, printed>>
  PROVE  \A b \in Clients : \A x : Pushes(b, x) \/ Prints(b, x) => Pushes(b, x)' \/ Prints(b, x)'
BY DEF Pushes, Prints

\* PrintMsg takes the first message from the local queue.
LEMMA PrintFrame ==
  ASSUME Inv, NEW c \in Clients, PrintMsg(c)
  PROVE  /\ \E h : /\ \A x : Pushes(c, x) <=> Pushes(c, x)' \/ x = h
                  /\ \A x : Prints(c, x)' <=> Prints(c, x) \/ x = h
         /\ \A x : \A b \in Clients : b # c =>
              (Pushes(b, x)' <=> Pushes(b, x)) /\ (Prints(b, x)' <=> Prints(b, x))
<1> DEFINE s == message[c]
           r == printed[c]
           h == Head(s)
<1>1. /\ s \in Seq(Messages) /\ s # <<>> /\ r \in Seq(Messages)
      /\ message' = [message EXCEPT ![c] = Tail(s)]
      /\ printed' = [printed EXCEPT ![c] = Append(r, h)]
      /\ message \in [Clients -> Seq(Messages)] /\ printed \in [Clients -> Seq(Messages)]
      /\ UNCHANGED <<queue, recv, inHand, server, msg>>
  BY DEF PrintMsg, Inv, TypeOK, kernel, serving
<1>2. /\ message'[c] = Tail(s) /\ printed'[c] = Append(r, h)
      /\ \A b \in Clients : b # c => message'[b] = message[b] /\ printed'[b] = printed[b]
  BY <1>1
<1>3. /\ h \in Messages /\ \A x : (\E k \in DOMAIN s : x = s[k]) <=>
                             (\E k \in DOMAIN Tail(s) : x = Tail(s)[k]) \/ x = h
  <2>1. Len(s) \in Nat \ {0} /\ DOMAIN s = 1..Len(s) /\ h = s[1]
    BY <1>1
  <2>2. DOMAIN Tail(s) = 1..(Len(s) - 1) /\ \A k \in 1..(Len(s) - 1) : Tail(s)[k] = s[k + 1]
    BY <1>1
  <2>3. h \in Messages
    BY <1>1
  <2> HIDE DEF s, h
  <2>4. ASSUME NEW x, NEW k \in DOMAIN s, x = s[k], x # h
        PROVE  \E j \in DOMAIN Tail(s) : x = Tail(s)[j]
    <3>1. k - 1 \in 1..(Len(s) - 1) /\ (k - 1) + 1 = k
      BY <2>1, <2>4
    <3>2. Tail(s)[k - 1] = x
      BY <2>2, <2>4, <3>1
    <3>3. QED
      BY <2>2, <3>1, <3>2
  <2>5. ASSUME NEW x, NEW k \in DOMAIN Tail(s), x = Tail(s)[k]
        PROVE  \E j \in DOMAIN s : x = s[j]
    <3>1. k + 1 \in DOMAIN s
      BY <2>1, <2>2
    <3>2. QED
      BY <2>2, <2>5, <3>1
  <2>6. QED
    BY <2>1, <2>3, <2>4, <2>5
<1>4. \A x : Elem(x, Append(r, h)) <=> Elem(x, r) \/ x = h
  <2>1. r \in Seq(Messages) /\ h \in Messages
    BY <1>1, <1>3
  <2> HIDE DEF s, r, h
  <2>2. QED
    BY <2>1, AppendFrame
<1> HIDE DEF h
<1>5. \A x : Pushes(c, x) <=> Pushes(c, x)' \/ x = h
  <2>1. \A x : Pushes(c, x)' <=> \E k \in DOMAIN Tail(s) : x = Tail(s)[k]
    BY <1>2 DEF Pushes
  <2>2. \A x : Pushes(c, x) <=> \E k \in DOMAIN s : x = s[k]
    BY DEF Pushes
  <2> HIDE DEF s
  <2>3. QED
    BY <1>3, <2>1, <2>2
<1>6. \A x : Prints(c, x)' <=> Prints(c, x) \/ x = h
  BY <1>2, <1>4 DEF Prints, Elem
<1>7. \A x : \A b \in Clients : b # c =>
        (Pushes(b, x)' <=> Pushes(b, x)) /\ (Prints(b, x)' <=> Prints(b, x))
  BY <1>2 DEF Pushes, Prints
<1>8. QED
  BY <1>5, <1>6, <1>7

\* Push puts the message in the local queue and leaves it in the buffer.
LEMMA PushFrame ==
  ASSUME Inv, NEW c \in Clients, Push(c)
  PROVE  /\ \A x : Pushes(c, x)' <=> Pushes(c, x) \/ x = inHand[c]
         /\ \A x : \A b \in Clients : b # c => (Pushes(b, x)' <=> Pushes(b, x))
         /\ recv[c] = "push" /\ recv'[c] = "test"
         /\ \A b \in Clients : b # c => recv'[b] = recv[b]
         /\ UNCHANGED <<queue, inHand, printed, server, msg>>
<1> DEFINE s == message[c]
           h == inHand[c]
<1>1. /\ s \in Seq(Messages) /\ h \in Messages
      /\ message' = [message EXCEPT ![c] = Append(s, h)]
      /\ message \in [Clients -> Seq(Messages)]
      /\ recv \in [Clients -> {"none", "test", "receive", "push", "exit"}]
      /\ recv' = [recv EXCEPT ![c] = "test"] /\ recv[c] = "push"
      /\ UNCHANGED <<queue, inHand, printed, server, msg>>
  BY DEF Push, Inv, TypeOK, kernel, serving
<1>2. /\ message'[c] = Append(s, h) /\ recv'[c] = "test"
      /\ \A b \in Clients : b # c => message'[b] = message[b] /\ recv'[b] = recv[b]
  BY <1>1
<1>3. \A x : Elem(x, Append(s, h)) <=> Elem(x, s) \/ x = h
  <2>1. s \in Seq(Messages) /\ h \in Messages
    BY <1>1
  <2> HIDE DEF s, h
  <2>2. QED
    BY <2>1, AppendFrame
<1> HIDE DEF h
<1>4. \A x : Pushes(c, x)' <=> Pushes(c, x) \/ x = h
  BY <1>2, <1>3 DEF Pushes, Elem
<1>5. \A x : \A b \in Clients : b # c => (Pushes(b, x)' <=> Pushes(b, x))
  BY <1>2 DEF Pushes
<1>6. QED
  BY <1>1, <1>2, <1>4, <1>5 DEF h

LEMMA HandleBuffered ==
  ASSUME Inv, Buffered, NEW c \in Clients, NEW m \in Messages, recv[c] # "none", Handle(c, m),
         UNCHANGED <<message, printed>>
  PROVE  Buffered'
<1>1. /\ \A b \in Clients : b # c => inHand'[b] = inHand[b] /\ recv'[b] = recv[b]
      /\ inHand'[c] = m /\ (m.text # Quit => recv'[c] = "push")
  BY DEF Handle, Inv, TypeOK
<1>2. \A b \in Clients : recv'[b] # "push" /\ inHand'[b].text > 0 =>
        recv[b] # "push" /\ inHand'[b] = inHand[b]
  BY <1>1 DEF Quit
<1>3. QED
  BY <1>2, SameLocal, BufferedFrame

LEMMA BufferedInvariant == Spec => []Buffered
<1>1. Init => Buffered
  BY DEF Init, Buffered, Blank, Garbage
<1>2. Inv /\ Buffered /\ [Next]_vars => Buffered'
  <2> SUFFICES ASSUME Inv, Buffered, [Next]_vars PROVE Buffered'
    OBVIOUS
  <2>1. CASE UNCHANGED <<recv, inHand, message, printed>>
    BY <2>1, SameLocal, BufferedFrame
  <2>2. ASSUME NEW c \in Clients, Start(c) \/ RecvTest(c) PROVE Buffered'
    <3>1. \A b \in Clients : recv'[b] # "push" => recv[b] # "push"
      BY <2>2 DEF Start, RecvTest, Inv, TypeOK, Lives
    <3>2. UNCHANGED <<inHand, message, printed>>
      BY <2>2 DEF Start, RecvTest
    <3>3. QED
      BY <3>1, <3>2, SameLocal, BufferedFrame
  <2>3. ASSUME NEW c \in Clients, PrintMsg(c) PROVE Buffered'
    <3>1. UNCHANGED <<recv, inHand>>
      BY <2>3 DEF PrintMsg
    <3>2. \A b \in Clients : \A x : Pushes(b, x) \/ Prints(b, x) => Pushes(b, x)' \/ Prints(b, x)'
      BY <2>3, PrintFrame
    <3>3. QED
      BY <3>1, <3>2, BufferedFrame
  <2>4. ASSUME NEW c \in Clients, Push(c) PROVE Buffered'
    <3>1. \A b \in Clients : \A x : Pushes(b, x) \/ Prints(b, x) => Pushes(b, x)' \/ Prints(b, x)'
      <4>1. \A b \in Clients : \A x : Prints(b, x) => Prints(b, x)'
        BY <2>4, PushFrame DEF Prints
      <4>2. \A b \in Clients : \A x : Pushes(b, x) => Pushes(b, x)'
        BY <2>4, PushFrame
      <4>3. QED
        BY <4>1, <4>2
    <3>2. PICK h : h = inHand[c] /\ h = inHand'[c]
      BY <2>4, PushFrame
    <3>3. Pushes(c, h)'
      BY <2>4, <3>2, PushFrame
    <3>4. Pushes(c, inHand[c])'
      BY <3>2, <3>3 DEF Pushes
    <3>5. \A b \in Clients : recv'[b] # "push" =>
            (recv[b] # "push" /\ inHand'[b] = inHand[b]) \/ Pushes(b, inHand[b])'
      BY <2>4, <3>4, PushFrame
    <3>6. QED
      BY <3>1, <3>5, BufferedFrame
  <2>5. ASSUME NEW c \in Clients, RecvMsg(c) PROVE Buffered'
    <3>1. PICK m : m = queue[Oldest(c)]
      OBVIOUS
    <3>2. m \in Messages
      BY <2>5, <3>1, ReceiveKeeps DEF RecvMsg, Inv, Clients
    <3>3. QED
      BY <2>5, <3>1, <3>2, HandleBuffered DEF RecvMsg
  <2>6. ASSUME NEW c \in Clients, RecvFails(c) \/ SigintRecv(c) PROVE Buffered'
    <3>1. /\ recv[c] = "receive" /\ UNCHANGED <<message, printed>>
          /\ \/ \E m \in Uninitialized(c) : Handle(c, m)
             \/ recv' = [recv EXCEPT ![c] = "test"] /\ UNCHANGED inHand
      BY <2>6, FailsHandles DEF SigintRecv
    <3>2. CASE \E m \in Uninitialized(c) : Handle(c, m)
      BY <3>1, <3>2, BufferTypes, HandleBuffered DEF Inv
    <3>3. CASE recv' = [recv EXCEPT ![c] = "test"] /\ UNCHANGED inHand
      <4>1. \A b \in Clients : recv'[b] # "push" => recv[b] # "push"
        BY <3>1, <3>3 DEF Inv, TypeOK
      <4>2. QED
        BY <3>1, <3>3, <4>1, SameLocal, BufferedFrame
    <3>4. QED
      BY <3>1, <3>2, <3>3
  <2>7. ASSUME NEW c \in Clients, MainStep(c) \/ KillClient(c) \/ SigintMain(c) PROVE Buffered'
    <3>1. CASE Start(c) \/ PrintMsg(c)
      BY <2>2, <2>3, <3>1
    <3>2. CASE ~(Start(c) \/ PrintMsg(c))
      BY <2>1, <2>7, <3>2 DEF MainStep, InstallHandler, MainLoop, Choose, SendMsg, Join, Leave,
                              KillClient, SigintMain
    <3>3. QED
      BY <3>1, <3>2
  <2>8. CASE ServerStep \/ KillServer \/ SigintServer
    BY <2>1, <2>8 DEF ServerStep, StartServer, ServerReceive, Forward, BeginQuit, SendQuit,
                      StopServer, KillServer, SigintServer, clients
  <2>9. CASE UNCHANGED vars
    BY <2>1, <2>9 DEF vars, clients
  <2>10. QED
    BY <2>2, <2>4, <2>5, <2>6, <2>7, <2>8, <2>9, InterruptibleAreProcesses
       DEF Next, RecvStep, Sigint
<1>3. QED
  BY <1>1, <1>2, MqInvariant, PTL DEF Spec

-----------------------------------------------------------------------------
(* A step hands messages on, or loses some once the channel may, or sends. *)

Transfer ==
  /\ Holding' \subseteq Holding \cup Numbered(Printed)
  /\ Holding \subseteq Holding' \cup Numbered(Printed')
  /\ Numbered(Printed) \subseteq Numbered(Printed')
  /\ Numbered(Printed') \subseteq Numbered(Printed) \cup Holding

Loss == Holding' \subseteq Holding /\ UNCHANGED printed /\ Lossy'

Sending == \E c \in Clients, d \in Clients :
  /\ Holding' = Holding \cup {<<  <<c, d>>, sent[c] + 1  >>}
  /\ UNCHANGED printed

\* What Numbered has of a message is its way and its number.
LEMMA TransferOf ==
  ASSUME \A m \in Held' : m.text > 0 =>
           \E n \in Held \cup Printed : n.text > 0 /\ Way2Number(n) = Way2Number(m),
         \A m \in Held : m.text > 0 =>
           \E n \in Held' \cup Printed' : n.text > 0 /\ Way2Number(n) = Way2Number(m),
         Printed \subseteq Printed', Printed' \subseteq Printed \cup Held
  PROVE  Transfer
<1>1. Holding' = Numbered(Held')
  BY DEF Holding, Numbered
<1>2. Holding' \subseteq Numbered(Held \cup Printed)
  BY <1>1, NumberedSubset
<1>3. Holding \subseteq Numbered(Held' \cup Printed')
  BY NumberedSubset DEF Holding
<1>4. /\ Numbered(Printed) \subseteq Numbered(Printed')
      /\ Numbered(Printed') \subseteq Numbered(Printed \cup Held)
  BY NumberedSubset
<1>5. QED
  BY <1>1, <1>2, <1>3, <1>4, NumberedUnion DEF Transfer, Holding

\* A step that leaves every place as it was.
LEMMA QuietTransfer ==
  ASSUME UNCHANGED <<queue, message, printed, inHand>>,
         \A b \in Clients : recv'[b] = "push" <=> recv[b] = "push",
         server' = "forward" <=> server = "forward", server = "forward" => msg' = msg
  PROVE  Transfer
<1>1. \A m : m \in Held' <=> m \in Held
  <2>1. \A m : InQueue(m)' <=> InQueue(m)
    BY DEF InQueue
  <2>2. \A m : \A b \in Clients : (Pushes(b, m)' <=> Pushes(b, m)) /\ (InHand(b, m)' <=> InHand(b, m))
    BY DEF Pushes, InHand
  <2>3. \A m : InServer(m)' <=> InServer(m)
    BY DEF InServer
  <2>4. QED
    BY <2>1, <2>2, <2>3, HeldNow, HeldNext
<1>2. Printed' = Printed
  BY DEF Printed
<1>3. QED
  BY <1>1, <1>2, TransferOf

\* A step that empties some places, once the channel may lose messages.
LEMMA LossOf ==
  ASSUME UNCHANGED <<message, printed, inHand>>, queue' = queue \/ queue' = <<>>,
         \A b \in Clients : recv'[b] = "push" => recv[b] = "push",
         server' = "forward" => server = "forward" /\ msg' = msg, Lossy'
  PROVE  Loss
<1>1. \A m : m \in Held' => m \in Held
  <2>1. \A m : InQueue(m)' => InQueue(m)
    BY DEF InQueue
  <2>2. \A m : \A b \in Clients : (Pushes(b, m)' => Pushes(b, m)) /\ (InHand(b, m)' => InHand(b, m))
    BY DEF Pushes, InHand
  <2>3. \A m : InServer(m)' => InServer(m)
    BY DEF InServer
  <2>4. QED
    BY <2>1, <2>2, <2>3, HeldNow, HeldNext
<1>2. Holding' = Numbered(Held')
  BY DEF Holding, Numbered
<1>3. QED
  BY <1>1, <1>2, NumberedSubset DEF Holding, Loss

LEMMA PrintTransfer == ASSUME Inv, NEW c \in Clients, PrintMsg(c) PROVE Transfer
<1>1. UNCHANGED <<queue, recv, inHand, server, msg>>
  BY DEF PrintMsg, kernel, serving
<1>2. PICK h : /\ \A x : Pushes(c, x) <=> Pushes(c, x)' \/ x = h
               /\ \A x : Prints(c, x)' <=> Prints(c, x) \/ x = h
  BY PrintFrame
<1>3. \A x : \A b \in Clients : b # c =>
        (Pushes(b, x)' <=> Pushes(b, x)) /\ (Prints(b, x)' <=> Prints(b, x))
  BY PrintFrame
<1>4. \A x : /\ InQueue(x)' <=> InQueue(x)
             /\ \A b \in Clients : InHand(b, x)' <=> InHand(b, x)
             /\ InServer(x)' <=> InServer(x)
  BY <1>1 DEF InQueue, InHand, InServer
<1>5. \A x : (x \in Held' => x \in Held) /\ (x \in Held => x \in Held' \/ x = h)
  BY <1>2, <1>3, <1>4, HeldNow, HeldNext
<1>6. h \in Held
  BY <1>2, HeldNow
<1>7. \A x : x \in Printed' <=> x \in Printed \/ x = h
  BY <1>2, <1>3, PrintedNow, PrintedNext
<1>8. QED
  BY <1>5, <1>6, <1>7, TransferOf

\* Push takes the message from the receive thread.
LEMMA PushTransfer == ASSUME Inv, NEW c \in Clients, Push(c) PROVE Transfer
<1>1. PICK h : h = inHand[c]
  OBVIOUS
<1>2. \A x : Pushes(c, x)' <=> Pushes(c, x) \/ x = h
  BY <1>1, PushFrame
<1>3. \A x : (InHand(c, x) <=> x = h) /\ ~InHand(c, x)'
  BY <1>1, PushFrame DEF InHand
<1>4. \A x : \A b \in Clients : b # c =>
        (Pushes(b, x)' <=> Pushes(b, x)) /\ (InHand(b, x)' <=> InHand(b, x))
  BY PushFrame DEF InHand
<1>5. \A x : (InQueue(x)' <=> InQueue(x)) /\ (InServer(x)' <=> InServer(x))
  BY PushFrame DEF InQueue, InServer
<1>6. \A x : x \in Held' <=> x \in Held
  BY <1>2, <1>3, <1>4, <1>5, HeldNow, HeldNext
<1>7. Printed' = Printed
  BY PushFrame DEF Printed
<1>8. QED
  BY <1>6, <1>7, TransferOf

\* What the receive thread does with its buffer: h is what msgrcv took from the
\* queue, or has no number and was not there, or was in the buffer before.
LEMMA HandleTransfer ==
  ASSUME Inv, Buffered, NEW c \in Clients, NEW h \in Messages, recv[c] = "receive", Handle(c, h),
         UNCHANGED <<message, printed, server, msg>>,
         \/ \A x : InQueue(x) <=> InQueue(x)' \/ x = h
         \/ (h = inHand[c] \/ ~(h.text > 0)) /\ UNCHANGED queue
  PROVE  Transfer
<1>1. /\ \A b \in Clients : b # c => inHand'[b] = inHand[b] /\ recv'[b] = recv[b]
      /\ h.text = Quit => recv'[c] = "test"
      /\ h.text # Quit => recv'[c] = "push" /\ inHand'[c] = h
  BY DEF Handle, Inv, TypeOK
<1>2. h.text > 0 => h.text # Quit
  BY DEF Quit
<1>3. \A x : x.text > 0 => /\ ~InHand(c, x)
                           /\ InHand(c, x)' <=> x = h
  BY <1>1, <1>2 DEF InHand
<1>4. \A x : \A b \in Clients : b # c => (InHand(b, x)' <=> InHand(b, x))
  BY <1>1 DEF InHand
<1>5. \A x : /\ \A b \in Clients : Pushes(b, x)' <=> Pushes(b, x)
             /\ InServer(x)' <=> InServer(x)
  BY DEF Pushes, InServer
<1>6. \A x : x.text > 0 => (x \in Held => x \in Held') /\ (x \in Held' => x \in Held \cup Printed)
  <2>1. CASE \A x : InQueue(x) <=> InQueue(x)' \/ x = h
    BY <2>1, <1>3, <1>4, <1>5, HeldNow, HeldNext
  <2>2. CASE (h = inHand[c] \/ ~(h.text > 0)) /\ UNCHANGED queue
    <3>1. \A x : InQueue(x)' <=> InQueue(x)
      BY <2>2 DEF InQueue
    <3>2. h.text > 0 => Pushes(c, h) \/ Prints(c, h)
      BY <2>2 DEF Buffered
    <3>3. h.text > 0 => h \in Held \cup Printed
      BY <3>2, HeldNow, PrintedNow
    <3>4. \A x : x.text > 0 => (x \in Held' <=> x \in Held \/ x = h)
      BY <3>1, <1>3, <1>4, <1>5, HeldNow, HeldNext
    <3>5. QED
      BY <3>3, <3>4
  <2>3. QED
    BY <2>1, <2>2
<1>7. Printed' = Printed
  BY DEF Printed
<1>8. QED
  BY <1>6, <1>7, TransferOf

\* ServerReceive takes a message from the queue into its hand.
LEMMA ServerTakeTransfer == ASSUME Inv, ServerReceive PROVE Transfer
<1> DEFINE h == queue[Oldest(ToServer)]
<1>1. /\ Receive(Server, ToServer) /\ server = "loop" /\ server' = "forward" /\ msg' = h
      /\ UNCHANGED <<message, printed, recv, inHand>>
  BY DEF ServerReceive, clients
<1>2. \A x : InQueue(x) <=> InQueue(x)' \/ x = h
  BY <1>1, ReceiveFrame
<1> HIDE DEF h
<1>3. \A x : ~InServer(x) /\ (InServer(x)' <=> x = h)
  BY <1>1 DEF InServer
<1>4. \A x : \A b \in Clients : (Pushes(b, x)' <=> Pushes(b, x)) /\ (InHand(b, x)' <=> InHand(b, x))
  BY <1>1 DEF Pushes, InHand
<1>5. \A x : x \in Held' <=> x \in Held
  BY <1>2, <1>3, <1>4, HeldNow, HeldNext
<1>6. Printed' = Printed
  BY <1>1 DEF Printed
<1>7. QED
  BY <1>5, <1>6, TransferOf

\* Forward sends it with another type, which is not part of its number.
LEMMA ForwardTransfer ==
  ASSUME Inv, server = "forward", server' = "loop", UNCHANGED <<message, printed, recv, inHand>>,
         Send(Server, [msg EXCEPT !.mtype = msg.dest])
  PROVE  Transfer
<1> DEFINE f == [msg EXCEPT !.mtype = msg.dest]
<1>1. msg \in Messages /\ f.text = msg.text /\ Way2Number(f) = Way2Number(msg)
  <2>1. msg \in Messages
    BY DEF Inv, TypeOK
  <2>2. f.source = msg.source /\ f.dest = msg.dest /\ f.text = msg.text
    BY <2>1 DEF Messages
  <2>3. QED
    BY <2>1, <2>2 DEF Way2Number
<1>2. \A x : InQueue(x)' <=> InQueue(x) \/ x = f
  BY SendFrame
<1> HIDE DEF f
<1>3. \A x : (InServer(x) <=> x = msg) /\ ~InServer(x)'
  BY DEF InServer
<1>4. \A x : \A b \in Clients : (Pushes(b, x)' <=> Pushes(b, x)) /\ (InHand(b, x)' <=> InHand(b, x))
  BY DEF Pushes, InHand
<1>5. \A x : x \in Held' => x \in Held \/ x = f
  BY <1>2, <1>3, <1>4, HeldNow, HeldNext
<1>6. \A x : x \in Held => x \in Held' \/ x = msg
  BY <1>2, <1>3, <1>4, HeldNow, HeldNext
<1>7. f \in Held' /\ msg \in Held
  BY <1>2, <1>3, HeldNow, HeldNext
<1>8. Printed' = Printed
  BY DEF Printed
<1>9. QED
  BY <1>1, <1>5, <1>6, <1>7, <1>8, TransferOf

\* The server's Quit has no number.
LEMMA QuitTransfer ==
  ASSUME Inv, server = "quit", server' # "forward", UNCHANGED <<message, printed, recv, inHand>>,
         NEW q, q.text = Quit, Send(Server, q)
  PROVE  Transfer
<1>1. \A x : InQueue(x)' <=> InQueue(x) \/ x = q
  BY SendFrame
<1>2. \A x : ~InServer(x) /\ ~InServer(x)'
  BY DEF InServer
<1>3. \A x : \A b \in Clients : (Pushes(b, x)' <=> Pushes(b, x)) /\ (InHand(b, x)' <=> InHand(b, x))
  BY DEF Pushes, InHand
<1>4. \A x : x.text > 0 => x # q
  BY DEF Quit
<1>5. \A x : x.text > 0 => (x \in Held' <=> x \in Held)
  BY <1>1, <1>2, <1>3, <1>4, HeldNow, HeldNext
<1>6. Printed' = Printed
  BY DEF Printed
<1>7. QED
  BY <1>5, <1>6, TransferOf

\* SendMsg adds one message, whose number is the next one of its client.
LEMMA SendMsgSending ==
  ASSUME Inv, NEW c \in Clients, main[c] = "send", UNCHANGED <<message, printed, recv, inHand, server, msg>>,
         Send(c, [mtype |-> ToServer, source |-> c, dest |-> nextDest[c], text |-> sent[c] + 1])
  PROVE  Sending
<1> DEFINE w == [mtype |-> ToServer, source |-> c, dest |-> nextDest[c], text |-> sent[c] + 1]
<1>1. nextDest[c] \in Clients /\ sent[c] \in Nat
  BY MessageQueueAssumption DEF Inv, Lives, TypeOK
<1>2. w.text > 0 /\ Way2Number(w) = <<  <<c, nextDest[c]>>, sent[c] + 1  >>
  BY <1>1 DEF Way2Number
<1>3. \A x : InQueue(x)' <=> InQueue(x) \/ x = w
  BY SendFrame
<1> HIDE DEF w
<1>4. \A x : InServer(x)' <=> InServer(x)
  BY DEF InServer
<1>5. \A x : \A b \in Clients : (Pushes(b, x)' <=> Pushes(b, x)) /\ (InHand(b, x)' <=> InHand(b, x))
  BY DEF Pushes, InHand
<1>6. Held' = Held \cup {w}
  BY <1>3, <1>4, <1>5, HeldNow, HeldNext
<1>7. Holding' = Numbered(Held) \cup Numbered({w})
  BY <1>6, NumberedUnion DEF Holding, Numbered
<1>8. Numbered({w}) = {Way2Number(w)}
  BY <1>2, NumberedIs
<1>9. QED
  BY <1>1, <1>2, <1>7, <1>8 DEF Sending, Holding

-----------------------------------------------------------------------------
(* Every step is one of the three.                                         *)

Same == Lossy' <=> Lossy

Kind == Queues' /\ ((Transfer /\ Same) \/ (Sending /\ Same) \/ Loss)

\* Steps that let the kernel's queue be.
LEMMA SameQueue ==
  ASSUME Queues, UNCHANGED <<exists, created, msgid>>, is_running'[Server] = is_running[Server],
         exists = 0 => queue' = <<>>,
         server' \in {"loop", "forward", "quit", "remove"} =>
           server \in {"loop", "forward", "quit", "remove"},
         \A c \in Clients : main'[c] \in {"loop", "drain", "send", "join", "remove"} =>
           main[c] \in {"loop", "drain", "send", "join", "remove"}
  PROVE  Queues' /\ Same
<1>1. Queues'
  BY DEF Queues
<1>2. QueueLost' <=> QueueLost
  BY DEF QueueLost
<1>3. Same
  BY <1>2, Zenon DEF Same, Lossy
<1>4. QED
  BY <1>1, <1>3

LEMMA OtherRuns ==
  ASSUME Inv, NEW c \in Clients, NEW v, is_running' = [is_running EXCEPT ![c] = v]
  PROVE  is_running'[Server] = is_running[Server]
<1>1. c \in 1..4 /\ Server \in 1..4 /\ c # Server
  BY DEF Clients, Server
<1>2. QED
  BY <1>1, Zenon DEF Inv, TypeOK

LEMMA MainKind ==
  ASSUME Inv, Queues, NEW c \in Clients, MainStep(c) \/ KillClient(c) \/ SigintMain(c) PROVE Kind
<1> USE DEF GotoMain
<1>1. c \in 1..4 /\ Clients \subseteq 1..4 /\ c # Server /\ Server \in 1..4
  BY DEF Clients, Server
<1>2. main \in [Clients -> {"start", "handler", "loop", "drain", "send", "join", "remove", "done"}]
  BY DEF Inv, TypeOK
<1>3. CASE \/ InstallHandler(c) \/ MainLoop(c) \/ Choose(c) \/ Join(c) \/ KillClient(c) \/ SigintMain(c)
  <2>1. UNCHANGED <<exists, created, queue, msgid, recv, inHand, message, printed, server, msg>>
    BY <1>3 DEF InstallHandler, MainLoop, Choose, Join, KillClient, SigintMain, kernel, serving
  <2>2. is_running'[Server] = is_running[Server]
    BY <1>3, OtherRuns DEF InstallHandler, MainLoop, Choose, Join, KillClient, SigintMain
  <2>3. \A b \in Clients : main'[b] \in {"loop", "drain", "send", "join", "remove"} =>
                             main[b] \in {"loop", "drain", "send", "join", "remove"}
    BY <1>2, <1>3 DEF InstallHandler, MainLoop, Choose, Join, KillClient, SigintMain
  <2>4. Queues' /\ Same
    BY <2>1, <2>2, <2>3, SameQueue DEF Queues
  <2>5. QED
    BY <2>1, <2>4, QuietTransfer DEF Kind
<1>4. CASE Start(c)
  <2>1. Get(c) /\ UNCHANGED <<inHand, message, printed, server, msg>>
    BY <1>4 DEF Start, serving
  <2>2. /\ queue' = queue /\ (QueueLost' <=> QueueLost) /\ exists' \in {0, created'} /\ exists' # 0
        /\ msgid'[c] > 0 /\ \A q \in (1..4) \ {c} : msgid'[q] = msgid[q]
    BY <1>1, <2>1, GetFrame
  <2>3. \A b \in Clients : recv'[b] = "push" <=> recv[b] = "push"
    BY <1>4 DEF Start, Inv, Lives, TypeOK
  <2>4. \A b \in Clients : b # c => main'[b] = main[b]
    BY <1>2, <1>4 DEF Start
  <2>5. Queues'
    BY <1>1, <2>1, <2>2, <2>4 DEF Queues
  <2>6. is_running'[Server] = is_running[Server]
    BY <1>4, OtherRuns DEF Start
  <2>7. Same
    BY <2>2, <2>6, Zenon DEF Same, Lossy
  <2>8. Transfer
    BY <2>1, <2>2, <2>3, QuietTransfer
  <2>9. QED
    BY <2>5, <2>7, <2>8 DEF Kind
<1>5. CASE PrintMsg(c)
  <2>1. UNCHANGED <<exists, created, queue, msgid, is_running, main, server>>
    BY <1>5 DEF PrintMsg, kernel, serving
  <2>2. Queues' /\ Same
    BY <2>1, SameQueue DEF Queues
  <2>3. QED
    BY <1>5, <2>2, PrintTransfer DEF Kind
<1>6. CASE SendMsg(c)
  <2>1. /\ main[c] = "send" /\ main' = [main EXCEPT ![c] = "loop"]
        /\ UNCHANGED <<msgid, is_running, message, printed, recv, inHand, server, msg>>
    BY <1>6 DEF SendMsg, serving
  <2>2. \A b \in Clients : main'[b] \in {"loop", "drain", "send", "join", "remove"} =>
                             main[b] \in {"loop", "drain", "send", "join", "remove"}
    BY <1>2, <2>1
  <2>3. CASE UNCHANGED kernel
    <3>1. Queues' /\ Same
      BY <2>1, <2>2, <2>3, SameQueue DEF kernel, Queues
    <3>2. QED
      BY <2>1, <2>3, <3>1, QuietTransfer DEF Kind, kernel
  <2>4. CASE Send(c, [mtype |-> ToServer, source |-> c, dest |-> nextDest[c], text |-> sent[c] + 1])
    <3>1. UNCHANGED <<exists, created>> /\ exists = msgid[c]
      BY <2>4, SendFrame
    <3>2. exists # 0
      BY <2>1, <3>1 DEF Queues
    <3>3. Queues' /\ Same
      BY <2>1, <2>2, <3>1, <3>2, SameQueue
    <3>4. QED
      BY <2>1, <2>4, <3>3, SendMsgSending DEF Kind
  <2>5. QED
    BY <1>6, <2>3, <2>4 DEF SendMsg
<1>7. CASE Leave(c)
  <2>1. /\ RemoveQueue(c) /\ main' = [main EXCEPT ![c] = "done"]
        /\ UNCHANGED <<msgid, is_running, message, printed, recv, inHand, server, msg>>
    BY <1>7 DEF Leave, serving
  <2>2. \A b \in Clients : main'[b] \in {"loop", "drain", "send", "join", "remove"} =>
                             main[b] \in {"loop", "drain", "send", "join", "remove"}
    BY <1>2, <2>1
  <2>3. /\ exists' \in {0, created'} /\ (exists' = 0 => queue' = <<>>)
        /\ UNCHANGED <<exists, created, queue>> \/ (QueueLost' /\ queue' = <<>>)
    BY <2>1, RemoveFrame
  <2>4. CASE UNCHANGED <<exists, created, queue>>
    <3>1. Queues' /\ Same
      BY <2>1, <2>2, <2>3, <2>4, SameQueue
    <3>2. QED
      BY <2>1, <2>4, <3>1, QuietTransfer DEF Kind
  <2>5. CASE QueueLost' /\ queue' = <<>>
    <3>1. Queues'
      BY <2>1, <2>2, <2>3 DEF Queues
    <3>2. Lossy'
      BY <2>5 DEF Lossy
    <3>3. QED
      BY <2>1, <2>5, <3>1, <3>2, LossOf DEF Kind
  <2>6. QED
    BY <2>3, <2>4, <2>5
<1>8. QED
  BY <1>3, <1>4, <1>5, <1>6, <1>7 DEF MainStep

LEMMA RecvKind ==
  ASSUME Inv, Queues, Buffered, NEW c \in Clients, RecvStep(c) \/ SigintRecv(c) PROVE Kind
<1>1. recv \in [Clients -> {"none", "test", "receive", "push", "exit"}]
  BY DEF Inv, TypeOK
<1>2. UNCHANGED <<msgid, main, printed, server, msg>>
  BY DEF RecvStep, RecvTest, RecvMsg, RecvFails, Push, SigintRecv, serving
<1>3. is_running'[Server] = is_running[Server]
  BY OtherRuns DEF RecvStep, RecvTest, RecvMsg, RecvFails, Push, SigintRecv, QuitsOn
<1>4. CASE RecvTest(c)
  <2>1. /\ UNCHANGED <<exists, created, queue, message, inHand>>
        /\ \A b \in Clients : recv'[b] = "push" <=> recv[b] = "push"
    BY <1>1, <1>4 DEF RecvTest, kernel
  <2>2. Queues' /\ Same
    BY <1>2, <1>3, <2>1, SameQueue DEF Queues
  <2>3. QED
    BY <1>2, <2>1, <2>2, QuietTransfer DEF Kind
<1>5. CASE RecvMsg(c)
  <2> DEFINE h == queue[Oldest(c)]
  <2>1. Receive(c, c) /\ Handle(c, h) /\ recv[c] = "receive" /\ UNCHANGED message
    BY <1>5 DEF RecvMsg
  <2>2. h \in Messages
    BY <1>5, <2>1, ReceiveKeeps DEF Inv, Clients
  <2>3. /\ InQueue(h) /\ UNCHANGED <<exists, created>>
        /\ \A x : InQueue(x) <=> InQueue(x)' \/ x = h
    BY <2>1, ReceiveFrame
  <2> HIDE DEF h
  <2>4. exists # 0
    BY <2>3 DEF Queues, InQueue
  <2>5. Queues' /\ Same
    BY <1>2, <1>3, <2>3, <2>4, SameQueue
  <2>6. Transfer
    BY <1>2, <2>1, <2>2, <2>3, HandleTransfer
  <2>7. QED
    BY <2>5, <2>6 DEF Kind
<1>6. CASE RecvFails(c) \/ SigintRecv(c)
  <2>1. /\ UNCHANGED <<exists, created, queue, message>> /\ recv[c] = "receive"
        /\ \/ \E g \in Uninitialized(c) : Handle(c, g)
           \/ recv' = [recv EXCEPT ![c] = "test"] /\ UNCHANGED inHand
    BY <1>6, FailsHandles DEF SigintRecv, kernel
  <2>2. Queues' /\ Same
    BY <1>2, <1>3, <2>1, SameQueue DEF Queues
  <2>3. CASE \E g \in Uninitialized(c) : Handle(c, g)
    <3>1. PICK g \in Uninitialized(c) : Handle(c, g)
      BY <2>3
    <3>2. g \in Messages /\ (g = inHand[c] \/ g.text \in {Quit, Garbage})
      BY BufferTypes DEF Inv
    <3>3. g = inHand[c] \/ ~(g.text > 0)
      BY <3>2 DEF Quit, Garbage
    <3>4. Transfer
      BY <1>2, <2>1, <3>1, <3>2, <3>3, HandleTransfer
    <3>5. QED
      BY <2>2, <3>4 DEF Kind
  <2>4. CASE recv' = [recv EXCEPT ![c] = "test"] /\ UNCHANGED inHand
    <3>1. \A b \in Clients : recv'[b] = "push" <=> recv[b] = "push"
      BY <1>1, <2>1, <2>4
    <3>2. QED
      BY <1>2, <2>1, <2>2, <2>4, <3>1, QuietTransfer DEF Kind
  <2>5. QED
    BY <2>1, <2>3, <2>4
<1>7. CASE Push(c)
  <2>1. UNCHANGED <<exists, created, queue>>
    BY <1>7 DEF Push, kernel
  <2>2. Queues' /\ Same
    BY <1>2, <1>3, <2>1, SameQueue DEF Queues
  <2>3. QED
    BY <1>7, <2>2, PushTransfer DEF Kind
<1>8. QED
  BY <1>4, <1>5, <1>6, <1>7 DEF RecvStep

LEMMA ServerKind ==
  ASSUME Inv, Queues, ServerStep \/ KillServer \/ SigintServer PROVE Kind
<1>1. UNCHANGED <<main, recv, inHand, message, printed>>
  BY DEF ServerStep, StartServer, ServerReceive, Forward, BeginQuit, SendQuit, StopServer,
         KillServer, SigintServer, clients
<1>2. Server \in 1..4 /\ \A c \in Clients : c \in (1..4) \ {Server}
  BY DEF Server, Clients
<1>3. created \in Nat /\ exists \in {0, created}
  BY MessageQueueAssumption DEF Inv, TypeOK, Queues
<1>4. CASE StartServer \/ (KillServer /\ Get(Server))
  <2>1. /\ Get(Server) /\ server = "start" /\ server' # "forward" /\ UNCHANGED is_running
    BY <1>4 DEF StartServer, KillServer
  <2>2. /\ queue' = queue /\ (QueueLost' <=> QueueLost) /\ exists' \in {0, created'} /\ exists' # 0
        /\ msgid'[Server] > 0 /\ \A q \in (1..4) \ {Server} : msgid'[q] = msgid[q]
    BY <1>2, <2>1, GetFrame
  <2>3. Queues'
    BY <1>1, <1>2, <2>2 DEF Queues
  <2>4. Same
    BY <2>1, <2>2, Zenon DEF Same, Lossy
  <2>5. Transfer
    BY <1>1, <2>1, <2>2, QuietTransfer
  <2>6. QED
    BY <2>3, <2>4, <2>5 DEF Kind
<1>5. CASE (KillServer /\ UNCHANGED <<kernel, msgid>>) \/ BeginQuit
  <2>1. /\ UNCHANGED <<exists, created, queue, msgid, is_running>>
        /\ server # "forward" /\ server' # "forward"
        /\ server' \in {"loop", "forward", "quit", "remove"} =>
             server \in {"loop", "forward", "quit", "remove"}
    BY <1>5 DEF KillServer, BeginQuit, kernel
  <2>2. Queues' /\ Same
    BY <1>1, <2>1, SameQueue DEF Queues
  <2>3. QED
    BY <1>1, <2>1, <2>2, QuietTransfer DEF Kind
<1>6. CASE ServerReceive
  <2>1. /\ Receive(Server, ToServer) /\ server = "loop" /\ server' = "forward"
        /\ UNCHANGED <<msgid, is_running>>
    BY <1>6 DEF ServerReceive
  <2>2. InQueue(queue[Oldest(ToServer)]) /\ UNCHANGED <<exists, created>>
    BY <2>1, ReceiveFrame
  <2>3. exists # 0
    BY <2>2 DEF Queues, InQueue
  <2>4. Queues' /\ Same
    BY <1>1, <2>1, <2>2, <2>3, SameQueue
  <2>5. QED
    BY <1>6, <2>4, ServerTakeTransfer DEF Kind
<1>7. CASE Forward
  <2>1. server = "forward" /\ server' = "loop" /\ UNCHANGED <<msgid, is_running>>
    BY <1>7 DEF Forward
  <2>2. CASE Send(Server, [msg EXCEPT !.mtype = msg.dest])
    <3>1. UNCHANGED <<exists, created>> /\ exists = msgid[Server]
      BY <2>2, SendFrame
    <3>2. exists # 0
      BY <2>1, <3>1 DEF Queues
    <3>3. Queues' /\ Same
      BY <1>1, <2>1, <3>1, <3>2, SameQueue
    <3>4. QED
      BY <1>1, <2>1, <2>2, <3>3, ForwardTransfer DEF Kind
  <2>3. CASE Removed(Server) /\ UNCHANGED kernel
    <3>1. UNCHANGED <<exists, created, queue>> /\ msgid[Server] # exists
      BY <2>3 DEF kernel, Removed
    <3>2. msgid[Server] \in Nat /\ msgid[Server] > 0 /\ msgid[Server] <= created
      BY <1>2, <2>1 DEF Queues, Inv, Lives, TypeOK
    <3>3. QueueLost'
      BY <1>3, <3>1, <3>2 DEF QueueLost
    <3>4. Queues' /\ Same
      BY <1>1, <2>1, <3>1, SameQueue DEF Queues
    <3>5. Lossy'
      BY <3>3 DEF Lossy
    <3>6. QED
      BY <1>1, <2>1, <3>1, <3>4, <3>5, LossOf DEF Kind
  <2>4. QED
    BY <1>7, <2>2, <2>3 DEF Forward
<1>8. CASE SendQuit
  <2> DEFINE q == [msg EXCEPT !.mtype = quitTo, !.text = Quit]
  <2>1. /\ server = "quit" /\ server' \in {"quit", "remove"} /\ UNCHANGED <<msgid, is_running>>
        /\ Send(Server, q) \/ UNCHANGED kernel
    BY <1>8 DEF SendQuit, NextQuit
  <2>2. q.text = Quit
    BY DEF Inv, TypeOK, Messages
  <2> HIDE DEF q
  <2>3. CASE Send(Server, q)
    <3>1. UNCHANGED <<exists, created>> /\ exists = msgid[Server]
      BY <2>3, SendFrame
    <3>2. exists # 0
      BY <2>1, <3>1 DEF Queues
    <3>3. Queues' /\ Same
      BY <1>1, <2>1, <3>1, <3>2, SameQueue
    <3>4. QED
      BY <1>1, <2>1, <2>2, <2>3, <3>3, QuitTransfer DEF Kind
  <2>4. CASE UNCHANGED kernel
    <3>1. UNCHANGED <<exists, created, queue>>
      BY <2>4 DEF kernel
    <3>2. Queues' /\ Same
      BY <1>1, <2>1, <3>1, SameQueue DEF Queues
    <3>3. QED
      BY <1>1, <2>1, <3>1, <3>2, QuietTransfer DEF Kind
  <2>5. QED
    BY <2>1, <2>3, <2>4
<1>9. CASE StopServer
  <2>1. /\ RemoveQueue(Server) /\ server = "remove" /\ server' = "done"
        /\ UNCHANGED <<msgid, is_running>>
    BY <1>9 DEF StopServer
  <2>2. /\ exists' \in {0, created'} /\ (exists' = 0 => queue' = <<>>)
        /\ UNCHANGED <<exists, created, queue>> \/ (QueueLost' /\ queue' = <<>>)
    BY <2>1, RemoveFrame
  <2>3. CASE UNCHANGED <<exists, created, queue>>
    <3>1. Queues' /\ Same
      BY <1>1, <2>1, <2>2, <2>3, SameQueue
    <3>2. QED
      BY <1>1, <2>1, <2>3, <3>1, QuietTransfer DEF Kind
  <2>4. CASE QueueLost' /\ queue' = <<>>
    <3>1. Queues'
      BY <1>1, <2>1, <2>2 DEF Queues
    <3>2. Lossy'
      BY <2>4 DEF Lossy
    <3>3. QED
      BY <1>1, <2>1, <2>4, <3>1, <3>2, LossOf DEF Kind
  <2>5. QED
    BY <2>2, <2>3, <2>4
<1>10. CASE SigintServer
  <2>1. /\ UNCHANGED <<exists, created, queue, msgid>> /\ server \notin {"start", "done"}
        /\ server' = "forward" => server = "forward" /\ msg' = msg
        /\ server' \in {"loop", "forward", "quit", "remove"}
        /\ server \in {"loop", "forward", "quit", "remove"}
    BY <1>10 DEF SigintServer, NextQuit, kernel, Inv, TypeOK
  <2>2. ~is_running'[Server]
    BY <1>2, <1>10, Zenon DEF SigintServer, Inv, TypeOK
  <2>3. Lossy'
    BY <2>2, Zenon DEF Lossy
  <2>4. Queues'
    BY <1>1, <2>1 DEF Queues
  <2>5. QED
    BY <1>1, <2>1, <2>3, <2>4, LossOf DEF Kind
<1>11. QED
  BY <1>4, <1>5, <1>6, <1>7, <1>8, <1>9, <1>10 DEF ServerStep, KillServer

LEMMA NextKind == ASSUME Inv, Queues, Buffered, [Next]_vars PROVE Kind
<1>1. CASE UNCHANGED vars
  <2>1. UNCHANGED <<exists, created, queue, msgid, is_running, main, recv, inHand, message,
                    printed, server, msg>>
    BY <1>1 DEF vars, kernel, clients, serving
  <2>2. Queues' /\ Same
    BY <2>1, SameQueue DEF Queues
  <2>3. QED
    BY <2>1, <2>2, QuietTransfer DEF Kind
<1>2. CASE Next
  BY <1>2, MainKind, RecvKind, ServerKind, InterruptibleAreProcesses DEF Next, Sigint
<1>3. QED
  BY <1>1, <1>2

-----------------------------------------------------------------------------
\* A number belongs to a way, is not above the last of its client, and what was
\* printed has lower numbers than what is pending on the same way.
Ordered ==
  /\ \A x \in Holding \cup Numbered(Printed) : \E c, d \in Clients : \E n \in Nat :
       x = <<  <<c, d>>, n  >> /\ n <= sent[c]
  /\ \A x \in Numbered(Printed) : \A y \in Pending : x[1] = y[1] => x[2] < y[2]

LEMMA OrderedHolds == Inv /\ OrderInv => Ordered
<1> SUFFICES ASSUME Inv, OrderInv PROVE Ordered
  OBVIOUS
<1>1. ASSUME NEW x \in Holding \cup Numbered(Printed)
      PROVE  \E c, d \in Clients : \E n \in Nat : x = <<  <<c, d>>, n  >> /\ n <= sent[c]
  <2>1. PICK m \in Held \cup Printed : m.text > 0 /\ x = Way2Number(m)
    BY NumberedIs DEF Holding
  <2>2. m \in Messages /\ Written(m)
    BY <2>1, HeldInPlace, PrintedInPlace
  <2>3. m.source \in Clients /\ m.dest \in Clients /\ sent[m.source] \in Nat
    BY <2>2, MessageQueueAssumption DEF Messages, Inv, TypeOK
  <2>4. m.text \in Nat /\ m.text <= sent[m.source]
    BY <2>2, <2>3 DEF Written
  <2>5. QED
    BY <2>1, <2>3, <2>4 DEF Way2Number
<1>2. ASSUME NEW x \in Numbered(Printed), NEW y \in Pending, x[1] = y[1] PROVE x[2] < y[2]
  BY <1>2, PrintedFirst DEF Pending
<1>3. QED
  BY <1>1, <1>2 DEF Ordered

\* The three kinds of steps are those of the channel.
LEMMA ChannelStep ==
  ASSUME Inv, Ordered, Ordered', Kind
  PROVE  [Channel!Next]_<<Pending, Numbered(Printed),
                          IF Lossy THEN Clients \X Clients ELSE {}>>
<1> DEFINE H == Holding
           P == Pending
           D == Numbered(Printed)
           W == Clients \X Clients
           B == IF Lossy THEN W ELSE {}
<1>0. P = H \ D /\ P' = H' \ D'
  BY DEF Pending, Numbered
<1>1. /\ \A x \in H \cup D : \E c, d \in Clients : \E n \in Nat :
           x = <<  <<c, d>>, n  >> /\ n <= sent[c]
      /\ P' \subseteq W \X Nat
      /\ \A x \in D' : \A y \in P' : x[1] = y[1] => x[2] < y[2]
  <2>1. \A x \in H' \cup D' : \E c, d \in Clients : \E n \in Nat :
           x = <<  <<c, d>>, n  >> /\ n <= sent'[c]
    BY DEF Ordered, Numbered
  <2>2. P' \subseteq W \X Nat
    BY <1>0, <2>1
  <2>3. QED
    BY <2>2 DEF Ordered
<1>2. \A x \in H \cup D : x[1] \in W /\ x[2] \in Nat
  BY <1>1
<1>3. (UNCHANGED printed) => D' = D
  BY DEF Numbered, Printed
<1>4. Same => B' = B
  BY DEF Same
<1>5. B \subseteq W /\ B' \subseteq W
  OBVIOUS
<1>6. CASE Sending /\ Same
  <2>1. PICK c \in Clients, d \in Clients :
          H' = H \cup {<<  <<c, d>>, sent[c] + 1  >>} /\ UNCHANGED printed
    BY <1>6 DEF Sending
  <2>2. sent[c] \in Nat
    BY MessageQueueAssumption DEF Inv, TypeOK
  <2> DEFINE new == <<  <<c, d>>, sent[c] + 1  >>
  <2>3. \A x \in H \cup D : x[1] = new[1] => x[2] < new[2]
    <3>1. SUFFICES ASSUME NEW x \in H \cup D, x[1] = <<c, d>> PROVE x[2] < sent[c] + 1
      OBVIOUS
    <3> HIDE DEF H, P, D
    <3>2. PICK e \in Clients, f \in Clients : \E n \in Nat : x = <<  <<e, f>>, n  >> /\ n <= sent[e]
      BY <1>1
    <3>3. PICK n \in Nat : x = <<  <<e, f>>, n  >> /\ n <= sent[e]
      BY <3>2
    <3>4. e = c /\ x[2] = n
      BY <3>1, <3>3
    <3>5. QED
      BY <2>2, <3>3, <3>4
  <2>4. PICK w : w = new
    OBVIOUS
  <2>5. w \notin D
    BY <2>2, <2>3, <2>4
  <2> HIDE DEF H, P, D, B, W, new
  <2>6. P' = P \cup {w} /\ D' = D /\ B' = B
    <3>1. H' = H \cup {w}
      BY <2>1, <2>4 DEF new
    <3>2. QED
      BY <1>0, <1>3, <1>4, <1>6, <2>1, <2>5, <3>1
  <2>7. /\ P \subseteq P' /\ P' \subseteq W \X Nat
        /\ \A n \in P' \ P : \A m \in P \cup D : m[1] = n[1] => m[1] = n[1] /\ m[2] < n[2]
        /\ D' = D /\ B' = B
    BY <1>0, <1>1, <2>3, <2>4, <2>6
  <2>8. QED
    BY <2>7 DEF Channel!Next, Channel!Send, Channel!Earlier, P, D, B, W, Pending, Holding, Held, Lossy
<1>7. CASE Transfer /\ Same
  <2>1. /\ H' \subseteq H \cup D /\ H \subseteq H' \cup D' /\ D \subseteq D' /\ D' \subseteq D \cup H
    BY <1>7 DEF Transfer, Numbered
  <2> HIDE DEF H, P, D, B, W
  <2>2. P' \subseteq P /\ D' = D \cup (P \ P')
    BY <1>0, <2>1
  <2>3. \A n \in P \ P' : \A m \in P' : ~(m[1] = n[1] /\ m[2] < n[2])
    <3>1. SUFFICES ASSUME NEW n \in P \ P', NEW m \in P', m[1] = n[1] PROVE ~(m[2] < n[2])
      OBVIOUS
    <3>2. n \in D' /\ n[2] \in Nat /\ m[2] \in Nat
      BY <1>0, <1>2, <2>2, <3>1
    <3>3. n[2] < m[2]
      BY <1>1, <3>1, <3>2
    <3>4. QED
      BY <3>2, <3>3
  <2>4. B' = B
    BY <1>4, <1>7
  <2>5. QED
    BY <2>2, <2>3, <2>4
       DEF Channel!Next, Channel!Deliver, Channel!Earlier, P, D, B, W, Pending, Holding, Held, Lossy
<1>8. CASE Loss
  <2>1. H' \subseteq H /\ D' = D /\ B' = W
    BY <1>3, <1>8 DEF Loss
  <2> HIDE DEF H, P, D, B, W
  <2>2. P' \subseteq P /\ \A m \in P \ P' : m[1] \in B'
    BY <1>0, <1>2, <2>1
  <2>3. B \subseteq B' /\ B' \subseteq W
    BY <1>5, <2>1
  <2>4. QED
    BY <2>1, <2>2, <2>3
       DEF Channel!Next, Channel!Break, P, D, B, W, Pending, Holding, Held, Lossy
<1>9. QED
  BY <1>6, <1>7, <1>8 DEF Kind

\* server.cpp:43-62, client1.cpp:67-107: the queue, the server and the threads
\* of Lab8 implement an ordered channel from each client to each, which loses
\* no message that msgsnd accepted until the first queue is removed or SIGINT
\* reaches the server, however often a failed msgrcv repeats what was printed;
\* for every capacity and number of messages.
THEOREM MqImplementsChannel == Spec => ImplementsChannel
<1>1. Init => Queues /\ Channel!Init
  <2> SUFFICES ASSUME Init PROVE Queues /\ Channel!Init
    OBVIOUS
  <2>1. Queues
    BY DEF Init, Queues, Clients
  <2>2. \A m : m \notin Held /\ m \notin Printed
    <3>1. \A m : ~InQueue(m) /\ ~InServer(m) /\ \A b \in Clients : ~Pushes(b, m) /\ ~InHand(b, m)
      BY DEF Init, InQueue, InServer, Pushes, InHand
    <3>2. \A m : \A b \in Clients : ~Prints(b, m)
      BY DEF Init, Prints
    <3>3. QED
      BY <3>1, <3>2, HeldNow, PrintedNow
  <2>3. Numbered(Held) = {} /\ Numbered(Printed) = {}
    BY <2>2, NumberedIs
  <2>4. QED
    BY <2>1, <2>3 DEF Channel!Init, Held
<1>2. Inv /\ Queues /\ Buffered /\ [Next]_vars => Queues' /\ Kind
  BY NextKind DEF Kind
<1>3. Inv /\ Ordered /\ Ordered' /\ Kind
        => [Channel!Next]_<<Numbered(Range(queue) \cup Pushed \cup InHands) \ Numbered(Printed),
              Numbered(Printed),
              IF QueueLost \/ ~is_running[Server] THEN Clients \X Clients ELSE {}>>
  BY ChannelStep DEF Pending, Holding, Held, Lossy
<1>4. QED
  BY <1>1, <1>2, <1>3, OrderedHolds, MqInvariant, OrderInvariant, BufferedInvariant, PTL
     DEF Spec, ImplementsChannel, Channel!Spec
=============================================================================
