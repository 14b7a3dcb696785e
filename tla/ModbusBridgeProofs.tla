------------------------- MODULE ModbusBridgeProofs -------------------------
(***************************************************************************)
(* TLAPS proofs about ModbusBridge, for any values, any length of the      *)
(* queue, any faults and any number of them: its types, and what the cloud *)
(* is promised of its writes, of the reports and of a healthy bus.         *)
(***************************************************************************)
EXTENDS ModbusBridge, SequenceTheorems, TLAPS

-----------------------------------------------------------------------------
(* The inductive invariant.                                                *)

FieldNames == {"order", "on", "mode"}

(* A word of the right shape for each device.                              *)
Memory(V) == {m \in [Devices -> UNION {[Fields(d) -> V] : d \in Devices}] :
                \A d \in Devices : m[d] \in [Fields(d) -> V]}

Entries == [dev : Devices, field : FieldNames, value : Values]
             \cup [dev : Devices, field : {"errors", "data"}]

AnyWord == UNION {Words(d) : d \in Devices}

Polls == [plan : Seq(Devices), then : {"boot", "apply", "interval", "sendAll"},
          force : BOOLEAN, left : Seq(FieldNames),
          word : AnyWord \cup {<<>>},
          failed : BOOLEAN, packet : SUBSET Entries]

ParseOK(p) == /\ p.dev \in Pumps
              /\ p.field \in Fields(p.dev)
              /\ p.word \in Words(p.dev)

Typed ==
  /\ registers \in Memory(Values)
  /\ cache \in Memory(Values)
  /\ intent \in Memory(Values)
  /\ view \in Memory(Values \cup {Unknown})
  /\ CloudTyped
  /\ parse = <<>> \/ (parse = <<parse[1]>> /\ ParseOK(parse[1]))
  /\ poll \in Polls
  /\ active \subseteq Devices
  /\ pc \in Labels
  /\ hadError \in [Devices -> BOOLEAN]
  /\ fresh \subseteq Devices
  /\ upset \subseteq Upsets

(* What is left to read is the end of the device's list of CIDs.           *)
EndOfCids(d, left) ==
  \/ d = "rak" /\ left \in {<<"order">>, <<>>}
  \/ d = "inv" /\ left \in {<<"on", "mode">>, <<"mode">>, <<>>}

(* What the loop is at belongs to a device that was found, and the UART    *)
(* has its settings; the inverter is only operated to send everything.     *)
Aimed ==
  /\ pc = "init" \/ uart = "down" => active = {}
  /\ pc # "test" => ToSet(poll.plan) \subseteq active /\ poll.then # "boot"
  /\ pc \in {"operate", "read", "store"} =>
       /\ poll.plan # <<>>
       /\ "inv" \in ToSet(poll.plan) => poll.force
  /\ pc = "operate" => poll.packet = {}
  /\ pc \in {"read", "store"} =>
       /\ Head(poll.plan) \in Pumps
       /\ uart = Uart[Head(poll.plan)]
       /\ EndOfCids(Head(poll.plan), poll.left)
  /\ pc = "store" =>
       poll.left # <<>> /\ poll.word \in Words(Head(poll.plan))

(* A read that fails is remembered; an operate that is to send everything  *)
(* has something to send, or something to read.                            *)
Heard ==
  /\ pc \in {"read", "store"} /\ poll.failed => "silent" \in upset
  /\ pc = "read" /\ poll.force /\ ~poll.failed =>
       poll.packet # {} \/ poll.left # <<>>
  /\ pc = "store" /\ poll.force => poll.packet # {}
  /\ pc = "panic" => "silent" \in upset

(* Nothing moves under a write or under a read.                            *)
Steady ==
  "torn" \notin upset =>
    /\ parse # <<>> => \A g \in Fields(parse[1].dev) \ {parse[1].field} :
                         parse[1].word[g] = cache[parse[1].dev][g]
    /\ pc = "store" => poll.word = registers[Head(poll.plan)]

(* What is left to read once the present CID is stored.                    *)
LeftAfter == IF pc = "store" THEN Tail(poll.left) ELSE poll.left

Told(d, f) == \E e \in poll.packet : e.dev = d /\ e.field = f

(* The cloud knows what the cache holds of the devices that are not being  *)
(* operated.  Of the one that is, it knows what the cache held before, and *)
(* is about to be told what was read that it does not know.                *)
Known(d, word) == \A f \in Fields(d) : view[d][f] \in {Unknown, word[f]}

PacketOf(d) ==
  \A e \in poll.packet : e.field \in FieldNames =>
     /\ e.dev = d /\ e.field \in Fields(d)
     /\ e.value = registers[d][e.field]

ToldOrKnown(d) ==
  \A f \in Fields(d) \ ToSet(LeftAfter) :
     Told(d, f) \/ view[d][f] \in {Unknown, registers[d][f]}

Knowing ==
  upset \cap {"silent", "offline", "torn"} = {} =>
    /\ \A d \in Devices : ~Operating(d) => Known(d, cache[d])
    /\ pc \in {"read", "store"} =>
         LET d == Head(poll.plan)
         IN  /\ PacketOf(d)
             /\ ToldOrKnown(d)
             /\ IF poll.left = Cids[d] THEN Known(d, cache[d])
                                       ELSE cache[d] = registers[d]

(* The last word queued for a device is what was asked for, and without    *)
(* one the registers hold it already, as does a cache that has been filled.*)
Obeying ==
  upset \subseteq {"silent", "offline"} =>
    /\ \A d \in fresh : cache[d] = intent[d]
    /\ parse # <<>> => parse[1].dev \in fresh
    /\ \A i \in DOMAIN queue :
         (\A j \in DOMAIN queue : j > i => queue[j].dev # queue[i].dev)
           => queue[i].word = intent[queue[i].dev]
    /\ \A d \in Devices :
         (\A i \in DOMAIN queue : queue[i].dev # d) => registers[d] = intent[d]

IInv == Typed /\ Aimed /\ Heard /\ Steady /\ Knowing /\ Obeying

-----------------------------------------------------------------------------
(* Devices, fields and orders.                                             *)

LEMMA Names ==
  /\ \A d \in Devices : d \in {"rak", "inv", "salt"}
  /\ \A d \in Pumps : d \in Devices /\ d \in {"rak", "inv"}
  /\ Fields("rak") = {"order"}
  /\ Fields("inv") = {"on", "mode"}
  /\ Fields("salt") = {}
  /\ \A d \in Devices : Fields(d) \subseteq FieldNames
BY InstanceAssumption DEF Fields, Cids, ToSet, FieldNames, Pumps

LEMMA CidsOfPumps ==
  ASSUME NEW d \in Pumps
  PROVE  /\ Cids[d] \in Seq(FieldNames) /\ Cids[d] # <<>>
         /\ EndOfCids(d, Cids[d])
         /\ ToSet(Cids[d]) = Fields(d)
<1>1. <<"order">> \in Seq(FieldNames) /\ <<"on", "mode">> \in Seq(FieldNames)
  BY DEF FieldNames
<1>2. \/ d = "rak" /\ Cids[d] = <<"order">>
      \/ d = "inv" /\ Cids[d] = <<"on", "mode">>
  BY Names DEF Cids
<1>3. Cids[d] # <<>>
  BY <1>2
<1> QED BY <1>1, <1>2, <1>3 DEF EndOfCids, Fields

LEMMA EndsShrink ==
  ASSUME NEW d, NEW left, EndOfCids(d, left), left # <<>>
  PROVE  /\ Head(left) \in Fields(d)
         /\ EndOfCids(d, Tail(left))
<1>1. CASE left = <<"on", "mode">>
  <2>1. Tail(left) = <<"mode">>
    BY <1>1
  <2> QED BY <1>1, <2>1, Names DEF EndOfCids
<1>2. CASE left = <<"mode">> \/ left = <<"order">>
  <2>1. /\ <<"mode">> \in Seq({"mode", "order"}) /\ Len(<<"mode">>) = 1
        /\ <<"order">> \in Seq({"mode", "order"}) /\ Len(<<"order">>) = 1
    OBVIOUS
  <2>2. ASSUME NEW t \in Seq({"mode", "order"}), Len(t) = 1
        PROVE  Tail(t) = <<>>
    <3>1. t # <<>>
      BY <2>2
    <3>2. Tail(t) \in Seq({"mode", "order"}) /\ Len(Tail(t)) = 0
      BY <2>2, <3>1, HeadTailProperties
    <3> QED BY <3>2, EmptySeq
  <2>3. Tail(left) = <<>>
    BY <1>2, <2>1, <2>2
  <2> QED BY <1>2, <2>3, Names DEF EndOfCids
<1> QED BY <1>1, <1>2 DEF EndOfCids

LEMMA TailOfCids ==
  ASSUME NEW d \in Pumps, NEW left, EndOfCids(d, left), left # <<>>
  PROVE  Tail(left) # Cids[d]
<1>1. CASE d = "rak"
  <2>1. left = <<"order">> /\ Cids[d] = <<"order">>
    BY <1>1 DEF EndOfCids, Cids
  <2>2. Len(Tail(left)) = 0 /\ Len(Cids[d]) = 1
    BY <2>1
  <2> QED BY <2>2
<1>2. CASE d = "inv"
  <2>1. left \in {<<"on", "mode">>, <<"mode">>} /\ Cids[d] = <<"on", "mode">>
    BY <1>2 DEF EndOfCids, Cids
  <2>2. CASE left = <<"on", "mode">>
    <3>1. Len(Tail(left)) = 1 /\ Len(Cids[d]) = 2
      BY <2>1, <2>2
    <3> QED BY <3>1
  <2>3. CASE left = <<"mode">>
    <3>1. Len(Tail(left)) = 0
      BY <2>3
    <3>2. Len(<<"on", "mode">>) = 2
      OBVIOUS
    <3> QED BY <2>1, <3>1, <3>2
  <2> QED BY <2>1, <2>2, <2>3
<1> QED BY <1>1, <1>2, Names

LEMMA Orders ==
  ASSUME NEW S \in SUBSET Devices
  PROVE  /\ TestOrder(S) \in Seq(Devices)
         /\ PollOrder(S) \in Seq(Devices)
         /\ ToSet(PollOrder(S)) \subseteq S
         /\ S # {} => PollOrder(S) # <<>>
<1>1. \A d : Only(d, S) \in Seq(Devices)
  BY DEF Only
<1>2. TestOrder(S) \in Seq(Devices) /\ PollOrder(S) \in Seq(Devices)
  BY <1>1 DEF TestOrder, PollOrder
<1>3. ToSet(PollOrder(S)) \subseteq S
  BY DEF PollOrder, Only, ToSet
<1>4. ASSUME S # {} PROVE PollOrder(S) # <<>>
  BY <1>4, Names DEF PollOrder, Only
<1> QED BY <1>2, <1>3, <1>4

(* The head and the rest of a plan are in the plan.                        *)
LEMMA HeadOfPlan ==
  ASSUME NEW S, NEW s \in Seq(S), s # <<>>
  PROVE  /\ Head(s) \in S /\ Head(s) \in ToSet(s)
         /\ Tail(s) \in Seq(S)
         /\ ToSet(Tail(s)) \subseteq ToSet(s)
         /\ Len(s) # 1 => Tail(s) # <<>>
<1>1. Len(s) \in Nat /\ Len(s) >= 1
  BY EmptySeq, LenProperties
<1>2. /\ Head(s) \in S /\ Head(s) = s[1]
      /\ Tail(s) \in Seq(S)
      /\ Len(Tail(s)) = Len(s) - 1
      /\ \A i \in 1..Len(Tail(s)) : Tail(s)[i] = s[i + 1]
  BY <1>1, HeadTailProperties, LenProperties
<1>3. DOMAIN s = 1..Len(s) /\ DOMAIN Tail(s) = 1..Len(Tail(s))
  BY <1>2, LenProperties
<1>4. Head(s) \in ToSet(s)
  BY <1>1, <1>2, <1>3 DEF ToSet
<1>5. ToSet(Tail(s)) \subseteq ToSet(s)
  <2>1. \A i \in 1..Len(Tail(s)) : i + 1 \in 1..Len(s)
    BY <1>1, <1>2
  <2> QED BY <1>2, <1>3, <2>1 DEF ToSet
<1>6. \A t \in Seq(S) : Len(t) = Len(s) - 1 /\ Len(s) # 1 => t # <<>>
  BY <1>1, EmptySeq
<1> QED BY <1>2, <1>4, <1>5, <1>6

(* A plan is its head and the rest.                                        *)
LEMMA SetOfPlan ==
  ASSUME NEW S, NEW s \in Seq(S), s # <<>>
  PROVE  ToSet(s) \subseteq {Head(s)} \cup ToSet(Tail(s))
<1>1. Len(s) \in Nat /\ Len(s) >= 1 /\ DOMAIN s = 1..Len(s)
  BY EmptySeq, LenProperties
<1>2. /\ Head(s) = s[1]
      /\ Len(Tail(s)) = Len(s) - 1
      /\ DOMAIN Tail(s) = 1..Len(Tail(s))
      /\ \A i \in 1..Len(Tail(s)) : Tail(s)[i] = s[i + 1]
  BY <1>1, HeadTailProperties, LenProperties
<1>3. ASSUME NEW i \in DOMAIN s, i # 1
      PROVE  s[i] \in ToSet(Tail(s))
  <2>1. i - 1 \in DOMAIN Tail(s) /\ Tail(s)[i - 1] = s[(i - 1) + 1]
    BY <1>1, <1>2, <1>3
  <2>2. (i - 1) + 1 = i
    BY <1>1, <1>3
  <2> QED BY <2>1, <2>2 DEF ToSet
<1> QED BY <1>2, <1>3 DEF ToSet

LEMMA EmptyPlan == ToSet(<<>>) = {}
BY DEF ToSet

-----------------------------------------------------------------------------
(* Memories.                                                               *)

LEMMA MemoryOf ==
  ASSUME NEW V, NEW m, m = [d \in Devices |-> m[d]],
         \A d \in Devices : m[d] \in [Fields(d) -> V]
  PROVE  m \in Memory(V)
BY DEF Memory

LEMMA WordChanged ==
  ASSUME NEW V, NEW m \in Memory(V), NEW d \in Devices,
         NEW w \in [Fields(d) -> V]
  PROVE  /\ [m EXCEPT ![d] = w] \in Memory(V)
         /\ [m EXCEPT ![d] = w][d] = w
         /\ \A c \in Devices \ {d} : [m EXCEPT ![d] = w][c] = m[c]
BY DEF Memory

LEMMA FieldChanged ==
  ASSUME NEW V, NEW m \in Memory(V), NEW d \in Devices,
         NEW f \in Fields(d), NEW v \in V
  PROVE  /\ [m EXCEPT ![d][f] = v] \in Memory(V)
         /\ [m EXCEPT ![d][f] = v][d] = [m[d] EXCEPT ![f] = v]
         /\ \A c \in Devices \ {d} : [m EXCEPT ![d][f] = v][c] = m[c]
<1>1. [m[d] EXCEPT ![f] = v] \in [Fields(d) -> V]
  BY DEF Memory
<1>2. [m EXCEPT ![d][f] = v] = [m EXCEPT ![d] = [m[d] EXCEPT ![f] = v]]
  BY DEF Memory
<1> QED BY <1>1, <1>2, WordChanged

LEMMA MemoryKind ==
  ASSUME NEW V, NEW m \in Memory(V), NEW d \in Devices
  PROVE  m[d] \in [Fields(d) -> V]
BY DEF Memory

LEMMA SameMemory ==
  ASSUME NEW V, NEW m \in Memory(V), NEW n \in Memory(V),
         \A d \in Devices : m[d] = n[d]
  PROVE  m = n
BY DEF Memory

-----------------------------------------------------------------------------
(* What a publication does to what the cloud knows.                        *)

LEMMA Published ==
  ASSUME NEW packet \in SUBSET Entries, NEW happened \in SUBSET Upsets,
         view \in Memory(Values \cup {Unknown}), upset \subseteq Upsets,
         Publish(packet, happened)
  PROVE  /\ view' \in Memory(Values \cup {Unknown})
         /\ upset' \subseteq Upsets
         /\ upset \cup happened \subseteq upset'
         /\ upset' \subseteq upset \cup happened \cup {"offline"}
         /\ "offline" \notin upset' =>
              \A d \in Devices : \A f \in Fields(d) :
                \/ /\ \A e \in packet : e.dev = d => e.field # f
                   /\ view'[d][f] = view[d][f]
                \/ \E e \in packet : /\ e.dev = d /\ e.field = f
                                     /\ view'[d][f] = e.value
<1> DEFINE of(d, f) == {e \in packet : e.dev = d /\ e.field = f}
<1> DEFINE now(d, f) == IF of(d, f) = {} THEN view[d][f]
                           ELSE (CHOOSE e \in of(d, f) : TRUE).value
<1>1. CASE view' = [d \in Devices |-> [f \in Fields(d) |-> now(d, f)]]
             /\ Note(happened)
  <2>1. ASSUME NEW d \in Devices, NEW f \in Fields(d), of(d, f) # {}
        PROVE  \E e \in packet : /\ e.dev = d /\ e.field = f
                                 /\ now(d, f) = e.value /\ e.value \in Values
    <3> DEFINE e == CHOOSE x \in of(d, f) : TRUE
    <3>1. e \in of(d, f)
      BY <2>1
    <3>2. f \in FieldNames
      BY Names
    <3>3. e.value \in Values
      BY <3>1, <3>2 DEF Entries, FieldNames
    <3> QED BY <2>1, <3>1, <3>3
  <2>2. ASSUME NEW d \in Devices, NEW f \in Fields(d)
        PROVE  now(d, f) \in Values \cup {Unknown}
    BY <2>1 DEF Memory
  <2> HIDE DEF now
  <2>3. view' \in Memory(Values \cup {Unknown})
    <3>1. \A d \in Devices : view'[d] = [f \in Fields(d) |-> now(d, f)]
      BY <1>1
    <3>2. \A d \in Devices : view'[d] \in [Fields(d) -> Values \cup {Unknown}]
      BY <2>2, <3>1
    <3>3. view' = [d \in Devices |-> view'[d]]
      BY <1>1
    <3> QED BY <3>2, <3>3, MemoryOf
  <2>4. \A d \in Devices : \A f \in Fields(d) : view'[d][f] = now(d, f)
    BY <1>1
  <2>5. ASSUME NEW d \in Devices, NEW f \in Fields(d)
        PROVE  \/ /\ \A e \in packet : e.dev = d => e.field # f
                  /\ view'[d][f] = view[d][f]
               \/ \E e \in packet : /\ e.dev = d /\ e.field = f
                                    /\ view'[d][f] = e.value
    <3>1. CASE of(d, f) = {}
      BY <2>4, <3>1 DEF now
    <3>2. CASE of(d, f) # {}
      BY <2>1, <2>4, <3>2
    <3> QED BY <3>1, <3>2
  <2> QED BY <1>1, <2>3, <2>5 DEF Note
<1>2. CASE /\ MayHappen("offline")
           /\ Note(happened \cup {"offline"})
           /\ UNCHANGED view
  BY <1>2 DEF Note, Upsets, FaultKinds
<1> QED BY <1>1, <1>2 DEF Publish

-----------------------------------------------------------------------------
(* Typed.                                                                  *)

LEMMA QueueAppend ==
  ASSUME CloudTyped, NEW d \in Devices, NEW w \in Words(d),
         Enqueue([dev |-> d, word |-> w])
  PROVE  /\ queue' \in Seq(UNION {ItemOf(c) : c \in Devices})
         /\ Len(queue') <= QueueSize
<1>1. [dev |-> d, word |-> w] \in UNION {ItemOf(c) : c \in Devices}
  BY DEF ItemOf
<1> DEFINE Items == UNION {ItemOf(c) : c \in Devices}
<1>2. queue \in Seq(Items) /\ Len(queue) <= QueueSize /\ QueueSize \in Nat
  BY InstanceAssumption DEF CloudTyped
<1> HIDE DEF Items
<1>3. Len(queue) \in Nat
  BY <1>2, LenProperties
<1> QED
  BY <1>1, <1>2, <1>3, AppendProperties DEF Enqueue, Items

LEMMA NoPollTyped == NoPoll \in Polls
<1>1. /\ <<>> \in Seq(Devices) /\ <<>> \in Seq(FieldNames)
      /\ {} \in SUBSET Entries
  OBVIOUS
<1> HIDE DEF Entries
<1> QED BY <1>1 DEF NoPoll, Polls

LEMMA TypedInit == ASSUME Init PROVE Typed
<1>1. /\ registers \in Memory(Values) /\ cache \in Memory(Values)
      /\ view \in Memory(Values \cup {Unknown})
  <2>1. {0, Factory} \subseteq Values
    BY InstanceAssumption
  <2>2. \A V : \A v \in V :
          [d \in Devices |-> [f \in Fields(d) |-> v]] \in Memory(V)
    BY DEF Memory
  <2> QED BY <2>1, <2>2 DEF Init
<1>2. poll \in Polls
  BY NoPollTyped DEF Init
<1>3. CloudTyped
  BY InstanceAssumption DEF Init, CloudTyped
<1> QED
  BY <1>1, <1>2, <1>3 DEF Init, Typed, Labels

(* The steps of the MQTT task leave the loop alone.                        *)
LEMMA TypedMqtt ==
  ASSUME Typed, MqttTask
  PROVE  Typed'
<1> USE DEF Typed
<1>1. ASSUME NEW d \in Pumps, NEW f \in Fields(d), NEW v \in Values,
             ComputeItem(d, f, v)
      PROVE  Typed'
  <2>1. d \in Devices
    BY Names
  <2>2. [cache[d] EXCEPT ![f] = v] \in Words(d)
    BY <2>1, MemoryKind DEF Words
  <2> DEFINE p == [dev |-> d, field |-> f, word |-> [cache[d] EXCEPT ![f] = v]]
  <2>3. ParseOK(p)
    BY <2>2 DEF ParseOK
  <2> HIDE DEF p
  <2>4. parse' = <<p>>
    BY <1>1 DEF ComputeItem, p
  <2>5. parse' = <<parse'[1]>> /\ ParseOK(parse'[1]) /\ Len(parse') <= 1
        /\ \A i \in DOMAIN parse' : parse'[i].word \in Words(parse'[i].dev)
    BY <2>3, <2>4 DEF ParseOK
  <2> QED
    BY <1>1, <2>5
    DEF ComputeItem, mainSide, CloudTyped, ParseOK, Note, If, Upsets
<1>2. ASSUME NEW d \in Pumps, NEW word \in Words(d), WriteRaw(d, word)
      PROVE  Typed'
  <2>1. d \in Devices
    BY Names
  <2>2. /\ queue' \in Seq(UNION {ItemOf(c) : c \in Devices})
        /\ Len(queue') <= QueueSize
    BY <1>2, <2>1, QueueAppend DEF WriteRaw
  <2>3. [f \in Fields(d) |-> Unknown] \in [Fields(d) -> Values \cup {Unknown}]
    OBVIOUS
  <2>4. view' \in Memory(Values \cup {Unknown})
    BY <1>2, <2>1, <2>3, WordChanged DEF WriteRaw
  <2>5. intent' \in Memory(Values)
    BY <1>2, <2>1, WordChanged DEF WriteRaw, Words
  <2>6. upset' \subseteq Upsets
    BY <1>2 DEF WriteRaw, Note, Dropped, If, Upsets, FaultKinds
  <2> QED
    BY <1>2, <2>2, <2>4, <2>5, <2>6
    DEF WriteRaw, mainSide, CloudTyped, ParseOK
<1>3. ASSUME StoreItem
      PROVE  Typed'
  <2> DEFINE d == parse[1].dev
             f == parse[1].field
             w == parse[1].word
  <2>1. /\ d \in Devices /\ f \in Fields(d) /\ w \in Words(d)
        /\ w[f] \in Values
    BY <1>3, Names DEF StoreItem, ParseOK, Words
  <2>2. /\ queue' \in Seq(UNION {ItemOf(c) : c \in Devices})
        /\ Len(queue') <= QueueSize
    BY <1>3, <2>1, QueueAppend DEF StoreItem
  <2>3. view' \in Memory(Values \cup {Unknown})
    <3>1. w[f] \in Values \cup {Unknown}
      BY <2>1
    <3> HIDE DEF d, f, w
    <3>2. view' = [view EXCEPT ![d][f] = w[f]]
      BY <1>3 DEF StoreItem, d, f, w
    <3> QED BY <2>1, <3>1, <3>2, FieldChanged
  <2>4. intent' \in Memory(Values)
    <3> HIDE DEF d, f, w
    <3>1. intent' = [intent EXCEPT ![d][f] = w[f]]
      BY <1>3 DEF StoreItem, d, f, w
    <3> QED BY <2>1, <3>1, FieldChanged
  <2>5. cache' \in Memory(Values)
    BY <1>3, <2>1, WordChanged DEF StoreItem, Words
  <2>6. upset' \subseteq Upsets
    BY <1>3 DEF StoreItem, Note, Dropped, If, Upsets, FaultKinds
  <2> QED
    BY <1>3, <2>2, <2>3, <2>4, <2>5, <2>6
    DEF StoreItem, mainSide, CloudTyped, ParseOK
<1> QED BY <1>1, <1>2, <1>3 DEF MqttTask

LEMMA TypedPanel == ASSUME Typed, Panel PROVE Typed'
<1>1. PICK d \in Pumps : \E f \in Fields(d), v \in Values :
             ChangeLocally(d, f, v)
  BY DEF Panel
<1>2. PICK f \in Fields(d), v \in Values : ChangeLocally(d, f, v)
  BY <1>1
<1>3. d \in Devices
  BY Names
<1>4. registers' \in Memory(Values) /\ intent' \in Memory(Values)
  BY <1>2, <1>3, FieldChanged DEF ChangeLocally, Typed
<1>5. upset' \subseteq Upsets
  BY <1>2 DEF ChangeLocally, Note, If, Upsets, FaultKinds, Typed
<1> QED
  BY <1>2, <1>4, <1>5
  DEF ChangeLocally, Typed, cloudSide, mainSide, CloudTyped, ParseOK

(* The end of an operate.                                                  *)
LEMMA ConcludeTyped ==
  ASSUME Typed, poll.plan # <<>>,
         NEW d \in Devices, NEW failed \in BOOLEAN,
         NEW packet \in SUBSET Entries, NEW force \in BOOLEAN,
         NEW label \in Labels,
         Conclude(d, failed, packet, force, label)
  PROVE  Typed'
<1> DEFINE error == [dev |-> d, field |-> "errors"]
           sent  == Add(packet, error, failed /\ ~hadError[d])
<1>1. sent \in SUBSET Entries
  BY DEF Add, If, Entries
<1>2. If(failed, "silent") \in SUBSET Upsets
  BY DEF If, Upsets, FaultKinds
<1>3. /\ view \in Memory(Values \cup {Unknown}) /\ upset \subseteq Upsets
      /\ Publish(sent, If(failed, "silent"))
  BY DEF Typed, Conclude
<1> HIDE DEF sent
<1>4. view' \in Memory(Values \cup {Unknown}) /\ upset' \subseteq Upsets
  BY <1>1, <1>2, <1>3, Published
<1>5. poll' \in Polls
  <2>1. poll \in Polls /\ Tail(poll.plan) \in Seq(Devices)
    BY HeadOfPlan DEF Typed, Polls
  <2>2. \/ poll' = NoPoll
        \/ poll' = [poll EXCEPT !.plan = Tail(@), !.packet = {}]
    BY DEF Conclude
  <2> QED BY <2>1, <2>2, NoPollTyped DEF Polls
<1>6. hadError' \in [Devices -> BOOLEAN] /\ pc' \in Labels
  BY DEF Typed, Conclude, Labels
<1> QED
  BY <1>4, <1>5, <1>6
  DEF Typed, Conclude, cloudSide, CloudTyped, ParseOK

(* An operate in one step ends like the others.                            *)
LEMMA OperateApartConcludes ==
  ASSUME NEW d \in Devices, NEW force \in BOOLEAN, NEW label,
         OperateApart(d, force, label)
  PROVE  \E failed \in BOOLEAN, packet \in SUBSET Entries :
           /\ packet \subseteq {[dev |-> d, field |-> "data"]}
           /\ force /\ ~failed => packet # {}
           /\ Conclude(d, failed, packet, force, label)
<1>1. PICK failed \in SomeFail, some \in BOOLEAN :
        /\ force /\ ~failed => some
        /\ Conclude(d, failed, Add({}, [dev |-> d, field |-> "data"], some),
                    force, label)
  BY DEF OperateApart
<1> DEFINE packet == Add({}, [dev |-> d, field |-> "data"], some)
<1>2. failed \in BOOLEAN
  BY DEF SomeFail
<1>3. packet \in SUBSET Entries
  BY DEF Add, If, Entries
<1>4. /\ packet \subseteq {[dev |-> d, field |-> "data"]}
      /\ some => packet # {}
  BY DEF Add, If
<1> HIDE DEF packet
<1> QED BY <1>1, <1>2, <1>3, <1>4 DEF packet

LEMMA StartPollsTyped ==
  ASSUME NEW S \in SUBSET Devices, NEW force \in BOOLEAN,
         NEW then \in {"apply", "interval", "sendAll"},
         StartPolls(S, force, then)
  PROVE  poll' \in Polls /\ pc' \in Labels
<1>1. PollOrder(S) \in Seq(Devices)
  BY Orders
<1>2. [NoPoll EXCEPT !.plan = PollOrder(S), !.force = force, !.then = then]
        \in Polls
  BY <1>1, NoPollTyped DEF Polls
<1> QED BY <1>2, NoPollTyped DEF StartPolls, Labels

(* A step that leaves the words, the cloud's side and the ghosts alone.    *)
LEMMA TypedQuiet ==
  ASSUME Typed, poll' \in Polls, pc' \in Labels, active' \subseteq Devices,
         UNCHANGED <<registers, cache, cloudSide, hadError, fresh, view, intent>>,
         upset' \subseteq Upsets
  PROVE  Typed'
BY DEF Typed, cloudSide, CloudTyped, ParseOK

LEMMA TypedMain ==
  ASSUME Typed, Aimed, MainLoop
  PROVE  Typed'
<1>0. /\ poll \in Polls /\ pc \in Labels /\ active \subseteq Devices
      /\ upset \subseteq Upsets /\ poll.plan \in Seq(Devices)
      /\ poll.left \in Seq(FieldNames)
  BY DEF Typed, Polls
<1>1. CASE ModbusInit
  <2>1. TestOrder(Devices) \in Seq(Devices)
    BY Orders
  <2>2. poll' \in Polls /\ pc' \in Labels
    BY <1>1, <2>1, NoPollTyped DEF ModbusInit, StartTests, Polls, Labels
  <2> QED BY <1>0, <1>1, <2>2, TypedQuiet DEF ModbusInit, ghosts
<1>2. CASE TestAgain
  <2>1. TestOrder(Devices) \in Seq(Devices)
    BY Orders
  <2>2. poll' \in Polls /\ pc' \in Labels
    BY <1>2, <2>1, NoPollTyped DEF TestAgain, StartTests, Polls, Labels
  <2> QED BY <1>0, <1>2, <2>2, TypedQuiet DEF TestAgain, ghosts
<1>3. CASE ModbusTest
  <2>1. Head(poll.plan) \in Devices /\ Tail(poll.plan) \in Seq(Devices)
    BY <1>0, <1>3, HeadOfPlan DEF ModbusTest
  <2>2. poll' \in Polls
    BY <1>0, <1>3, <2>1 DEF ModbusTest, Polls
  <2>3. active' \subseteq Devices
    BY <1>0, <1>3, <2>1 DEF ModbusTest
  <2> QED BY <1>0, <1>3, <2>2, <2>3, TypedQuiet DEF ModbusTest, ghosts
<1>4. CASE ReportNone
  <2> DEFINE packet == {[dev |-> d, field |-> "errors"] : d \in Pumps}
  <2>1. packet \in SUBSET Entries /\ {} \in SUBSET Upsets
    BY Names DEF Entries
  <2>2. view \in Memory(Values \cup {Unknown}) /\ Publish(packet, {})
    BY <1>4 DEF ReportNone, Typed
  <2> HIDE DEF packet
  <2>3. view' \in Memory(Values \cup {Unknown}) /\ upset' \subseteq Upsets
    BY <1>0, <2>1, <2>2, Published
  <2>4. poll' \in Polls /\ pc' \in Labels
    BY <1>4, NoPollTyped DEF ReportNone, Labels
  <2> QED
    BY <1>4, <2>3, <2>4
    DEF ReportNone, Typed, cloudSide, CloudTyped, ParseOK
<1>5. CASE TestsDone
  <2>1. poll' \in Polls /\ pc' \in Labels
    BY <1>0, <1>5, NoPollTyped DEF TestsDone, Labels, Polls
  <2> QED BY <1>0, <1>5, <2>1, TypedQuiet DEF TestsDone, ghosts
<1>6. CASE ApplyItem
  <2>1. /\ Head(queue) \in UNION {ItemOf(d) : d \in Devices}
        /\ Tail(queue) \in Seq(UNION {ItemOf(d) : d \in Devices})
        /\ Len(Tail(queue)) = Len(queue) - 1
    BY <1>6, HeadTailProperties DEF ApplyItem, Typed, CloudTyped
  <2>2. Len(Tail(queue)) <= QueueSize
    BY <2>1, LenProperties, InstanceAssumption DEF Typed, CloudTyped
  <2>3. /\ Head(queue).dev \in Devices
        /\ Head(queue).word \in [Fields(Head(queue).dev) -> Values]
    BY <2>1 DEF ItemOf, Words
  <2>4. [registers EXCEPT ![Head(queue).dev] = Head(queue).word]
          \in Memory(Values)
    BY <2>3, WordChanged DEF Typed
  <2>5. registers' \in Memory(Values)
    BY <1>6, <2>4 DEF ApplyItem, Typed
  <2>6. upset' \subseteq Upsets
    BY <1>0, <1>6 DEF ApplyItem, Note, Upsets, FaultKinds
  <2> QED
    BY <1>6, <2>1, <2>2, <2>5, <2>6
    DEF ApplyItem, Typed, CloudTyped, ParseOK, mainSide
<1>7. CASE ApplyDone
  <2>1. poll' \in Polls /\ pc' \in Labels
    BY <1>0, <1>7, Orders DEF ApplyDone, Labels, Polls
  <2> QED BY <1>0, <1>7, <2>1, TypedQuiet DEF ApplyDone, ghosts
<1>8. CASE CheckErrors
  <2>1. Head(poll.plan) \in Devices
    BY <1>0, <1>8, HeadOfPlan DEF CheckErrors
  <2>2. "errors" \in Labels
    BY DEF Labels
  <2> QED
    BY <1>8, <2>1, <2>2, OperateApartConcludes, ConcludeTyped DEF CheckErrors
<1>9. CASE RunCommands
  <2>1. poll' \in Polls /\ pc' \in Labels
    BY <1>0, <1>9, StartPollsTyped DEF RunCommands, Labels
  <2> QED BY <1>0, <1>9, <2>1, TypedQuiet DEF RunCommands, ghosts
<1>10. CASE CheckIntervals
  <2>1. poll' \in Polls /\ pc' \in Labels
    BY <1>0, <1>10, StartPollsTyped DEF CheckIntervals, Labels
  <2> QED BY <1>0, <1>10, <2>1, TypedQuiet DEF CheckIntervals, ghosts
<1>11. CASE SendAllData
  <2>1. poll' \in Polls /\ pc' \in Labels
    BY <1>0, <1>11, StartPollsTyped DEF SendAllData, Labels
  <2> QED BY <1>0, <1>11, <2>1, TypedQuiet DEF SendAllData, ghosts
<1>12. CASE OperateSalt
  <2>1. poll.plan # <<>> /\ "salt" \in Devices
    BY <1>0, <1>12, HeadOfPlan DEF OperateSalt, Aimed
  <2>2. (IF Len(poll.plan) = 1 THEN poll.then ELSE "operate") \in Labels
    BY <1>0, <1>12 DEF Aimed, Polls, Labels, OperateSalt
  <2>3. poll.force \in BOOLEAN
    BY <1>0 DEF Polls
  <2> QED
    BY <1>12, <2>1, <2>2, <2>3, OperateApartConcludes, ConcludeTyped
    DEF OperateSalt
<1>13. CASE Operate
  <2>1. Head(poll.plan) \in Pumps /\ Cids[Head(poll.plan)] \in Seq(FieldNames)
    BY <1>13, CidsOfPumps DEF Operate
  <2>2. poll' \in Polls /\ pc' \in Labels
    BY <1>0, <1>13, <2>1 DEF Operate, Labels, Polls
  <2> QED BY <1>0, <1>13, <2>2, TypedQuiet DEF Operate, ghosts
<1>14. CASE Read
  <2>1. /\ Head(poll.plan) \in Devices
        /\ Head(poll.left) \in Fields(Head(poll.plan))
        /\ Tail(poll.left) \in Seq(FieldNames)
    BY <1>0, <1>14, Names, HeadOfPlan
    DEF Read, ReadAndAdd, Aimed, EndOfCids
  <2> DEFINE d == Head(poll.plan)
             f == Head(poll.left)
             entry == [dev |-> d, field |-> f, value |-> registers[d][f]]
             wanted == Changed \/ poll.force
  <2>2. registers[d] \in Words(d) /\ registers[d][f] \in Values
    BY <2>1, MemoryKind DEF Typed, Words
  <2>3. Add(poll.packet, entry, wanted) \in SUBSET Entries
    <3>1. entry \in Entries
      BY <2>1, <2>2, Names DEF Entries
    <3> HIDE DEF entry, wanted
    <3> QED BY <1>0, <3>1 DEF Polls, Add, If
  <2> HIDE DEF wanted
  <2>4. poll' \in Polls /\ pc' \in Labels
    <3>1. CASE /\ poll' = [poll EXCEPT !.word = registers[d],
                                       !.packet = Add(@, entry, wanted)]
               /\ pc' = "store"
      BY <1>0, <2>1, <2>2, <2>3, <3>1 DEF Polls, AnyWord, Labels
    <3>2. CASE /\ poll' = [poll EXCEPT !.left = Tail(@), !.failed = TRUE]
               /\ UNCHANGED pc
      BY <1>0, <2>1, <3>2 DEF Polls
    <3> QED BY <1>14, <3>1, <3>2 DEF Read, ReadAndAdd, wanted
  <2>5. upset' \subseteq Upsets
    BY <1>0, <1>14 DEF Read, ReadAndAdd, Note, Upsets, FaultKinds
  <2> QED BY <1>0, <1>14, <2>4, <2>5, TypedQuiet DEF Read, ReadAndAdd
<1>15. CASE Store
  <2>1. /\ Head(poll.plan) \in Devices
        /\ Tail(poll.left) \in Seq(FieldNames)
    BY <1>0, <1>15, Names, HeadOfPlan DEF Store, Aimed
  <2>2. poll' \in Polls /\ pc' \in Labels
    BY <1>0, <1>15, <2>1 DEF Store, Polls, Labels
  <2>3. upset' \subseteq Upsets
    BY <1>0, <1>15 DEF Store, Note, If, Upsets, FaultKinds
  <2>4. poll.word \in [Fields(Head(poll.plan)) -> Values]
    BY <1>0, <1>15 DEF Store, Aimed, Words
  <2>5. cache' \in Memory(Values)
    BY <1>15, <2>1, <2>4, WordChanged DEF Store, Typed
  <2> QED
    BY <1>0, <1>15, <2>1, <2>2, <2>3, <2>5
    DEF Store, Typed, cloudSide, CloudTyped, ParseOK
<1>16. CASE Finish
  <2>1. poll.plan # <<>> /\ Head(poll.plan) \in Devices
    BY <1>0, <1>16, Names DEF Finish, Aimed
  <2>2. (IF Len(poll.plan) = 1 THEN poll.then ELSE "operate") \in Labels
    BY <1>0, <1>16 DEF Aimed, Polls, Labels, Finish
  <2>3. /\ poll.failed \in BOOLEAN /\ poll.force \in BOOLEAN
        /\ poll.packet \in SUBSET Entries
    BY <1>0 DEF Polls
  <2> QED BY <1>16, <2>1, <2>2, <2>3, ConcludeTyped DEF Finish
<1> QED
  BY <1>1, <1>2, <1>3, <1>4, <1>5, <1>6, <1>7, <1>8, <1>9, <1>10, <1>11,
     <1>12, <1>13, <1>14, <1>15, <1>16 DEF MainLoop

-----------------------------------------------------------------------------
(* Aimed.                                                                  *)

LEMMA OthersKeepMain ==
  ASSUME MqttTask \/ Panel
  PROVE  UNCHANGED mainSide /\ upset \subseteq upset'
BY DEF MqttTask, Panel, ComputeItem, WriteRaw, StoreItem, ChangeLocally, Note

(* Setting the UART for a device does not bring the bus up or down.        *)
LEMMA UartStaysUp ==
  ASSUME NEW d \in Devices, SetUart(d)
  PROVE  /\ uart # "down" => uart' = Uart[d] /\ uart' # "down"
         /\ uart = "down" => uart' = "down"
<1>1. Uart[d] \in {"19200 even", "9600 none"}
  <2>1. CASE d = "rak"
    BY <2>1 DEF Uart
  <2>2. CASE d = "inv"
    BY <2>2 DEF Uart
  <2>3. CASE d = "salt"
    BY <2>3 DEF Uart
  <2> QED BY <2>1, <2>2, <2>3, Names
<1> QED BY <1>1 DEF SetUart

(* The end of an operate keeps the rest of the plan, with its settings.    *)
LEMMA ConcludeAimed ==
  ASSUME Typed, Aimed, pc \notin {"init", "test"},
         poll.plan # <<>>,
         NEW d \in Devices, NEW failed, NEW packet, NEW force, NEW label,
         \/ label = "errors"
         \/ /\ label = IF Len(poll.plan) = 1 THEN poll.then ELSE "operate"
            /\ "inv" \in ToSet(poll.plan) => poll.force,
         Conclude(d, failed, packet, force, label)
  PROVE  Aimed'
<1>1. /\ poll \in Polls /\ poll.plan \in Seq(Devices)
      /\ ToSet(poll.plan) \subseteq active /\ poll.then # "boot"
      /\ poll.then \in {"apply", "interval", "sendAll"}
  BY DEF Typed, Polls, Aimed
<1>2. /\ ToSet(Tail(poll.plan)) \subseteq ToSet(poll.plan)
      /\ Len(poll.plan) # 1 => Tail(poll.plan) # <<>>
  BY <1>1, HeadOfPlan
<1>3. \/ Len(poll.plan) = 1 /\ poll' = NoPoll
      \/ /\ Len(poll.plan) # 1
         /\ poll' = [poll EXCEPT !.plan = Tail(@), !.packet = {}]
  BY DEF Conclude
<1>4. /\ ToSet(poll'.plan) \subseteq ToSet(poll.plan)
      /\ poll'.then \in {"apply", "interval", "sendAll"}
      /\ Len(poll.plan) # 1 => poll'.plan # <<>> /\ poll'.force = poll.force
      /\ poll'.packet = {}
  <2>1. CASE Len(poll.plan) = 1 /\ poll' = NoPoll
    BY <2>1, EmptyPlan DEF NoPoll
  <2>2. CASE /\ Len(poll.plan) # 1
             /\ poll' = [poll EXCEPT !.plan = Tail(@), !.packet = {}]
    <3>1. /\ poll'.plan = Tail(poll.plan) /\ poll'.then = poll.then
          /\ poll'.force = poll.force /\ poll'.packet = {}
      BY <1>1, <2>2 DEF Polls
    <3> QED BY <1>1, <1>2, <2>2, <3>1
  <2> QED BY <1>3, <2>1, <2>2
<1>5. pc' \in {"panic", label}
  BY DEF Conclude
<1>6. uart' = "down" => active' = {}
  BY UartStaysUp DEF Conclude, Aimed
<1> QED
  BY <1>1, <1>4, <1>5, <1>6 DEF Aimed, Conclude

LEMMA StartPollsAimed ==
  ASSUME NEW S \in SUBSET Devices, S \subseteq active, NEW force \in BOOLEAN,
         "inv" \in S => force, active' = active,
         NEW then \in {"apply", "interval", "sendAll"},
         StartPolls(S, force, then)
  PROVE  /\ ToSet(poll'.plan) \subseteq active' /\ poll'.then # "boot"
         /\ pc' \in {"apply", "interval", "sendAll", "operate"}
         /\ pc' = "operate" => /\ poll'.plan # <<>>
                               /\ "inv" \in ToSet(poll'.plan) => poll'.force
                               /\ poll'.packet = {}
<1>1. /\ PollOrder(S) \in Seq(Devices)
      /\ ToSet(PollOrder(S)) \subseteq S
      /\ S # {} => PollOrder(S) # <<>>
  BY Orders
<1>2. CASE S = {}
  BY <1>2, EmptyPlan DEF StartPolls, NoPoll
<1>3. CASE S # {}
  <2>1. /\ poll'.plan = PollOrder(S) /\ poll'.force = force
        /\ poll'.then = then /\ pc' = "operate" /\ poll'.packet = {}
    BY <1>3 DEF StartPolls, NoPoll
  <2> QED BY <1>1, <1>3, <2>1
<1> QED BY <1>2, <1>3

LEMMA AimedStep ==
  ASSUME Typed, Aimed, Next
  PROVE  Aimed'
<1>0. /\ poll \in Polls /\ pc \in Labels /\ active \subseteq Devices
      /\ poll.plan \in Seq(Devices)
      /\ poll.left \in Seq(FieldNames)
  BY DEF Typed, Polls
<1>1. CASE MqttTask \/ Panel
  BY <1>1, OthersKeepMain DEF mainSide, Aimed
<1>2. CASE ModbusInit
  BY <1>2 DEF ModbusInit, StartTests, Aimed
<1>3. CASE TestAgain
  BY <1>3 DEF TestAgain, StartTests, Aimed
<1>4. CASE ModbusTest
  <2>1. Head(poll.plan) \in Devices
    BY <1>0, <1>4, HeadOfPlan DEF ModbusTest
  <2>2. uart # "down" => uart' # "down"
    BY <1>4, <2>1, UartStaysUp DEF ModbusTest
  <2> QED BY <1>4, <2>2 DEF ModbusTest, SetUart, Aimed
<1>5. CASE ReportNone
  BY <1>5, EmptyPlan DEF ReportNone, NoPoll, Aimed
<1>6. CASE TestsDone
  BY <1>0, <1>6, EmptyPlan DEF TestsDone, NoPoll, Aimed, Polls
<1>7. CASE ApplyItem
  BY <1>7 DEF ApplyItem, mainSide, Aimed
<1>8. CASE ApplyDone
  <2>1. ToSet(PollOrder(active)) \subseteq active
    BY <1>0, Orders
  <2> QED BY <1>0, <1>8, <2>1 DEF ApplyDone, Aimed, Polls
<1>9. CASE CheckErrors
  <2>1. Head(poll.plan) \in Devices
    BY <1>0, <1>9, HeadOfPlan DEF CheckErrors
  <2> QED
    BY <1>9, <2>1, OperateApartConcludes, ConcludeAimed DEF CheckErrors
<1>10. CASE RunCommands
  <2>1. CASE StartPolls(active, TRUE, "interval")
    BY <1>0, <1>10, <2>1, StartPollsAimed DEF RunCommands, Aimed
  <2> QED BY <1>10, <2>1 DEF RunCommands, Aimed
<1>11. CASE CheckIntervals
  <2>1. CASE StartPolls(active \ {"inv"}, FALSE, "apply")
    BY <1>0, <1>11, <2>1, StartPollsAimed DEF CheckIntervals, Aimed
  <2> QED BY <1>11, <2>1 DEF CheckIntervals, Aimed
<1>12. CASE SendAllData
  <2>1. CASE StartPolls(active, TRUE, "apply")
    BY <1>0, <1>12, <2>1, StartPollsAimed DEF SendAllData, Aimed
  <2> QED BY <1>12, <2>1 DEF SendAllData, Aimed
<1>13. CASE OperateSalt
  <2>1. /\ "salt" \in Devices /\ poll.plan # <<>>
        /\ "inv" \in ToSet(poll.plan) => poll.force
    BY <1>0, <1>13, HeadOfPlan DEF OperateSalt, Aimed
  <2>2. poll.force \in BOOLEAN
    BY <1>0 DEF Polls
  <2> QED
    BY <1>13, <2>1, <2>2, OperateApartConcludes, ConcludeAimed
    DEF OperateSalt
<1>14. CASE Operate
  <2>1. /\ poll.plan # <<>> /\ Head(poll.plan) \in active
        /\ Head(poll.plan) \in Devices
    BY <1>0, <1>14, HeadOfPlan DEF Operate, Aimed
  <2>2. uart' = Uart[Head(poll.plan)] /\ uart' # "down"
    BY <1>14, <2>1, UartStaysUp DEF Operate, Aimed
  <2>3. poll' = [poll EXCEPT !.left = Cids[Head(poll.plan)], !.failed = FALSE]
    BY <1>14 DEF Operate
  <2>4. EndOfCids(Head(poll.plan), Cids[Head(poll.plan)])
    BY <1>14, CidsOfPumps DEF Operate
  <2> QED BY <1>0, <1>14, <2>2, <2>3, <2>4 DEF Operate, Aimed, Polls
<1>15. CASE Read
  <2>1. Head(poll.plan) \in Devices
    BY <1>15, Names DEF Read, ReadAndAdd, Aimed
  <2>2. registers[Head(poll.plan)] \in Words(Head(poll.plan))
    BY <2>1, MemoryKind DEF Typed, Words
  <2>3. CASE pc' = "store"
    BY <1>0, <1>15, <2>2, <2>3 DEF Read, ReadAndAdd, Aimed, Polls
  <2>4. CASE UNCHANGED pc
    <3>1. EndOfCids(Head(poll.plan), Tail(poll.left))
      BY <1>15, EndsShrink DEF Read, ReadAndAdd, Aimed
    <3>2. poll' = [poll EXCEPT !.left = Tail(@), !.failed = TRUE]
      BY <1>15, <2>4 DEF Read, ReadAndAdd
    <3>3. poll'.plan = poll.plan /\ poll'.left = Tail(poll.left)
          /\ poll'.then = poll.then /\ poll'.force = poll.force
      BY <1>0, <3>2 DEF Polls
    <3> QED BY <1>15, <2>4, <3>1, <3>3 DEF Read, ReadAndAdd, Aimed
  <2> QED BY <1>15, <2>3, <2>4 DEF Read, ReadAndAdd
<1>16. CASE Store
  BY <1>0, <1>16, EndsShrink DEF Store, Aimed, Polls
<1>17. CASE Finish
  <2>1. /\ Head(poll.plan) \in Devices /\ poll.plan # <<>>
        /\ "inv" \in ToSet(poll.plan) => poll.force
    BY <1>17, Names DEF Finish, Aimed
  <2> QED BY <1>17, <2>1, ConcludeAimed DEF Finish
<1> QED
  BY <1>1, <1>2, <1>3, <1>4, <1>5, <1>6, <1>7, <1>8, <1>9, <1>10, <1>11,
     <1>12, <1>13, <1>14, <1>15, <1>16, <1>17 DEF Next, MainLoop

-----------------------------------------------------------------------------
(* Heard.                                                                  *)

LEMMA ConcludeNotes ==
  ASSUME NEW d, NEW failed, NEW packet, NEW force, NEW label,
         Conclude(d, failed, packet, force, label)
  PROVE  /\ upset \subseteq upset'
         /\ failed => "silent" \in upset'
         /\ pc' = "panic" \/ pc' = label
         /\ pc' = "panic" /\ label # "panic" =>
              failed \/ (packet = {} /\ force)
BY DEF Conclude, Publish, Note, If, SendsNothing

LEMMA UpsetGrows ==
  ASSUME Typed, Aimed, Next
  PROVE  upset \subseteq upset'
<1>0. poll.plan \in Seq(Devices) /\ poll.force \in BOOLEAN
  BY DEF Typed, Polls
<1>1. CASE MqttTask \/ Panel
  BY <1>1, OthersKeepMain
<1>2. CASE CheckErrors
  <2>1. Head(poll.plan) \in Devices
    BY <1>0, <1>2, HeadOfPlan DEF CheckErrors
  <2> QED
    BY <1>2, <2>1, OperateApartConcludes, ConcludeNotes DEF CheckErrors
<1>3. CASE OperateSalt
  <2>1. "salt" \in Devices
    BY <1>0, <1>3, HeadOfPlan DEF OperateSalt, Aimed
  <2> QED
    BY <1>0, <1>3, <2>1, OperateApartConcludes, ConcludeNotes
    DEF OperateSalt
<1>4. CASE Finish
  BY <1>4, ConcludeNotes DEF Finish
<1>5. CASE ReportNone
  BY <1>5 DEF ReportNone, Publish, Note
<1> QED
  BY <1>1, <1>2, <1>3, <1>4, <1>5
  DEF Next, MainLoop, ModbusInit, TestAgain, ModbusTest, TestsDone,
      ApplyItem, ApplyDone, RunCommands, CheckIntervals, SendAllData,
      Operate, Read, ReadAndAdd, Store, Note, ghosts

LEMMA HeardStep ==
  ASSUME Typed, Aimed, Heard, Next
  PROVE  Heard'
<1>0. /\ poll \in Polls /\ poll.plan \in Seq(Devices)
      /\ poll.force \in BOOLEAN /\ poll.failed \in BOOLEAN
      /\ upset \subseteq upset'
  BY UpsetGrows DEF Typed, Polls
<1>1. CASE MqttTask \/ Panel
  BY <1>0, <1>1, OthersKeepMain DEF mainSide, Heard
<1>2. CASE CheckErrors
  <2>1. Head(poll.plan) \in Devices
    BY <1>0, <1>2, HeadOfPlan DEF CheckErrors
  <2>2. PICK failed \in BOOLEAN, packet \in SUBSET Entries :
               Conclude(Head(poll.plan), failed, packet, FALSE, "errors")
    BY <1>2, <2>1, OperateApartConcludes DEF CheckErrors
  <2>3. /\ pc' = "panic" \/ pc' = "errors"
        /\ pc' = "panic" => "silent" \in upset'
    BY <2>2 DEF Conclude, SendsNothing, Publish, Note, If
  <2> QED BY <2>3 DEF Heard
<1>3. CASE OperateSalt
  <2>1. "salt" \in Devices
    BY <1>0, <1>3, HeadOfPlan DEF OperateSalt, Aimed
  <2>2. (IF Len(poll.plan) = 1 THEN poll.then ELSE "operate")
          \notin {"read", "store", "panic"}
    BY <1>0 DEF Polls
  <2> QED
    BY <1>0, <1>3, <2>1, <2>2, OperateApartConcludes, ConcludeNotes
    DEF OperateSalt, Heard
<1>4. CASE Finish
  <2>1. (IF Len(poll.plan) = 1 THEN poll.then ELSE "operate")
          \notin {"read", "store", "panic"}
    BY <1>0 DEF Polls
  <2> QED
    BY <1>0, <1>4, <2>1, ConcludeNotes DEF Finish, Heard
<1>5. CASE ReportNone \/ ModbusInit \/ TestAgain \/ ApplyDone \/ TestsDone
  BY <1>0, <1>5
  DEF ReportNone, ModbusInit, TestAgain, ApplyDone, TestsDone, StartTests,
      Heard, Polls
<1>6. CASE ModbusTest \/ ApplyItem
  BY <1>0, <1>6 DEF ModbusTest, ApplyItem, mainSide, Heard
<1>7. CASE RunCommands \/ CheckIntervals \/ SendAllData
  BY <1>0, <1>7
  DEF RunCommands, CheckIntervals, SendAllData, StartPolls, Heard
<1>8. CASE Operate
  BY <1>0, <1>8, CidsOfPumps DEF Operate, Heard, Polls
<1>9. CASE Read
  <2>1. CASE pc' = "store"
    BY <1>0, <1>9, <2>1 DEF Read, ReadAndAdd, Heard, Polls, Add, If
  <2>2. CASE UNCHANGED pc
    BY <1>0, <1>9, <2>2 DEF Read, ReadAndAdd, Heard, Polls, Note
  <2> QED BY <1>9, <2>1, <2>2 DEF Read, ReadAndAdd
<1>10. CASE Store
  BY <1>0, <1>10 DEF Store, Heard, Polls
<1> QED
  BY <1>1, <1>2, <1>3, <1>4, <1>5, <1>6, <1>7, <1>8, <1>9, <1>10
  DEF Next, MainLoop

-----------------------------------------------------------------------------
(* Steady.                                                                 *)

LEMMA SteadyStep ==
  ASSUME Typed, Aimed, Steady, Next
  PROVE  Steady'
<1> SUFFICES ASSUME "torn" \notin upset' PROVE Steady'
  BY DEF Steady
<1>0. /\ "torn" \notin upset /\ poll \in Polls
      /\ registers \in Memory(Values) /\ cache \in Memory(Values)
  BY UpsetGrows DEF Typed
<1>1. ASSUME NEW d \in Pumps, NEW f \in Fields(d), NEW v \in Values,
             ComputeItem(d, f, v)
      PROVE  Steady'
  <2>1. cache[d] \in [Fields(d) -> Values]
    BY <1>0, MemoryKind, Names
  <2>2. /\ parse'[1].dev = d /\ parse'[1].field = f
        /\ parse'[1].word = [cache[d] EXCEPT ![f] = v]
    BY <1>1 DEF ComputeItem
  <2> QED
    BY <1>0, <1>1, <2>1, <2>2 DEF ComputeItem, mainSide, Steady
<1>2. ASSUME NEW d \in Pumps, NEW word \in Words(d), WriteRaw(d, word)
      PROVE  Steady'
  BY <1>0, <1>2 DEF WriteRaw, mainSide, Steady
<1>3. CASE StoreItem
  BY <1>0, <1>3 DEF StoreItem, mainSide, Steady
<1>4. CASE Panel
  <2>0. PICK d \in Pumps : \E f \in Fields(d), v \in Values :
               ChangeLocally(d, f, v)
    BY <1>4 DEF Panel
  <2>1. PICK f \in Fields(d), v \in Values : ChangeLocally(d, f, v)
    BY <2>0
  <2>2. d \in Devices
    BY Names
  <2>3. ~Operating(d)
    BY <2>1 DEF ChangeLocally, Note, If
  <2>4. \A c \in Devices \ {d} : registers'[c] = registers[c]
    BY <1>0, <2>1, <2>2, FieldChanged DEF ChangeLocally
  <2>5. pc = "store" => Head(poll.plan) \in Devices \ {d}
    BY <2>3, Names DEF Operating, Aimed
  <2> QED
    BY <1>0, <2>1, <2>4, <2>5
    DEF ChangeLocally, cloudSide, mainSide, Steady
<1>5. CASE CheckErrors
  <2>1. poll.plan \in Seq(Devices) /\ Head(poll.plan) \in Devices
    BY <1>0, <1>5, HeadOfPlan DEF CheckErrors, Polls
  <2>2. PICK failed \in BOOLEAN, packet \in SUBSET Entries :
               Conclude(Head(poll.plan), failed, packet, FALSE, "errors")
    BY <1>5, <2>1, OperateApartConcludes DEF CheckErrors
  <2>3. pc' # "store" /\ UNCHANGED <<parse, cache>>
    BY <2>2, ConcludeNotes DEF Conclude, cloudSide
  <2> QED BY <1>0, <2>3 DEF Steady
<1>6. CASE OperateSalt \/ Finish
  <2>1. poll.plan \in Seq(Devices) /\ poll.force \in BOOLEAN
    BY <1>0 DEF Polls
  <2>2. OperateSalt => "salt" \in Devices
    BY <2>1, HeadOfPlan DEF OperateSalt, Aimed
  <2>3. (IF Len(poll.plan) = 1 THEN poll.then ELSE "operate") # "store"
    BY <1>0 DEF Polls
  <2>4. pc' # "store" /\ UNCHANGED <<parse, cache>>
    BY <1>6, <2>1, <2>2, <2>3, OperateApartConcludes, ConcludeNotes
    DEF OperateSalt, Finish, Conclude, cloudSide
  <2> QED BY <1>0, <2>4 DEF Steady
<1>7. CASE ReportNone \/ ModbusInit \/ TestAgain \/ ApplyDone \/ TestsDone
           \/ ModbusTest \/ ApplyItem \/ RunCommands \/ CheckIntervals
           \/ SendAllData \/ Operate
  <2>1. pc' # "store" /\ UNCHANGED <<parse, cache>>
    BY <1>0, <1>7
    DEF ReportNone, ModbusInit, TestAgain, ApplyDone, TestsDone, StartTests,
        ModbusTest, ApplyItem, RunCommands, CheckIntervals, SendAllData,
        StartPolls, Operate, mainSide, cloudSide, Polls
  <2> QED BY <1>0, <2>1 DEF Steady
<1>8. CASE Read
  <2>1. UNCHANGED <<parse, cache, registers>>
    BY <1>8 DEF Read, ReadAndAdd, cloudSide
  <2>2. CASE pc' = "store"
    <3>1. poll'.plan = poll.plan /\ poll'.word = registers[Head(poll.plan)]
      BY <1>0, <1>8, <2>2 DEF Read, ReadAndAdd, Polls
    <3> QED BY <1>0, <2>1, <3>1 DEF Steady
  <2>3. CASE UNCHANGED pc
    BY <1>0, <1>8, <2>1, <2>3 DEF Read, ReadAndAdd, Steady
  <2> QED BY <1>8, <2>2, <2>3 DEF Read, ReadAndAdd
<1>9. CASE Store
  <2>1. Head(poll.plan) \in Devices
    BY <1>9, Names DEF Store, Aimed
  <2>2. ~Concerns(parse, Head(poll.plan))
    BY <1>9 DEF Store, Note, If
  <2>3. parse # <<>> => parse[1].dev # Head(poll.plan)
                          /\ parse[1].dev \in Devices
    <3>1. CASE parse # <<>>
      <4>1. parse = <<parse[1]>> /\ parse[1].dev \in Devices
        BY <3>1, Names DEF Typed, ParseOK
      <4>2. 1 \in DOMAIN parse
        BY <4>1
      <4> QED BY <2>2, <4>1, <4>2 DEF Concerns
    <3> QED BY <3>1
  <2>4. poll.word \in [Fields(Head(poll.plan)) -> Values]
    BY <1>9 DEF Store, Aimed, Words
  <2>5. \A c \in Devices \ {Head(poll.plan)} : cache'[c] = cache[c]
    BY <1>0, <1>9, <2>1, <2>4, WordChanged DEF Store
  <2> QED
    BY <1>0, <1>9, <2>3, <2>5 DEF Store, cloudSide, Steady
<1> QED
  BY <1>1, <1>2, <1>3, <1>4, <1>5, <1>6, <1>7, <1>8, <1>9
  DEF Next, MqttTask, MainLoop

-----------------------------------------------------------------------------
(* Obeying.                                                                *)

LEMMA ObeyingStoreItem ==
  ASSUME Typed, Steady, Obeying, StoreItem,
         upset' \subseteq {"silent", "offline"}
  PROVE  Obeying'
<1> DEFINE d == parse[1].dev
           f == parse[1].field
           w == parse[1].word
           Items == UNION {ItemOf(c) : c \in Devices}
<1>1. /\ d \in Devices /\ f \in Fields(d) /\ w \in Words(d)
      /\ intent \in Memory(Values) /\ cache \in Memory(Values)
      /\ parse # <<>>
  BY Names DEF StoreItem, Typed, ParseOK
<1>2. /\ upset \subseteq {"silent", "offline"} /\ "torn" \notin upset
      /\ Len(queue) # QueueSize
  <2>1. upset \subseteq upset' /\ Dropped \subseteq upset'
    BY DEF StoreItem, Note
  <2>2. "spoiled" \notin Dropped
    BY <2>1
  <2> QED BY <2>1, <2>2 DEF Dropped, If
<1>3. /\ queue \in Seq(Items) /\ Len(queue) < QueueSize
      /\ [dev |-> d, word |-> w] \in Items
  <2>1. Len(queue) \in Nat /\ Len(queue) <= QueueSize /\ QueueSize \in Nat
    BY LenProperties, InstanceAssumption DEF Typed, CloudTyped
  <2> QED BY <1>1, <1>2, <2>1 DEF Typed, CloudTyped, ItemOf
<1>4. d \in fresh /\ \A g \in Fields(d) \ {f} : w[g] = intent[d][g]
  BY <1>1, <1>2 DEF Steady, Obeying
<1> HIDE DEF d, f, w, Items
<1>5. /\ intent' = [intent EXCEPT ![d][f] = w[f]]
      /\ cache' = [cache EXCEPT ![d] = w]
      /\ queue' = Append(queue, [dev |-> d, word |-> w])
      /\ parse' = <<>>
      /\ UNCHANGED <<fresh, registers>>
  BY <1>3 DEF StoreItem, Enqueue, d, f, w
<1>6. /\ intent'[d] = w
      /\ \A c \in Devices \ {d} : intent'[c] = intent[c]
  <2>1. intent[d] \in [Fields(d) -> Values] /\ w \in [Fields(d) -> Values]
    BY <1>1, MemoryKind DEF Words
  <2>2. [intent[d] EXCEPT ![f] = w[f]] = w
    BY <1>4, <2>1
  <2>3. intent' = [intent EXCEPT ![d] = [intent[d] EXCEPT ![f] = w[f]]]
    BY <1>1, <1>5 DEF Memory
  <2>4. intent' = [intent EXCEPT ![d] = w]
    BY <2>2, <2>3
  <2> QED BY <1>1, <2>1, <2>4, WordChanged
<1>7. /\ cache'[d] = w
      /\ \A c \in Devices \ {d} : cache'[c] = cache[c]
  BY <1>1, <1>5, WordChanged DEF Words
<1>8. \A c \in fresh : cache'[c] = intent'[c]
  BY <1>2, <1>6, <1>7 DEF Obeying, Typed
<1>9. /\ Len(queue) \in Nat
      /\ DOMAIN queue = 1..Len(queue)
      /\ DOMAIN queue' = 1..(Len(queue) + 1)
      /\ queue'[Len(queue) + 1] = [dev |-> d, word |-> w]
      /\ \A i \in 1..Len(queue) : queue'[i] = queue[i] /\ queue[i] \in Items
  BY <1>3, <1>5, AppendProperties, LenProperties, ElementOfSeq
<1>10. ASSUME NEW i \in DOMAIN queue',
              \A j \in DOMAIN queue' : j > i => queue'[j].dev # queue'[i].dev
       PROVE  queue'[i].word = intent'[queue'[i].dev]
  <2>1. CASE i = Len(queue) + 1
    BY <1>6, <1>9, <2>1
  <2>2. CASE i \in 1..Len(queue)
    <3>1. queue'[i].dev # d
      <4>1. Len(queue) + 1 \in DOMAIN queue' /\ Len(queue) + 1 > i
        BY <1>9, <2>2
      <4>2. queue'[Len(queue) + 1].dev = d
        BY <1>9
      <4> QED BY <1>10, <4>1, <4>2
    <3>2. queue[i].dev \in Devices
      BY <1>9, <2>2 DEF Items, ItemOf
    <3>3. \A j \in DOMAIN queue : j > i => queue[j].dev # queue[i].dev
      BY <1>9, <1>10, <2>2
    <3>4. queue[i].word = intent[queue[i].dev]
      BY <1>2, <1>9, <2>2, <3>3 DEF Obeying
    <3> QED BY <1>6, <1>9, <2>2, <3>1, <3>2, <3>4
  <2> QED BY <1>9, <2>1, <2>2
<1>11. ASSUME NEW c \in Devices, \A i \in DOMAIN queue' : queue'[i].dev # c
       PROVE  registers'[c] = intent'[c]
  <2>1. c # d
    <3>1. Len(queue) + 1 \in DOMAIN queue'
      BY <1>9
    <3> QED BY <1>9, <1>11, <3>1
  <2>2. \A i \in DOMAIN queue : queue[i].dev # c
    BY <1>9, <1>11
  <2> QED BY <1>2, <1>5, <1>6, <2>1, <2>2 DEF Obeying
<1> QED BY <1>5, <1>8, <1>10, <1>11 DEF Obeying

LEMMA ObeyingApplyItem ==
  ASSUME Typed, Obeying, ApplyItem, upset' \subseteq {"silent", "offline"}
  PROVE  Obeying'
<1> DEFINE d == Head(queue).dev
           w == Head(queue).word
           Items == UNION {ItemOf(c) : c \in Devices}
<1>1. /\ UNCHANGED <<cache, parse, fresh, intent>>
      /\ registers' = [registers EXCEPT ![d] = w]
      /\ upset \subseteq {"silent", "offline"}
      /\ queue' = Tail(queue) /\ queue # <<>>
  <2>1. CASE /\ registers' = [registers EXCEPT ![d] = w]
             /\ UNCHANGED upset
    BY <2>1 DEF ApplyItem, mainSide
  <2>2. CASE Note({IF uart = Uart[d] THEN "refused" ELSE "spoiled"})
    BY <2>2 DEF Note
  <2> QED BY <2>1, <2>2 DEF ApplyItem
<1>2. /\ queue \in Seq(Items)
      /\ Head(queue) = queue[1] /\ queue[1] \in Items
      /\ Len(queue) \in Nat /\ Len(queue) >= 1
      /\ DOMAIN queue = 1..Len(queue)
  <2>1. queue \in Seq(Items)
    BY DEF Typed, CloudTyped
  <2>2. Len(queue) \in Nat /\ Len(queue) >= 1 /\ DOMAIN queue = 1..Len(queue)
    BY <1>1, <2>1, EmptySeq, LenProperties
  <2> QED BY <1>1, <2>1, <2>2, HeadTailProperties, ElementOfSeq
<1>3. /\ DOMAIN queue' = 1..(Len(queue) - 1)
      /\ \A i \in DOMAIN queue' : i + 1 \in DOMAIN queue
                                    /\ queue'[i] = queue[i + 1]
  <2>1. /\ Tail(queue) \in Seq(Items)
        /\ Len(Tail(queue)) = Len(queue) - 1
        /\ \A i \in 1..Len(Tail(queue)) : Tail(queue)[i] = queue[i + 1]
    BY <1>1, <1>2, HeadTailProperties
  <2>2. DOMAIN Tail(queue) = 1..Len(Tail(queue))
    BY <2>1, LenProperties
  <2> QED BY <1>1, <1>2, <2>1, <2>2
<1>4. /\ d \in Devices /\ d = queue[1].dev
      /\ w \in [Fields(d) -> Values] /\ w = queue[1].word
  BY <1>2 DEF ItemOf, Words, Items
<1> HIDE DEF d, w, Items
<1>5. /\ registers'[d] = w
      /\ \A c \in Devices \ {d} : registers'[c] = registers[c]
  BY <1>1, <1>4, WordChanged DEF Typed
<1>6. ASSUME NEW i \in DOMAIN queue',
             \A j \in DOMAIN queue' : j > i => queue'[j].dev # queue'[i].dev
      PROVE  queue'[i].word = intent'[queue'[i].dev]
  <2>1. i \in Nat /\ i + 1 \in DOMAIN queue /\ queue'[i] = queue[i + 1]
    BY <1>2, <1>3
  <2>2. ASSUME NEW j \in DOMAIN queue, j > i + 1
        PROVE  queue[j].dev # queue[i + 1].dev
    <3>1. j - 1 \in DOMAIN queue' /\ j - 1 > i /\ j = (j - 1) + 1
      BY <1>2, <1>3, <2>1, <2>2
    <3>2. queue'[j - 1] = queue[j]
      BY <1>3, <3>1
    <3> QED BY <1>6, <2>1, <3>1, <3>2
  <2> QED BY <1>1, <2>1, <2>2 DEF Obeying
<1>7. ASSUME NEW c \in Devices, \A i \in DOMAIN queue' : queue'[i].dev # c
      PROVE  registers'[c] = intent'[c]
  <2>1. ASSUME NEW i \in DOMAIN queue, i > 1
        PROVE  queue[i].dev # c
    <3>1. i - 1 \in DOMAIN queue' /\ i = (i - 1) + 1
      BY <1>2, <1>3, <2>1
    <3>2. queue'[i - 1] = queue[i]
      BY <1>3, <3>1
    <3> QED BY <1>7, <3>1, <3>2
  <2>2. CASE c = d
    <3>1. 1 \in DOMAIN queue
      BY <1>2
    <3>2. queue[1].word = intent[queue[1].dev]
      BY <1>1, <1>4, <2>1, <2>2, <3>1 DEF Obeying
    <3> QED BY <1>1, <1>4, <1>5, <2>2, <3>2
  <2>3. CASE c # d
    <3>1. \A i \in DOMAIN queue : queue[i].dev # c
      BY <1>2, <1>4, <2>1, <2>3
    <3> QED BY <1>1, <1>5, <2>3, <3>1 DEF Obeying
  <2> QED BY <2>2, <2>3
<1> QED BY <1>1, <1>6, <1>7 DEF Obeying

LEMMA ObeyingStore ==
  ASSUME Typed, Aimed, Steady, Obeying, Store,
         upset' \subseteq {"silent", "offline"}
  PROVE  Obeying'
<1> DEFINE d == Head(poll.plan)
<1>1. /\ d \in Devices /\ poll.word \in [Fields(d) -> Values]
      /\ cache \in Memory(Values)
  BY Names DEF Store, Aimed, Words, Typed
<1>2. /\ upset \subseteq {"silent", "offline"} /\ "torn" \notin upset
      /\ ~Concerns(parse \o queue, d)
  BY DEF Store, Note, If
<1>3. poll.word = registers[d]
  BY <1>2 DEF Steady, Store
<1>4. \A i \in DOMAIN queue : queue[i].dev # d
  <2> DEFINE Items == UNION {ItemOf(c) : c \in Devices}
  <2>1. CASE parse = <<>>
    <3>1. parse \o queue = queue
      BY <2>1, ConcatEmptySeq DEF Typed, CloudTyped
    <3> QED BY <1>2, <3>1 DEF Concerns
  <2>2. CASE parse # <<>>
    <3> DEFINE All == Items \cup {parse[1]}
    <3>1. parse = <<parse[1]>> /\ queue \in Seq(Items)
      BY <2>2 DEF Typed, CloudTyped
    <3>2. parse \in Seq(All) /\ Len(parse) = 1
      <4>1. \A e \in All : <<e>> \in Seq(All) /\ Len(<<e>>) = 1
        OBVIOUS
      <4> QED BY <3>1, <4>1
    <3>3. queue \in Seq(All)
      BY <3>1, SeqMonotonic
    <3> HIDE DEF All, Items
    <3>4. /\ Len(queue) \in Nat /\ DOMAIN queue = 1..Len(queue)
          /\ parse \o queue \in Seq(All)
          /\ Len(parse \o queue) = 1 + Len(queue)
          /\ \A i \in 1..(1 + Len(queue)) : (parse \o queue)[i] =
               IF i <= 1 THEN parse[i] ELSE queue[i - 1]
      <4>1. Len(queue) \in Nat /\ DOMAIN queue = 1..Len(queue)
        BY <3>3, LenProperties
      <4>2. /\ parse \o queue \in Seq(All)
            /\ Len(parse \o queue) = Len(parse) + Len(queue)
            /\ \A i \in 1..(Len(parse) + Len(queue)) : (parse \o queue)[i] =
                 IF i <= Len(parse) THEN parse[i] ELSE queue[i - Len(parse)]
        BY <3>2, <3>3, ConcatProperties
      <4> QED BY <3>2, <4>1, <4>2
    <3>5. DOMAIN (parse \o queue) = 1..(1 + Len(queue))
      BY <3>4, LenProperties
    <3>6. ASSUME NEW i \in DOMAIN queue
          PROVE  queue[i].dev # d
      <4>1. i + 1 \in 1..(1 + Len(queue)) /\ ~(i + 1 <= 1) /\ (i + 1) - 1 = i
        BY <3>4
      <4>2. (parse \o queue)[i + 1] = queue[i]
        BY <3>4, <4>1
      <4> QED BY <1>2, <3>5, <4>1, <4>2 DEF Concerns
    <3> QED BY <3>6
  <2> QED BY <2>1, <2>2
<1>5. registers[d] = intent[d]
  BY <1>1, <1>2, <1>4 DEF Obeying
<1> HIDE DEF d
<1>6. /\ cache' = [cache EXCEPT ![d] = poll.word]
      /\ fresh' = fresh \cup {d}
      /\ UNCHANGED <<queue, parse, registers, intent>>
  BY DEF Store, cloudSide, d
<1>7. /\ cache'[d] = poll.word
      /\ \A c \in Devices \ {d} : cache'[c] = cache[c]
  BY <1>1, <1>6, WordChanged
<1> QED
  BY <1>2, <1>3, <1>5, <1>6, <1>7 DEF Obeying, Typed

LEMMA ObeyingStep ==
  ASSUME Typed, Aimed, Steady, Obeying, Next
  PROVE  Obeying'
<1> SUFFICES ASSUME upset' \subseteq {"silent", "offline"} PROVE Obeying'
  BY DEF Obeying
<1>0. upset \subseteq {"silent", "offline"} /\ poll \in Polls
  BY UpsetGrows DEF Typed
<1>1. ASSUME NEW d \in Pumps, NEW f \in Fields(d), NEW v \in Values,
             ComputeItem(d, f, v)
      PROVE  Obeying'
  <2>1. d \in fresh /\ parse'[1].dev = d
    BY <1>1 DEF ComputeItem, Note, If
  <2> QED
    BY <1>0, <1>1, <2>1 DEF ComputeItem, Obeying
<1>2. ASSUME NEW d \in Pumps, NEW word \in Words(d), WriteRaw(d, word)
      PROVE  Obeying'
  BY <1>2 DEF WriteRaw, Note
<1>3. CASE StoreItem
  BY <1>3, ObeyingStoreItem
<1>4. CASE Panel
  BY <1>4 DEF Panel, ChangeLocally, Note
<1>5. CASE ApplyItem
  BY <1>5, ObeyingApplyItem
<1>6. CASE Store
  BY <1>6, ObeyingStore
<1>7. CASE CheckErrors \/ OperateSalt \/ Finish
  <2>1. UNCHANGED <<registers, cache, queue, parse, fresh, intent>>
    BY <1>7
    DEF CheckErrors, OperateSalt, OperateApart, Finish, Conclude, cloudSide
  <2> QED BY <1>0, <2>1 DEF Obeying
<1>8. CASE ReportNone \/ ModbusInit \/ TestAgain \/ ApplyDone \/ TestsDone
           \/ ModbusTest \/ RunCommands \/ CheckIntervals
           \/ SendAllData \/ Operate \/ Read
  <2>1. UNCHANGED <<registers, cache, queue, parse, fresh, intent>>
    BY <1>8
    DEF ReportNone, ModbusInit, TestAgain, ApplyDone, TestsDone, ModbusTest,
        RunCommands, CheckIntervals, SendAllData, Operate, Read, ReadAndAdd,
        ghosts, cloudSide
  <2> QED BY <1>0, <2>1 DEF Obeying
<1> QED
  BY <1>1, <1>2, <1>3, <1>4, <1>5, <1>6, <1>7, <1>8
  DEF Next, MqttTask, MainLoop

-----------------------------------------------------------------------------
(* Knowing.                                                                *)

LEMMA KnowingApart ==
  ASSUME Knowing, upset' \cap {"silent", "offline", "torn"} = {},
         upset \subseteq upset', UNCHANGED cache,
         \A d \in Devices : \A f \in Fields(d) : view'[d][f] = view[d][f],
         pc \notin {"read", "store"}, pc' \notin {"read", "store"}
  PROVE  Knowing'
BY DEF Knowing, Operating, Known

(* A publication of errors, or of data the cloud may not write, tells it   *)
(* nothing of what it may.                                                 *)
LEMMA NothingTold ==
  ASSUME NEW packet \in SUBSET Entries, NEW happened \in SUBSET Upsets,
         \A e \in packet : e.field \in {"errors", "data"},
         Typed, "offline" \notin upset', Publish(packet, happened)
  PROVE  \A d \in Devices : \A f \in Fields(d) : view'[d][f] = view[d][f]
<1>1. view \in Memory(Values \cup {Unknown}) /\ upset \subseteq Upsets
  BY DEF Typed
<1>2. \A d \in Devices : \A f \in Fields(d) : f \notin {"errors", "data"}
  BY Names DEF FieldNames
<1>3. \A d \in Devices : \A f \in Fields(d) :
        \/ /\ \A e \in packet : e.dev = d => e.field # f
           /\ view'[d][f] = view[d][f]
        \/ \E e \in packet : /\ e.dev = d /\ e.field = f
                             /\ view'[d][f] = e.value
  BY <1>1, Published
<1> QED BY <1>2, <1>3

LEMMA OperateApartTellsNothing ==
  ASSUME Typed, NEW d \in Devices, NEW force, NEW label,
         "offline" \notin upset', OperateApart(d, force, label)
  PROVE  \A c \in Devices : \A f \in Fields(c) : view'[c][f] = view[c][f]
<1>1. PICK failed \in BOOLEAN, some \in BOOLEAN :
        Conclude(d, failed, Add({}, [dev |-> d, field |-> "data"], some),
                 force, label)
  BY DEF OperateApart, SomeFail
<1> DEFINE sent == Add(Add({}, [dev |-> d, field |-> "data"], some),
                       [dev |-> d, field |-> "errors"],
                       failed /\ ~hadError[d])
<1>2. /\ sent \in SUBSET Entries
      /\ \A e \in sent : e.field \in {"errors", "data"}
  BY DEF Add, If, Entries
<1>3. If(failed, "silent") \in SUBSET Upsets
  BY DEF If, Upsets, FaultKinds
<1>4. Publish(sent, If(failed, "silent"))
  BY <1>1 DEF Conclude
<1> HIDE DEF sent
<1> QED BY <1>2, <1>3, <1>4, NothingTold

LEMMA KnowingMqtt ==
  ASSUME Typed, Aimed, Steady, Knowing, MqttTask,
         upset' \cap {"silent", "offline", "torn"} = {}
  PROVE  Knowing'
<1>0. /\ upset \cap {"silent", "offline", "torn"} = {}
      /\ UNCHANGED <<pc, poll, registers>>
  BY OthersKeepMain
  DEF mainSide, MqttTask, ComputeItem, StoreItem, WriteRaw
<1>1. CASE UNCHANGED <<cache, view>>
  BY <1>0, <1>1
  DEF Knowing, Operating, LeftAfter, Told, Known, PacketOf, ToldOrKnown
<1>2. ASSUME NEW d \in Pumps, NEW word \in Words(d), WriteRaw(d, word)
      PROVE  Knowing'
  <2>1. d \in Devices /\ UNCHANGED cache
    BY <1>2, Names DEF WriteRaw
  <2>2. \A c \in Devices : \A f \in Fields(c) :
          view'[c][f] \in {Unknown, view[c][f]}
    BY <1>2, <2>1 DEF WriteRaw, Typed, Memory
  <2>3. ASSUME NEW c \in Devices
        PROVE  /\ Known(c, cache[c]) => Known(c, cache[c])'
               /\ PacketOf(c) => PacketOf(c)'
               /\ ToldOrKnown(c) => ToldOrKnown(c)'
    BY <1>0, <2>1, <2>2 DEF Known, PacketOf, ToldOrKnown, LeftAfter, Told
  <2>4. pc \in {"read", "store"} => Head(poll.plan) \in Devices
    BY Names DEF Aimed
  <2> QED BY <1>0, <2>1, <2>3, <2>4 DEF Knowing, Operating
<1>3. CASE StoreItem
  <2>a. PICK d \in Devices : d = parse[1].dev
    BY <1>3, Names DEF StoreItem, Typed, ParseOK
  <2>b. PICK f \in Fields(d) : f = parse[1].field
    BY <1>3, <2>a DEF StoreItem, Typed, ParseOK
  <2>c. PICK w \in [Fields(d) -> Values] : w = parse[1].word
    BY <1>3, <2>a DEF StoreItem, Typed, ParseOK, Words
  <2>1. cache \in Memory(Values) /\ view \in Memory(Values \cup {Unknown})
    BY DEF Typed
  <2>2. \A g \in Fields(d) \ {f} : w[g] = cache[d][g]
    BY <1>0, <1>3, <2>a, <2>b, <2>c DEF Steady, StoreItem
  <2>3. ~Operating(d)
    BY <1>3, <2>a DEF StoreItem, Note, If
  <2>4. /\ cache' = [cache EXCEPT ![d] = w]
        /\ view' = [view EXCEPT ![d][f] = w[f]]
    BY <1>3, <2>a, <2>b, <2>c DEF StoreItem
  <2>5. cache'[d] = w /\ \A c \in Devices \ {d} : cache'[c] = cache[c]
    BY <2>1, <2>4, WordChanged
  <2>6. /\ view'[d] = [view[d] EXCEPT ![f] = w[f]]
        /\ \A c \in Devices \ {d} : view'[c] = view[c]
    BY <2>1, <2>4 DEF Memory
  <2>7. Known(d, cache[d])'
    <3>1. \A g \in Fields(d) : view[d][g] \in {Unknown, cache[d][g]}
      BY <1>0, <2>1, <2>3 DEF Knowing, Known
    <3>2. view[d] \in [Fields(d) -> Values \cup {Unknown}]
      BY <2>1, MemoryKind
    <3> QED BY <2>1, <2>2, <2>5, <2>6, <3>1, <3>2 DEF Known
  <2>8. pc \in {"read", "store"} => Head(poll.plan) \in Devices \ {d}
    BY <2>3, Names DEF Operating, Aimed
  <2>9. ASSUME NEW c \in Devices \ {d}
        PROVE  /\ Known(c, cache[c]) => Known(c, cache[c])'
               /\ PacketOf(c) => PacketOf(c)'
               /\ ToldOrKnown(c) => ToldOrKnown(c)'
    BY <1>0, <2>5, <2>6 DEF Known, PacketOf, ToldOrKnown, LeftAfter, Told
  <2> QED BY <1>0, <2>5, <2>7, <2>8, <2>9 DEF Knowing, Operating
<1> QED BY <1>1, <1>2, <1>3 DEF MqttTask, ComputeItem

LEMMA KnowingPanel ==
  ASSUME Typed, Aimed, Knowing, Panel,
         upset' \cap {"silent", "offline", "torn"} = {}
  PROVE  Knowing'
<1>0. PICK d \in Pumps : \E f \in Fields(d), v \in Values :
             ChangeLocally(d, f, v)
  BY DEF Panel
<1>1. PICK f \in Fields(d), v \in Values : ChangeLocally(d, f, v)
  BY <1>0
<1>2. /\ d \in Devices /\ registers \in Memory(Values)
      /\ upset \cap {"silent", "offline", "torn"} = {}
      /\ UNCHANGED <<pc, poll, cache, view>>
  BY <1>1, Names DEF ChangeLocally, Note, mainSide, Typed
<1>3. ~Operating(d)
  BY <1>1 DEF ChangeLocally, Note, If
<1>4. \A c \in Devices \ {d} : registers'[c] = registers[c]
  BY <1>1, <1>2, FieldChanged DEF ChangeLocally
<1>5. pc \in {"read", "store"} => Head(poll.plan) \in Devices \ {d}
  BY <1>3, Names DEF Operating, Aimed
<1>6. ASSUME NEW c \in Devices \ {d}
      PROVE  /\ PacketOf(c) => PacketOf(c)'
             /\ ToldOrKnown(c) => ToldOrKnown(c)'
  BY <1>2, <1>4 DEF PacketOf, ToldOrKnown, LeftAfter, Told
<1> QED BY <1>2, <1>4, <1>5, <1>6 DEF Knowing, Operating, Known

LEMMA KnowingOperate ==
  ASSUME Typed, Aimed, Knowing, Operate, upset' \subseteq Upsets
  PROVE  Knowing'
<1>1. PICK d \in Devices : d = Head(poll.plan)
  BY Names DEF Operate
<1>2. /\ UNCHANGED <<registers, cache, view, upset>>
      /\ pc = "operate" /\ pc' = "read"
      /\ poll \in Polls /\ poll.packet = {}
      /\ poll' = [poll EXCEPT !.left = Cids[d], !.failed = FALSE]
  BY <1>1 DEF Operate, ghosts, Aimed, Typed
<1>3. /\ poll'.plan = poll.plan /\ poll'.left = Cids[d]
      /\ poll'.packet = {}
  BY <1>2 DEF Polls
<1>4. ToSet(Cids[d]) = Fields(d)
  BY <1>1, CidsOfPumps DEF Operate
<1>5. PacketOf(d)' /\ ToldOrKnown(d)'
  BY <1>2, <1>3, <1>4 DEF PacketOf, ToldOrKnown, LeftAfter
<1>6. \A c \in Devices : Known(c, cache[c]) => Known(c, cache[c])'
  BY <1>2 DEF Known
<1> QED BY <1>1, <1>2, <1>3, <1>5, <1>6 DEF Knowing, Operating

LEMMA KnowingRead ==
  ASSUME Typed, Aimed, Knowing, Read,
         upset' \cap {"silent", "offline", "torn"} = {}
  PROVE  Knowing'
<1>1. PICK d \in Pumps : d = Head(poll.plan)
  BY DEF Read, ReadAndAdd, Aimed
<1>a. PICK f \in Fields(d) : f = Head(poll.left)
  BY <1>1, EndsShrink DEF Read, ReadAndAdd, Aimed
<1>2. /\ f \in FieldNames /\ d \in Devices
      /\ poll.left # <<>> /\ poll.left \in Seq(FieldNames)
      /\ EndOfCids(d, poll.left)
  BY <1>1, Names DEF Read, ReadAndAdd, Aimed, Typed, Polls
<1> DEFINE entry == [dev |-> d, field |-> f, value |-> registers[d][f]]
           wanted == Changed \/ poll.force
<1>3. poll' = [poll EXCEPT !.word = registers[d],
                           !.packet = Add(@, entry, wanted)]
      /\ pc = "read" /\ pc' = "store"
      /\ UNCHANGED <<upset, registers, cache, view>>
  BY <1>1, <1>a DEF Read, ReadAndAdd, Note
<1>4. /\ poll'.plan = poll.plan /\ poll'.left = poll.left
      /\ poll'.packet = poll.packet \cup If(wanted, entry)
      /\ poll.force \in BOOLEAN
  BY <1>3 DEF Typed, Polls, Add
<1>5. /\ \A c \in Devices : ~Operating(c) => Known(c, cache[c])
      /\ PacketOf(d) /\ ToldOrKnown(d)
      /\ IF poll.left = Cids[d] THEN Known(d, cache[d])
                                ELSE cache[d] = registers[d]
  BY <1>1, <1>3 DEF Knowing
<1>6. PacketOf(d)'
  <2>1. \A e \in If(wanted, entry) : e = entry
    BY DEF If
  <2> HIDE DEF wanted
  <2> QED BY <1>2, <1>3, <1>4, <1>5, <2>1 DEF PacketOf
<1>7. Told(d, f)' \/ view[d][f] \in {Unknown, registers[d][f]}
  <2>1. CASE wanted
    <3>1. entry \in poll'.packet
      BY <1>4, <2>1 DEF If
    <3> QED BY <3>1 DEF Told
  <2>2. CASE ~wanted
    <3>1. cache[d] = registers[d] /\ ~poll.force
      BY <1>1, <2>2 DEF Changed
    <3>2. poll.plan # <<>> /\ poll.plan \in Seq(Devices)
      BY <1>3 DEF Aimed, Typed, Polls
    <3>3. d \in ToSet(poll.plan)
      BY <1>1, <3>2, HeadOfPlan
    <3>4. d # "inv"
      BY <1>3, <3>1, <3>3 DEF Aimed
    <3>5. poll.left = Cids[d]
      BY <1>2, <3>4 DEF EndOfCids, Cids
    <3> QED BY <1>2, <1>5, <3>1, <3>5 DEF Known
  <2> QED BY <2>1, <2>2
<1>8. ToldOrKnown(d)'
  <2>1. ASSUME NEW g \in Fields(d) \ ToSet(Tail(poll.left)), g # f
        PROVE  g \notin ToSet(poll.left)
    <3>1. ToSet(poll.left) \subseteq {f} \cup ToSet(Tail(poll.left))
      BY <1>2, <1>a, SetOfPlan
    <3> QED BY <2>1, <3>1
  <2>2. \A g : Told(d, g) => Told(d, g)'
    BY <1>4 DEF Told
  <2>3. LeftAfter' = Tail(poll.left) /\ LeftAfter = poll.left
    BY <1>3, <1>4 DEF LeftAfter
  <2> QED BY <1>3, <1>5, <1>7, <2>1, <2>2, <2>3 DEF ToldOrKnown
<1>9. \A c \in Devices : Known(c, cache[c]) => Known(c, cache[c])'
  BY <1>3 DEF Known
<1>10. IF poll'.left = Cids[d] THEN Known(d, cache[d])'
                              ELSE cache'[d] = registers'[d]
  BY <1>2, <1>3, <1>4, <1>5, <1>9
<1>11. \A c \in Devices : ~Operating(c)' => Known(c, cache[c])'
  BY <1>3, <1>4, <1>5, <1>9 DEF Operating
<1>12. Head(poll'.plan) = d
  BY <1>1, <1>4
<1> HIDE DEF entry, wanted
<1> QED
  BY <1>6, <1>8, <1>10, <1>11, <1>12 DEF Knowing

LEMMA KnowingStore ==
  ASSUME Typed, Aimed, Steady, Knowing, Store,
         upset' \cap {"silent", "offline", "torn"} = {}
  PROVE  Knowing'
<1>1. PICK d \in Pumps : d = Head(poll.plan)
  BY DEF Store, Aimed
<1>2. /\ d \in Devices /\ poll.word \in [Fields(d) -> Values]
      /\ poll.left # <<>> /\ poll.left \in Seq(FieldNames)
      /\ EndOfCids(d, poll.left)
      /\ cache \in Memory(Values)
  BY <1>1, Names DEF Store, Aimed, Words, Typed, Polls
<1>3. /\ upset \cap {"silent", "offline", "torn"} = {}
      /\ pc = "store" /\ pc' = "read"
      /\ cache' = [cache EXCEPT ![d] = poll.word]
      /\ poll' = [poll EXCEPT !.left = Tail(@), !.word = <<>>]
      /\ UNCHANGED <<registers, view>>
  BY <1>1 DEF Store, Note
<1>4. /\ poll'.plan = poll.plan /\ poll'.left = Tail(poll.left)
      /\ poll'.packet = poll.packet
  BY <1>3 DEF Typed, Polls
<1>5. poll.word = registers[d]
  BY <1>1, <1>3 DEF Steady
<1>6. /\ cache'[d] = registers[d]
      /\ \A c \in Devices \ {d} : cache'[c] = cache[c]
  BY <1>2, <1>3, <1>5, WordChanged
<1>7. /\ \A c \in Devices : ~Operating(c) => Known(c, cache[c])
      /\ PacketOf(d) /\ ToldOrKnown(d)
  BY <1>1, <1>3 DEF Knowing
<1>8. PacketOf(d)' /\ ToldOrKnown(d)'
  BY <1>3, <1>4, <1>7 DEF PacketOf, ToldOrKnown, LeftAfter, Told
<1>9. Tail(poll.left) # Cids[d]
  BY <1>1, <1>2, TailOfCids
<1>10. \A c \in Devices \ {d} : Known(c, cache[c]) => Known(c, cache[c])'
  BY <1>3, <1>6 DEF Known
<1> QED
  BY <1>1, <1>3, <1>4, <1>6, <1>7, <1>8, <1>9, <1>10 DEF Knowing, Operating

LEMMA KnowingFinish ==
  ASSUME Typed, Aimed, Knowing, Finish,
         upset' \cap {"silent", "offline", "torn"} = {},
         upset \subseteq upset'
  PROVE  Knowing'
<1>1. PICK d \in Pumps : d = Head(poll.plan)
  BY DEF Finish, Aimed
<1> DEFINE error == [dev |-> d, field |-> "errors"]
           sent == Add(poll.packet, error, poll.failed /\ ~hadError[d])
<1>2. /\ d \in Devices /\ poll \in Polls
      /\ upset \cap {"silent", "offline", "torn"} = {}
      /\ pc = "read" /\ poll.left = <<>>
      /\ UNCHANGED <<registers, cache>>
      /\ Publish(sent, If(poll.failed, "silent"))
      /\ view \in Memory(Values \cup {Unknown}) /\ upset \subseteq Upsets
  BY <1>1, Names DEF Finish, Conclude, Typed
<1>3. pc' \notin {"read", "store"}
  BY <1>2 DEF Finish, Conclude, Polls
<1>4. /\ \A c \in Devices : ~Operating(c) => Known(c, cache[c])
      /\ PacketOf(d) /\ ToldOrKnown(d)
      /\ poll.left # Cids[d] => cache[d] = registers[d]
  BY <1>1, <1>2 DEF Knowing
<1>5. cache[d] = registers[d]
  BY <1>2, <1>4, CidsOfPumps
<1>6. ToSet(LeftAfter) = {}
  BY <1>2, EmptyPlan DEF LeftAfter
<1>7. sent \in SUBSET Entries /\ If(poll.failed, "silent") \in SUBSET Upsets
  BY <1>2 DEF Add, If, Entries, Polls, Upsets, FaultKinds
<1>8. /\ poll.packet \subseteq sent
      /\ \A e \in sent : e \in poll.packet \/ e.field = "errors"
  BY DEF Add, If
<1> DEFINE happened == If(poll.failed, "silent")
<1> HIDE DEF sent, happened
<1>13. /\ sent \in SUBSET Entries /\ happened \in SUBSET Upsets
       /\ Publish(sent, happened)
  BY <1>2, <1>7 DEF happened
<1>9. \A c \in Devices : \A f \in Fields(c) :
        \/ /\ \A e \in sent : e.dev = c => e.field # f
           /\ view'[c][f] = view[c][f]
        \/ \E e \in sent : /\ e.dev = c /\ e.field = f
                           /\ view'[c][f] = e.value
  BY <1>2, <1>13, Published
<1>10. \A c \in Devices : \A f \in Fields(c) : f \in FieldNames /\ f # "errors"
  BY Names DEF FieldNames
<1>11. ASSUME NEW c \in Devices, c # d
       PROVE  Known(c, cache[c])'
  <2>1. \A f \in Fields(c) : view'[c][f] = view[c][f]
    BY <1>4, <1>8, <1>9, <1>10, <1>11 DEF PacketOf
  <2>2. Known(c, cache[c])
    BY <1>1, <1>4, <1>11 DEF Operating
  <2> QED BY <1>2, <2>1, <2>2 DEF Known
<1>12. Known(d, cache[d])'
  <2>1. ASSUME NEW f \in Fields(d)
        PROVE  view'[d][f] \in {Unknown, registers[d][f]}
    <3>1. CASE /\ \A e \in sent : e.dev = d => e.field # f
               /\ view'[d][f] = view[d][f]
      <4>1. ~Told(d, f)
        BY <1>8, <3>1 DEF Told
      <4> QED BY <1>4, <1>6, <3>1, <4>1 DEF ToldOrKnown
    <3>2. ASSUME NEW e \in sent, e.dev = d, e.field = f,
                 view'[d][f] = e.value
          PROVE  view'[d][f] = registers[d][f]
      BY <1>2, <1>4, <1>8, <1>10, <3>2 DEF PacketOf
    <3> QED BY <1>2, <1>9, <3>1, <3>2
  <2> QED BY <1>2, <1>5, <2>1 DEF Known
<1> QED BY <1>3, <1>11, <1>12 DEF Knowing

LEMMA KnowingStep ==
  ASSUME Typed, Aimed, Steady, Knowing, Next
  PROVE  Knowing'
<1> SUFFICES ASSUME upset' \cap {"silent", "offline", "torn"} = {}
             PROVE  Knowing'
  BY DEF Knowing
<1>0. /\ upset \subseteq upset' /\ poll \in Polls
      /\ poll.plan \in Seq(Devices)
  BY UpsetGrows DEF Typed, Polls
<1>1. CASE MqttTask
  BY <1>1, KnowingMqtt
<1>2. CASE Panel
  BY <1>2, KnowingPanel
<1>3. CASE Operate
  <2>1. upset' \subseteq Upsets
    BY <1>3 DEF Operate, ghosts, Typed
  <2> QED BY <1>3, <2>1, KnowingOperate
<1>4. CASE Read
  BY <1>4, KnowingRead
<1>5. CASE Store
  BY <1>5, KnowingStore
<1>6. CASE Finish
  BY <1>0, <1>6, KnowingFinish
<1>7. CASE ReportNone
  <2> DEFINE packet == {[dev |-> d, field |-> "errors"] : d \in Pumps}
  <2>1. packet \in SUBSET Entries /\ {} \in SUBSET Upsets
        /\ \A e \in packet : e.field \in {"errors", "data"}
    BY Names DEF Entries
  <2>2. Publish(packet, {})
    BY <1>7 DEF ReportNone
  <2> HIDE DEF packet
  <2>3. \A d \in Devices : \A f \in Fields(d) : view'[d][f] = view[d][f]
    BY <2>1, <2>2, NothingTold
  <2> QED BY <1>0, <1>7, <2>3, KnowingApart DEF ReportNone
<1>8. CASE CheckErrors
  <2>1. Head(poll.plan) \in Devices
    BY <1>0, <1>8, HeadOfPlan DEF CheckErrors
  <2>2. \A d \in Devices : \A f \in Fields(d) : view'[d][f] = view[d][f]
    BY <1>8, <2>1, OperateApartTellsNothing DEF CheckErrors
  <2>3. /\ pc \notin {"read", "store"} /\ pc' \notin {"read", "store"}
        /\ UNCHANGED cache
    BY <1>8 DEF CheckErrors, OperateApart, Conclude
  <2> QED BY <1>0, <2>2, <2>3, KnowingApart
<1>9. CASE OperateSalt
  <2>1. "salt" \in Devices
    BY <1>0, <1>9, HeadOfPlan DEF OperateSalt, Aimed
  <2>2. \A d \in Devices : \A f \in Fields(d) : view'[d][f] = view[d][f]
    BY <1>9, <2>1, OperateApartTellsNothing DEF OperateSalt
  <2>3. /\ pc \notin {"read", "store"} /\ pc' \notin {"read", "store"}
        /\ UNCHANGED cache
    BY <1>0, <1>9 DEF OperateSalt, OperateApart, Conclude, Polls
  <2> QED BY <1>0, <2>2, <2>3, KnowingApart
<1>10. CASE ModbusInit \/ TestAgain \/ ApplyDone \/ TestsDone
            \/ ModbusTest \/ ApplyItem \/ RunCommands \/ CheckIntervals
            \/ SendAllData
  <2>1. /\ pc \notin {"read", "store"} /\ pc' \notin {"read", "store"}
        /\ UNCHANGED <<cache, view>>
    BY <1>0, <1>10
    DEF ModbusInit, TestAgain, ApplyDone, TestsDone, StartTests,
        ModbusTest, ApplyItem, RunCommands, CheckIntervals, SendAllData,
        StartPolls, mainSide, ghosts, Polls
  <2> QED BY <1>0, <2>1, KnowingApart
<1> QED
  BY <1>1, <1>2, <1>3, <1>4, <1>5, <1>6, <1>7, <1>8, <1>9, <1>10
  DEF Next, MainLoop

-----------------------------------------------------------------------------
(* The theorems.                                                           *)

LEMMA InitIInv == ASSUME Init PROVE IInv
<1>1. Aimed
  BY EmptyPlan DEF Init, Aimed, NoPoll
<1>2. Heard /\ Steady
  BY DEF Init, Heard, Steady
<1>3. Knowing
  BY DEF Init, Knowing, Known, Operating
<1>4. Obeying
  BY DEF Init, Obeying
<1> QED BY <1>1, <1>2, <1>3, <1>4, TypedInit DEF IInv

LEMMA NextIInv == ASSUME IInv, [Next]_vars PROVE IInv'
<1>1. CASE Next
  <2>1. Typed'
    BY <1>1, TypedMqtt, TypedPanel, TypedMain DEF Next, IInv
  <2> QED
    BY <1>1, <2>1, AimedStep, HeardStep, SteadyStep, KnowingStep, ObeyingStep
    DEF IInv
<1>2. CASE UNCHANGED vars
  <2> USE <1>2 DEF IInv, vars, cloudSide, mainSide, ghosts
  <2>1. Typed' BY DEF Typed, CloudTyped, ParseOK
  <2>2. Aimed' /\ Heard' /\ Steady' BY DEF Aimed, Heard, Steady
  <2>3. Knowing'
    BY DEF Knowing, Known, PacketOf, ToldOrKnown, LeftAfter, Told, Operating
  <2>4. Obeying' BY DEF Obeying
  <2> QED BY <2>1, <2>2, <2>3, <2>4
<1> QED BY <1>1, <1>2

(* The inductive invariant of the bridge.                                  *)
THEOREM Invariance == Spec => []IInv
<1> QED BY InitIInv, NextIInv, PTL DEF Spec

(* The cached words keep the shape of their registers, the queue its bound,*)
(* and an operate is one of a device that was found, with its UART settings*)
(* for as long as it lasts.                                                *)
THEOREM TypeCorrect == Spec => []TypeOK
<1>1. IInv => TypeOK
  BY MemoryKind
  DEF IInv, Typed, TypeOK, MainTyped, Polls, Aimed, Words
<1> QED BY <1>1, Invariance, PTL

(* Every field of every register has the value last asked for once the     *)
(* queue is drained, whatever reads fail and reports are lost.             *)
THEOREM CloudObeyedCorrect == Spec => []CloudObeyed
<1>1. ASSUME IInv PROVE CloudObeyed
  <2> SUFFICES ASSUME upset \subseteq {"silent", "offline"}, Drained
               PROVE  Obeyed
    BY DEF CloudObeyed
  <2>1. \A i \in DOMAIN queue : FALSE
    BY DEF Drained
  <2>2. \A d \in Devices : registers[d] = intent[d]
    BY <1>1, <2>1 DEF IInv, Obeying
  <2>3. registers \in Memory(Values) /\ intent \in Memory(Values)
    BY <1>1 DEF IInv, Typed
  <2> QED BY <2>2, <2>3, SameMemory DEF Obeyed
<1> QED BY <1>1, Invariance, PTL

(* Outside an operate, the cache holds what the cloud last asked for or    *)
(* was told, unless a report was lost or two tasks worked on one word.     *)
THEOREM CloudInformedCorrect == Spec => []CloudInformed
<1>1. IInv => CloudInformed
  BY DEF IInv, Knowing, Known, Operating, CloudInformed
<1> QED BY <1>1, Invariance, PTL

(* While the devices answer, no operate sends an empty packet.             *)
THEOREM AnswersPreventPanicCorrect == Spec => []AnswersPreventPanic
<1>1. IInv => AnswersPreventPanic
  BY DEF IInv, Heard, AnswersPreventPanic
<1> QED BY <1>1, Invariance, PTL
=============================================================================
