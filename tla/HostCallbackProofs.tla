------------------------- MODULE HostCallbackProofs -------------------------
(***************************************************************************)
(* Exactly-once delivery of host callbacks, for any finite set of launches *)
(* and any streams, in contexts that may be closed at any time.  The       *)
(* argument is about keys: Register gives every launch a key of its own,   *)
(* so an entry of the registry, a key in a stream's queue and a closure    *)
(* taken out of the registry each belong to one launch, and a launch has   *)
(* at most one of them at a time.                                          *)
(***************************************************************************)
EXTENDS HostCallback, FiniteSetTheorems, TLAPS

Drawn == {l \in Launches : key[l] # 0}

\* nextKey.Add gives every launch a key of its own.
KeysUnique ==
  /\ nextKey = Cardinality(Drawn)
  /\ \A l \in Launches : key[l] <= nextKey
  /\ \A l \in Launches : pc[l] = "start" => key[l] = 0
  /\ \A l \in Launches :
       pc[l] \in {"keyed", "enqueue", "unregister", "returned"} => key[l] # 0
  /\ \A l, m \in Launches : key[l] = key[m] /\ key[l] # 0 => l = m

\* A registry entry is under the key of its launch.
EntriesAtHome == \A k \in Keys : pending[k] # NoLaunch => key[pending[k]] = k

\* A queue holds keys of launches accepted on that stream, each once; the
\* closure being run came from the stream's own queue.
QueuesExact ==
  /\ accepted = {l \in Launches : pc[l] = "returned"}
  /\ \A s \in Streams : \A i \in DOMAIN queue[s] :
       \E l \in accepted : StreamOf[l] = s /\ key[l] = queue[s][i]
  /\ \A s \in Streams : \A i, j \in DOMAIN queue[s] :
       queue[s][i] = queue[s][j] => i = j
  /\ \A s \in Streams : firing[s] # NoLaunch => StreamOf[firing[s]] = s

\* The inductive invariant.
IInv == /\ TypeOK /\ KeysUnique /\ EntriesAtHome /\ QueuesExact
        /\ RegistryExact /\ ExactlyOnce

----------------------------------------------------------------------------
\* No launch has been made.
LEMMA InitInv == Init => IInv
<1> SUFFICES ASSUME Init PROVE IInv
  OBVIOUS
<1>1. Drawn = {} BY DEF Init, Drawn
<1>2. Cardinality(Drawn) = 0 BY <1>1, FS_EmptySet
<1>3. Cardinality(Launches) \in Nat BY HostCallbackAssumption, FS_CardinalityType
<1>4. TypeOK BY HostCallbackAssumption, <1>3 DEF Init, TypeOK, Keys
<1>5. KeysUnique BY <1>2 DEF Init, KeysUnique
<1>6. EntriesAtHome /\ QueuesExact BY DEF Init, EntriesAtHome, QueuesExact
<1>7. RegistryExact BY <1>4, HostCallbackAssumption DEF Init, RegistryExact, Waiting
<1>8. ExactlyOnce
  BY HostCallbackAssumption DEF Init, ExactlyOnce, Waiting, Firing
<1> QED BY <1>4, <1>5, <1>6, <1>7, <1>8 DEF IInv

\* What every action leaves alone: the launches are finitely many.
LEMMA KeysFinite == Cardinality(Launches) \in Nat /\ Keys = 1 .. Cardinality(Launches)
  BY HostCallbackAssumption, FS_CardinalityType DEF Keys

\* The next key is in range, because a launch that has none is left, and one
\* more launch has a key afterwards.
LEMMA NextKeyFits ==
  ASSUME IInv, NEW l \in Launches, DrawKey(l)
  PROVE  nextKey + 1 \in Keys /\ nextKey' = Cardinality(Drawn')
<1>1. key[l] = 0 BY DEF IInv, KeysUnique, DrawKey
<1>2. Drawn \subseteq Launches /\ l \notin Drawn BY <1>1 DEF Drawn
<1>3. IsFiniteSet(Drawn) BY <1>2, HostCallbackAssumption, FS_Subset
<1>4. Cardinality(Drawn) \in Nat BY <1>3, FS_CardinalityType
<1>5. Drawn' = Drawn \cup {l}
  <2>1. nextKey + 1 # 0 BY <1>4 DEF IInv, KeysUnique
  <2> QED BY <2>1 DEF Drawn, DrawKey, IInv, TypeOK
<1>6. Cardinality(Drawn') = Cardinality(Drawn) + 1 BY <1>2, <1>3, <1>5, FS_AddElement
<1>7. Cardinality(Drawn') <= Cardinality(Launches)
  <2>1. Drawn \cup {l} \in SUBSET Launches BY <1>2
  <2>2. Cardinality(Drawn \cup {l}) <= Cardinality(Launches)
    BY <2>1, HostCallbackAssumption, FS_Subset
  <2> QED BY <2>2, <1>5
<1> QED BY <1>4, <1>6, <1>7, KeysFinite DEF IInv, KeysUnique, DrawKey

\* Until it stores its closure, a launch changes nothing but its key.
LEMMA DrawKeyStep == ASSUME IInv, NEW l \in Launches, DrawKey(l) PROVE IInv'
<1> USE DEF DrawKey, Goto
<1>1. key[l] = 0 /\ nextKey \in Nat /\ Keys \subseteq Nat \ {0}
  BY KeysFinite DEF IInv, KeysUnique, TypeOK
<1>2. TypeOK'
  <2>1. nextKey + 1 \in Keys BY NextKeyFits
  <2> QED BY <2>1 DEF IInv, TypeOK, Keys
<1>0. \A m \in Launches : key[m] \in Nat BY KeysFinite DEF IInv, TypeOK
<1>3. KeysUnique'
  <2>1. nextKey' = Cardinality(Drawn') BY NextKeyFits
  <2>2. \A m \in Launches : key'[m] = IF m = l THEN nextKey + 1 ELSE key[m]
    BY DEF IInv, TypeOK
  <2>3. \A m \in Launches : pc'[m] = IF m = l THEN "keyed" ELSE pc[m]
    BY DEF IInv, TypeOK
  <2> QED BY <1>0, <1>1, <2>1, <2>2, <2>3 DEF IInv, KeysUnique
<1>4. EntriesAtHome'
  BY <1>1 DEF IInv, TypeOK, EntriesAtHome, RegistryExact, Waiting, Keys
<1>5. QueuesExact' BY DEF IInv, TypeOK, QueuesExact
<1>6. \A m \in Launches : Waiting(m)' <=> Waiting(m)
  <2> SUFFICES ASSUME NEW m \in Launches PROVE Waiting(m)' <=> Waiting(m)
    OBVIOUS
  <2> StreamOf[m] \in Streams BY HostCallbackAssumption
  <2>1. CASE m # l BY <2>1 DEF Waiting, IInv, TypeOK
  <2>2. CASE m = l
    <3>1. key'[l] = nextKey + 1 BY DEF IInv, TypeOK
    <3>2. \A i \in DOMAIN queue[StreamOf[l]] :
            queue[StreamOf[l]][i] # 0 /\ queue[StreamOf[l]][i] <= nextKey
      BY <2>2, <1>0, <1>1 DEF IInv, TypeOK, QueuesExact, KeysUnique
    <3> QED BY <1>0, <1>1, <2>2, <3>1, <3>2 DEF Waiting
  <2> QED BY <2>1, <2>2
<1>7. RegistryExact' BY <1>2, <1>6 DEF IInv, TypeOK, RegistryExact, Keys
<1>8. ExactlyOnce' BY <1>6 DEF IInv, TypeOK, ExactlyOnce, Firing
<1> QED BY <1>2, <1>3, <1>4, <1>5, <1>7, <1>8 DEF IInv

\* A launch waits for its callback only after the driver accepted it.
LEMMA WaitingAccepted ==
  ASSUME IInv, NEW l \in Launches, Waiting(l)
  PROVE  l \in accepted
<1> DEFINE s == StreamOf[l]
<1>1. s \in Streams BY HostCallbackAssumption
<1>2. PICK i \in DOMAIN queue[s] : queue[s][i] = key[l] BY DEF Waiting
<1>3. PICK m \in accepted : key[m] = queue[s][i] BY <1>1 DEF IInv, QueuesExact
<1>4. key[m] # 0 /\ m \in Launches BY <1>3 DEF IInv, QueuesExact, KeysUnique
<1> QED BY <1>2, <1>3, <1>4 DEF IInv, KeysUnique

\* Every key in a queue was accepted on that stream.
LEMMA QueueEntry ==
  ASSUME IInv, NEW s \in Streams, NEW i \in DOMAIN queue[s]
  PROVE  \E l \in accepted : StreamOf[l] = s /\ key[l] = queue[s][i]
  BY DEF IInv, QueuesExact

\* A closure being run has not run before and is not waiting.
LEMMA FiringOnly ==
  ASSUME IInv, NEW l \in Launches, Firing(l)
  PROVE  ran[l] = 0 /\ ~Waiting(l) /\ l \in accepted
<1>1. ran[l] \in Nat BY DEF IInv, TypeOK
<1>2. ran[l] + 1 + (IF Waiting(l) THEN 1 ELSE 0) = IF l \in accepted THEN 1 ELSE 0
  BY DEF IInv, ExactlyOnce
<1> QED BY <1>1, <1>2

\* A launch that returns early, or whose enqueue fails, only moves on.
LEMMA RefusedStep == ASSUME IInv, NEW l \in Launches, Refused(l) PROVE IInv'
<1> USE DEF Refused, Goto, IInv, TypeOK
<1>1. TypeOK' BY DEF Keys
<1>2. KeysUnique' BY DEF KeysUnique, Drawn
<1>3. EntriesAtHome' /\ QueuesExact' BY DEF EntriesAtHome, QueuesExact, Keys
<1>4. RegistryExact' BY <1>1 DEF RegistryExact, Waiting, Keys
<1>5. ExactlyOnce' BY DEF ExactlyOnce, Waiting, Firing
<1> QED BY <1>1, <1>2, <1>3, <1>4, <1>5

\* The driver refuses the host function.
LEMMA EnqueueFailsStep == ASSUME IInv, NEW l \in Launches, EnqueueFails(l) PROVE IInv'
<1> USE DEF EnqueueFails, Goto, IInv, TypeOK
<1>1. TypeOK' BY DEF Keys
<1>2. KeysUnique' BY DEF KeysUnique, Drawn
<1>3. EntriesAtHome' /\ QueuesExact' BY DEF EntriesAtHome, QueuesExact, Keys
<1>4. RegistryExact' BY <1>1 DEF RegistryExact, Waiting, Keys
<1>5. ExactlyOnce' BY DEF ExactlyOnce, Waiting, Firing
<1> QED BY <1>1, <1>2, <1>3, <1>4, <1>5

\* The closure is stored under a key that no other launch has.
LEMMA StoreStep == ASSUME IInv, NEW l \in Launches, Store(l) PROVE IInv'
<1> USE DEF Store, Goto, IInv, TypeOK
<1>1. key[l] \in Keys BY DEF KeysUnique
<1>2. TypeOK' BY <1>1 DEF Keys
<1>3. KeysUnique' BY DEF KeysUnique, Drawn
<1>4. EntriesAtHome' BY <1>1 DEF EntriesAtHome, Keys
<1>5. QueuesExact' BY DEF QueuesExact
<1>6. pending[key[l]] = NoLaunch
  <2> SUFFICES ASSUME pending[key[l]] # NoLaunch PROVE FALSE
    OBVIOUS
  <2>1. pending[key[l]] = l BY <1>1 DEF EntriesAtHome, KeysUnique
  <2>2. Waiting(l) BY <1>1, <2>1 DEF RegistryExact
  <2>3. l \in accepted BY <2>2, WaitingAccepted
  <2> QED BY <2>3 DEF QueuesExact
<1>7. RegistryExact'
  <2> SUFFICES ASSUME NEW m \in Launches
               PROVE  (\E k \in Keys : pending'[k] = m)
                        <=> pc'[m] \in {"enqueue", "unregister"} \/ Waiting(m)'
    BY <1>2 DEF RegistryExact, Keys
  <2>1. Waiting(m)' <=> Waiting(m) BY DEF Waiting
  <2>2. CASE m = l BY <1>1, <2>2
  <2>3. CASE m # l
    <3>1. (\E k \in Keys : pending'[k] = m) <=> (\E k \in Keys : pending[k] = m)
      BY <1>1, <1>6, <2>3, HostCallbackAssumption
    <3> QED BY <2>1, <2>3, <3>1 DEF RegistryExact
  <2> QED BY <2>2, <2>3
<1>8. ExactlyOnce' BY DEF ExactlyOnce, Waiting, Firing
<1> QED BY <1>2, <1>3, <1>4, <1>5, <1>7, <1>8

\* Unregister takes out the entry of its own launch.
LEMMA UnregisterStep == ASSUME IInv, NEW l \in Launches, Unregister(l) PROVE IInv'
<1> USE DEF Unregister, Goto, IInv, TypeOK
<1>1. key[l] \in Keys BY DEF KeysUnique
<1>2. TypeOK' BY <1>1 DEF Keys
<1>3. KeysUnique' BY DEF KeysUnique, Drawn
<1>4. EntriesAtHome' BY <1>1 DEF EntriesAtHome, Keys
<1>5. QueuesExact' BY DEF QueuesExact
<1>6. ~Waiting(l) BY WaitingAccepted DEF QueuesExact
<1>7. RegistryExact'
  <2> SUFFICES ASSUME NEW m \in Launches
               PROVE  (\E k \in Keys : pending'[k] = m)
                        <=> pc'[m] \in {"enqueue", "unregister"} \/ Waiting(m)'
    BY <1>2 DEF RegistryExact, Keys
  <2>1. Waiting(m)' <=> Waiting(m) BY DEF Waiting
  <2>2. CASE m = l
    <3>1. \A k \in Keys : pending'[k] # l
      BY <1>1, HostCallbackAssumption DEF EntriesAtHome
    <3> QED BY <1>6, <2>1, <2>2, <3>1
  <2>3. CASE m # l
    <3>1. (\E k \in Keys : pending'[k] = m) <=> (\E k \in Keys : pending[k] = m)
      BY <1>1, <2>3, HostCallbackAssumption DEF EntriesAtHome, KeysUnique
    <3> QED BY <2>1, <2>3, <3>1 DEF RegistryExact
  <2> QED BY <2>2, <2>3
<1>8. ExactlyOnce' BY DEF ExactlyOnce, Waiting, Firing
<1> QED BY <1>2, <1>3, <1>4, <1>5, <1>7, <1>8

\* An accepted key joins the end of its stream's queue, once.
LEMMA EnqueueStep == ASSUME IInv, NEW l \in Launches, Enqueue(l) PROVE IInv'
<1> USE DEF Enqueue, Goto, IInv, TypeOK
<1> DEFINE s == StreamOf[l]
<1>1. key[l] \in Keys /\ key[l] # 0 /\ s \in Streams
  BY HostCallbackAssumption DEF KeysUnique
<1>2. l \notin accepted /\ ~Waiting(l) BY WaitingAccepted DEF QueuesExact
<1>3. queue'[s] = Append(queue[s], key[l]) /\ queue[s] \in Seq(Keys) BY <1>1
<1>4. TypeOK' BY <1>1, <1>3 DEF Keys
<1>5. KeysUnique' BY DEF KeysUnique, Drawn
<1>6. EntriesAtHome' BY DEF EntriesAtHome, Keys
<1>7. /\ DOMAIN queue'[s] = 1 .. Len(queue[s]) + 1
      /\ DOMAIN queue[s] = 1 .. Len(queue[s]) /\ Len(queue[s]) \in Nat
      /\ \A i \in 1 .. Len(queue[s]) : queue'[s][i] = queue[s][i]
      /\ queue'[s][Len(queue[s]) + 1] = key[l]
  BY <1>1, <1>3
<1>8. \A t \in Streams : t # s => queue'[t] = queue[t] BY <1>1
<1>9. QueuesExact'
  <2>1. accepted' = {m \in Launches : pc'[m] = "returned"} BY DEF QueuesExact
  <2>2. ASSUME NEW t \in Streams, NEW i \in DOMAIN queue'[t]
        PROVE  \E m \in accepted' : StreamOf[m] = t /\ key'[m] = queue'[t][i]
    <3>1. CASE t # s BY <1>8, <2>2, <3>1 DEF QueuesExact
    <3>2. CASE t = s /\ i = Len(queue[s]) + 1 BY <1>7, <3>2
    <3>3. CASE t = s /\ i \in 1 .. Len(queue[s])
      <4>0. i \in DOMAIN queue[s] BY <1>7, <3>3
      <4>1. PICK m \in accepted : StreamOf[m] = s /\ key[m] = queue[s][i]
        BY <1>1, <4>0, QueueEntry
      <4> QED BY <1>7, <3>3, <4>1
    <3> QED BY <1>7, <2>2, <3>1, <3>2, <3>3
  <2>3. ASSUME NEW t \in Streams, NEW i \in DOMAIN queue'[t],
               NEW j \in DOMAIN queue'[t], queue'[t][i] = queue'[t][j]
        PROVE  i = j
    <3>1. CASE t # s BY <1>8, <2>3, <3>1 DEF QueuesExact
    <3>2. CASE t = s
      <4>1. \A n \in 1 .. Len(queue[s]) : queue[s][n] # key[l]
        BY <1>2, <1>7 DEF Waiting
      <4> QED BY <1>1, <1>7, <2>3, <3>2, <4>1 DEF QueuesExact
    <3> QED BY <3>1, <3>2
  <2> QED BY <2>1, <2>2, <2>3 DEF QueuesExact
<1>10. Waiting(l)'
  <2> DEFINE n == Len(queue[s]) + 1
  <2>1. n \in DOMAIN queue'[s] /\ queue'[s][n] = key'[l] BY <1>7
  <2> HIDE DEF n
  <2> QED BY <2>1 DEF Waiting
<1>11. ASSUME NEW m \in Launches, m # l PROVE Waiting(m)' <=> Waiting(m)
  <2>1. StreamOf[m] \in Streams BY HostCallbackAssumption
  <2>2. CASE StreamOf[m] # s BY <1>8, <2>1, <2>2 DEF Waiting
  <2>3. CASE StreamOf[m] = s
    <3>1. key[m] # key[l] BY <1>1, <1>11 DEF KeysUnique
    <3>2. Waiting(m) => Waiting(m)'
      <4> SUFFICES ASSUME Waiting(m) PROVE Waiting(m)'
        OBVIOUS
      <4>1. PICK i \in 1 .. Len(queue[s]) : queue[s][i] = key[m]
        BY <1>7, <2>3 DEF Waiting
      <4>2. i \in DOMAIN queue'[s] /\ queue'[s][i] = key'[m] BY <1>7, <4>1
      <4> QED BY <2>3, <4>2 DEF Waiting
    <3>3. Waiting(m)' => Waiting(m)
      <4> SUFFICES ASSUME Waiting(m)' PROVE Waiting(m)
        OBVIOUS
      <4>1. PICK i \in 1 .. Len(queue[s]) + 1 : queue'[s][i] = key[m]
        BY <1>7, <2>3 DEF Waiting
      <4>2. i \in DOMAIN queue[s] /\ queue[s][i] = key[m] BY <1>7, <3>1, <4>1
      <4> QED BY <2>3, <4>2 DEF Waiting
    <3> QED BY <3>2, <3>3
  <2> QED BY <2>2, <2>3
<1>12. RegistryExact'
  <2> SUFFICES ASSUME NEW m \in Launches
               PROVE  (\E k \in Keys : pending[k] = m)
                        <=> pc'[m] \in {"enqueue", "unregister"} \/ Waiting(m)'
    BY <1>4 DEF RegistryExact, Keys
  <2>1. CASE m = l BY <1>10, <2>1 DEF RegistryExact
  <2>2. CASE m # l BY <1>11, <2>2 DEF RegistryExact
  <2> QED BY <2>1, <2>2
<1>13. ExactlyOnce'
  <2> SUFFICES ASSUME NEW m \in Launches
               PROVE  ran[m] + (IF Firing(m) THEN 1 ELSE 0)
                             + (IF Waiting(m)' THEN 1 ELSE 0)
                        = IF m \in accepted' THEN 1 ELSE 0
    BY DEF ExactlyOnce, Firing
  <2>1. CASE m = l
    <3>1. ran[l] = 0 /\ ~Firing(l) BY <1>2 DEF ExactlyOnce
    <3> QED BY <1>10, <2>1, <3>1
  <2>2. CASE m # l BY <1>11, <2>2 DEF ExactlyOnce
  <2> QED BY <2>1, <2>2
<1> QED BY <1>4, <1>5, <1>6, <1>9, <1>12, <1>13

\* The key at the head of a queue is that of one launch, whose closure is
\* still in the registry; taking it out moves the launch from waiting to
\* firing.
LEMMA InvokeTakeStep == ASSUME IInv, NEW s \in Streams, InvokeTake(s) PROVE IInv'
<1> USE DEF InvokeTake, IInv, TypeOK
<1> DEFINE k == Head(queue[s])
<1>1. /\ queue[s] \in Seq(Keys) /\ Len(queue[s]) \in Nat \ {0}
      /\ DOMAIN queue[s] = 1 .. Len(queue[s])
      /\ k = queue[s][1] /\ k \in Keys
  OBVIOUS
<1>2. /\ queue'[s] = Tail(queue[s])
      /\ DOMAIN queue'[s] = 1 .. Len(queue[s]) - 1
      /\ \A i \in 1 .. Len(queue[s]) - 1 : queue'[s][i] = queue[s][i + 1]
  BY <1>1
<1>3. \A t \in Streams : t # s => queue'[t] = queue[t] OBVIOUS
<1>4. PICK m \in accepted : StreamOf[m] = s /\ key[m] = k
  <2>1. 1 \in DOMAIN queue[s] /\ queue[s][1] = k BY <1>1
  <2>2. \E l \in accepted : StreamOf[l] = s /\ key[l] = queue[s][1]
    BY <2>1 DEF QueuesExact
  <2> QED BY <2>1, <2>2
<1>5. m \in Launches /\ Waiting(m) BY <1>1, <1>4 DEF Waiting
<1>6. pending[k] = m
  <2>1. PICK n \in Keys : pending[n] = m BY <1>5 DEF RegistryExact
  <2>2. key[m] = n BY <1>5, <2>1, HostCallbackAssumption DEF EntriesAtHome
  <2> QED BY <1>4, <2>1, <2>2
<1>7. firing' = [firing EXCEPT ![s] = m] BY <1>6
<1>8. TypeOK'
  <2>1. queue'[s] \in Seq(Keys) BY <1>1, <1>2
  <2> QED BY <1>1, <1>5, <1>7, <2>1 DEF Keys
<1>9. KeysUnique' BY DEF KeysUnique, Drawn
<1>10. EntriesAtHome' BY <1>1 DEF EntriesAtHome, Keys
<1>11. QueuesExact'
  <2>1. accepted' = {l \in Launches : pc'[l] = "returned"} BY DEF QueuesExact
  <2>2. ASSUME NEW t \in Streams, NEW i \in DOMAIN queue'[t]
        PROVE  \E l \in accepted' : StreamOf[l] = t /\ key'[l] = queue'[t][i]
    <3>1. CASE t # s BY <1>3, <2>2, <3>1 DEF QueuesExact
    <3>2. CASE t = s
      <4>1. i + 1 \in DOMAIN queue[s] /\ queue'[s][i] = queue[s][i + 1]
        BY <1>1, <1>2, <2>2, <3>2
      <4> QED BY <3>2, <4>1 DEF QueuesExact
    <3> QED BY <3>1, <3>2
  <2>3. ASSUME NEW t \in Streams, NEW i \in DOMAIN queue'[t],
               NEW j \in DOMAIN queue'[t], queue'[t][i] = queue'[t][j]
        PROVE  i = j
    <3>1. CASE t # s BY <1>3, <2>3, <3>1 DEF QueuesExact
    <3>2. CASE t = s
      <4>1. /\ i + 1 \in DOMAIN queue[s] /\ queue'[s][i] = queue[s][i + 1]
            /\ j + 1 \in DOMAIN queue[s] /\ queue'[s][j] = queue[s][j + 1]
            /\ i \in Nat /\ j \in Nat
        BY <1>1, <1>2, <2>3, <3>2
      <4>2. i + 1 = j + 1 BY <2>3, <3>2, <4>1 DEF QueuesExact
      <4> QED BY <4>1, <4>2
    <3> QED BY <3>1, <3>2
  <2>4. ASSUME NEW t \in Streams, firing'[t] # NoLaunch
        PROVE  StreamOf[firing'[t]] = t
    BY <1>4, <1>7, <2>4 DEF QueuesExact
  <2> QED BY <2>1, <2>2, <2>3, <2>4 DEF QueuesExact
<1>12. ~Waiting(m)'
  <2>1. \A i \in 1 .. Len(queue[s]) - 1 : queue[s][i + 1] # k
    <3> SUFFICES ASSUME NEW i \in 1 .. Len(queue[s]) - 1, queue[s][i + 1] = queue[s][1]
                 PROVE  FALSE
      BY <1>1
    <3>1. i + 1 \in DOMAIN queue[s] /\ 1 \in DOMAIN queue[s] BY <1>1
    <3>2. i + 1 = 1 BY <3>1 DEF QueuesExact
    <3> QED BY <1>1, <3>2
  <2> QED BY <1>2, <1>4, <2>1 DEF Waiting
<1>13. ASSUME NEW l \in Launches, l # m PROVE Waiting(l)' <=> Waiting(l)
  <2>1. StreamOf[l] \in Streams BY HostCallbackAssumption
  <2>2. CASE StreamOf[l] # s BY <1>3, <2>1, <2>2 DEF Waiting
  <2>3. CASE StreamOf[l] = s
    <3>1. key[l] # k
      <4>1. pc[m] = "returned" BY <1>4 DEF QueuesExact
      <4>2. key[m] # 0 BY <1>5, <4>1 DEF KeysUnique
      <4> QED BY <1>4, <1>5, <1>13, <4>2 DEF KeysUnique
    <3>2. Waiting(l)' => Waiting(l)
      <4> SUFFICES ASSUME Waiting(l)' PROVE Waiting(l)
        OBVIOUS
      <4>1. PICK i \in 1 .. Len(queue[s]) - 1 : queue'[s][i] = key[l]
        BY <1>2, <2>3 DEF Waiting
      <4>2. i + 1 \in DOMAIN queue[s] /\ queue[s][i + 1] = key[l]
        BY <1>1, <1>2, <4>1
      <4> QED BY <2>3, <4>2 DEF Waiting
    <3>3. Waiting(l) => Waiting(l)'
      <4> SUFFICES ASSUME Waiting(l) PROVE Waiting(l)'
        OBVIOUS
      <4>1. PICK i \in 1 .. Len(queue[s]) : queue[s][i] = key[l]
        BY <1>1, <2>3 DEF Waiting
      <4>2. i # 1 BY <1>1, <3>1, <4>1
      <4>3. i - 1 \in 1 .. Len(queue[s]) - 1 /\ (i - 1) + 1 = i BY <1>1, <4>2
      <4>4. queue'[s][i - 1] = key[l] BY <1>2, <4>1, <4>3
      <4> QED BY <1>2, <2>3, <4>3, <4>4 DEF Waiting
    <3> QED BY <3>2, <3>3
  <2> QED BY <2>2, <2>3
<1>14. RegistryExact'
  <2> SUFFICES ASSUME NEW l \in Launches
               PROVE  (\E n \in Keys : pending'[n] = l)
                        <=> pc'[l] \in {"enqueue", "unregister"} \/ Waiting(l)'
    BY <1>8 DEF RegistryExact, Keys
  <2>1. CASE l = m
    <3>1. \A n \in Keys : pending'[n] # m
      BY <1>1, <1>4, <1>5, HostCallbackAssumption DEF EntriesAtHome
    <3>2. pc[m] = "returned" BY <1>4 DEF QueuesExact
    <3> QED BY <1>12, <2>1, <3>1, <3>2
  <2>2. CASE l # m
    <3>1. (\E n \in Keys : pending'[n] = l) <=> (\E n \in Keys : pending[n] = l)
      BY <1>1, <1>6, <2>2, HostCallbackAssumption
    <3> QED BY <1>13, <2>2, <3>1 DEF RegistryExact
  <2> QED BY <2>1, <2>2
<1>15. ExactlyOnce'
  <2> SUFFICES ASSUME NEW l \in Launches
               PROVE  ran[l] + (IF Firing(l)' THEN 1 ELSE 0)
                             + (IF Waiting(l)' THEN 1 ELSE 0)
                        = IF l \in accepted THEN 1 ELSE 0
    BY DEF ExactlyOnce
  <2>1. CASE l = m
    <3>1. ran[m] = 0 /\ ~Firing(m) BY <1>4, <1>5 DEF ExactlyOnce
    <3>2. Firing(m)' BY <1>7 DEF Firing
    <3> QED BY <1>4, <1>12, <2>1, <3>1, <3>2
  <2>2. CASE l # m
    <3>1. Firing(l)' <=> Firing(l)
      BY <1>7, <2>2, HostCallbackAssumption DEF Firing
    <3> QED BY <1>13, <2>2, <3>1 DEF ExactlyOnce
  <2> QED BY <2>1, <2>2
<1> QED BY <1>8, <1>9, <1>10, <1>11, <1>14, <1>15

\* The closure that was taken out is run, once.
LEMMA InvokeRunStep == ASSUME IInv, NEW s \in Streams, InvokeRun(s) PROVE IInv'
<1> USE DEF InvokeRun, IInv, TypeOK
<1>1. PICK m \in Launches : m = firing[s] OBVIOUS
<1>2. TypeOK' BY <1>1 DEF Keys
<1>3. KeysUnique' BY DEF KeysUnique, Drawn
<1>4. EntriesAtHome' BY DEF EntriesAtHome, Keys
<1>5. QueuesExact' BY DEF QueuesExact
<1>6. RegistryExact' BY <1>2 DEF RegistryExact, Waiting, Keys
<1>7. ExactlyOnce'
  <2> SUFFICES ASSUME NEW l \in Launches
               PROVE  ran'[l] + (IF Firing(l)' THEN 1 ELSE 0)
                              + (IF Waiting(l) THEN 1 ELSE 0)
                        = IF l \in accepted THEN 1 ELSE 0
    BY DEF ExactlyOnce, Waiting
  <2>1. CASE l = m
    <3>1. Firing(m) BY <1>1 DEF Firing
    <3>2. ~Firing(m)'
      <4> SUFFICES ASSUME NEW t \in Streams, firing'[t] = m PROVE FALSE
        BY DEF Firing
      <4>1. t # s BY <1>1, HostCallbackAssumption
      <4>2. firing[t] = m BY <4>1
      <4>3. StreamOf[m] = t /\ StreamOf[m] = s
        BY <1>1, <4>2, HostCallbackAssumption DEF QueuesExact
      <4> QED BY <4>1, <4>3
    <3>3. ran'[m] = ran[m] + 1 BY <1>1
    <3>4. ran[m] = 0 /\ ~Waiting(m) /\ m \in accepted BY <3>1, FiringOnly
    <3> QED BY <2>1, <3>2, <3>3, <3>4
  <2>2. CASE l # m
    <3>1. Firing(l)' <=> Firing(l)
      BY <1>1, <2>2, HostCallbackAssumption DEF Firing
    <3> QED BY <1>1, <2>2, <3>1 DEF ExactlyOnce
  <2> QED BY <2>1, <2>2
<1> QED BY <1>2, <1>3, <1>4, <1>5, <1>6, <1>7

\* Close touches neither queues nor registry.
LEMMA CloseContextStep == ASSUME IInv, NEW c \in Contexts, CloseContext(c) PROVE IInv'
<1> USE DEF CloseContext, IInv
<1>1. TypeOK' BY DEF TypeOK, Keys
<1>2. KeysUnique' /\ EntriesAtHome' /\ QueuesExact'
  BY DEF KeysUnique, Drawn, EntriesAtHome, QueuesExact, Keys
<1>3. RegistryExact' BY <1>1 DEF RegistryExact, Waiting, Keys
<1>4. ExactlyOnce' BY DEF ExactlyOnce, Waiting, Firing
<1> QED BY <1>1, <1>2, <1>3, <1>4

----------------------------------------------------------------------------
\* Every step of launches, driver threads and Close keeps the invariant.
LEMMA NextInv == IInv /\ [Next]_vars => IInv'
<1> SUFFICES ASSUME IInv, [Next]_vars PROVE IInv'
  OBVIOUS
<1>1. CASE UNCHANGED vars
  BY <1>1 DEF vars, IInv, TypeOK, KeysUnique, EntriesAtHome, QueuesExact,
              RegistryExact, ExactlyOnce, Drawn, Waiting, Firing, Keys
<1>2. ASSUME NEW l \in Launches, Launch(l) PROVE IInv'
  BY <1>2, RefusedStep, DrawKeyStep, StoreStep, EnqueueStep, EnqueueFailsStep,
     UnregisterStep DEF Launch
<1>3. ASSUME NEW s \in Streams, Driver(s) PROVE IInv'
  BY <1>3, InvokeTakeStep, InvokeRunStep DEF Driver
<1> QED BY <1>1, <1>2, <1>3, CloseContextStep DEF Next

\* The invariant holds throughout.
THEOREM KeysDeliver == Spec => []IInv
  BY InitInv, NextInv, PTL DEF Spec

\* A closure the driver accepted is run exactly once, and no other is run:
\* Register, Unregister and Invoke never lose or repeat a callback.
THEOREM CallbacksExactlyOnce == Spec => []ExactlyOnce
<1>1. IInv => ExactlyOnce BY DEF IInv
<1> QED BY <1>1, KeysDeliver, PTL

\* The registry holds exactly the closures still to be called: a failed
\* enqueue leaks no entry, and no entry is gone before its callback comes.
THEOREM RegistryNeverLeaks == Spec => []RegistryExact
<1>1. IInv => RegistryExact BY DEF IInv
<1> QED BY <1>1, KeysDeliver, PTL
=============================================================================
