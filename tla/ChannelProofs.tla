--------------------------- MODULE ChannelProofs ---------------------------
(***************************************************************************)
(* Proofs about one channel, for any finite set of threads, any set of     *)
(* values and any requested capacity.  The inductive invariant is the type *)
(* invariant, the ring equation, the fact that a thread sleeps on the      *)
(* condition variable of its own call, and the two no-lost-wakeup          *)
(* invariants themselves.                                                  *)
(***************************************************************************)
EXTENDS Channel, FiniteSetTheorems, SequenceTheorems, TLAPS

(* The capacity of a channel is positive, whatever was requested           *)
(* (channel.c:29).                                                         *)
LEMMA CapacityPositive == Capacity \in Nat /\ Capacity > 0
  BY ChannelAssumption DEF Capacity

(* Advancing a ring position by one stays inside the ring, and wraps       *)
(* exactly at the capacity (channel.c:107,139).                            *)
LEMMA Advance ==
    ASSUME NEW x \in 0 .. Capacity - 1
    PROVE  /\ (x + 1) % Capacity \in 0 .. Capacity - 1
           /\ (x + 1) % Capacity = IF x + 1 = Capacity THEN 0 ELSE x + 1
  BY CapacityPositive, Z3

(* The slot i places after x, for at most a whole turn of the ring. *)
LEMMA Offset ==
    ASSUME NEW x \in 0 .. Capacity - 1, NEW i \in 0 .. Capacity
    PROVE  /\ (x + i) % Capacity \in 0 .. Capacity - 1
           /\ (x + i) % Capacity = IF x + i < Capacity THEN x + i ELSE x + i - Capacity
  BY CapacityPositive, Z3

-----------------------------------------------------------------------------
(* Every step keeps the types: head and tail stay inside the ring and the  *)
(* count between zero and the capacity.                                    *)
LEMMA TypeStep == ASSUME ChannelTypeOK, [ChannelNext]_channelVars PROVE ChannelTypeOK'
<1>1. Capacity \in Nat /\ Capacity > 0
  BY CapacityPositive
<1>2. CASE UNCHANGED channelVars
  BY <1>2 DEF ChannelTypeOK, channelVars
<1>3. ASSUME NEW t \in Threads, SendCall(t) PROVE ChannelTypeOK'
  BY <1>3 DEF ChannelTypeOK, SendCall, chVars
<1>4. ASSUME NEW t \in Threads, ReceiveCall(t) PROVE ChannelTypeOK'
  BY <1>4 DEF ChannelTypeOK, ReceiveCall, chVars
<1>5. ASSUME NEW t \in Threads, SendWait(t) PROVE ChannelTypeOK'
  BY <1>5 DEF ChannelTypeOK, SendWait, chVars
<1>6. ASSUME NEW t \in Threads, SendClosed(t) PROVE ChannelTypeOK'
  BY <1>6 DEF ChannelTypeOK, SendClosed, Return, chVars
<1>7. ASSUME NEW t \in Threads, SendStore(t) PROVE ChannelTypeOK'
  <2>1. tail' \in 0 .. Capacity - 1
    BY <1>7, Advance DEF ChannelTypeOK, SendStore
  <2>2. count' \in 0 .. Capacity
    BY <1>7, <1>1 DEF ChannelTypeOK, SendStore
  <2>3. notEmpty' \subseteq Threads
    BY <1>7 DEF ChannelTypeOK, SendStore, Signalled
  <2> QED
    BY <1>7, <2>1, <2>2, <2>3 DEF ChannelTypeOK, SendStore, Return
<1>8. ASSUME NEW t \in Threads, ReceiveWait(t) PROVE ChannelTypeOK'
  BY <1>8 DEF ChannelTypeOK, ReceiveWait, chVars
<1>9. ASSUME NEW t \in Threads, ReceiveClosed(t) PROVE ChannelTypeOK'
  BY <1>9 DEF ChannelTypeOK, ReceiveClosed, Return, chVars
<1>10. ASSUME NEW t \in Threads, ReceiveTake(t) PROVE ChannelTypeOK'
  <2>1. head' \in 0 .. Capacity - 1
    BY <1>10, Advance DEF ChannelTypeOK, ReceiveTake
  <2>2. count' \in 0 .. Capacity
    BY <1>10, <1>1 DEF ChannelTypeOK, ReceiveTake
  <2>3. notFull' \subseteq Threads
    BY <1>10 DEF ChannelTypeOK, ReceiveTake, Signalled
  <2> QED
    BY <1>10, <2>1, <2>2, <2>3 DEF ChannelTypeOK, ReceiveTake, Return
<1>11. ASSUME NEW t \in Threads, Close(t) PROVE ChannelTypeOK'
  BY <1>11 DEF ChannelTypeOK, Close
<1>12. ASSUME NEW t \in Threads, SpuriousWake(t) PROVE ChannelTypeOK'
  BY <1>12 DEF ChannelTypeOK, SpuriousWake, chVars
<1> QED
  BY <1>2, <1>3, <1>4, <1>5, <1>6, <1>7, <1>8, <1>9, <1>10, <1>11, <1>12 DEF ChannelNext, Step

(* A fresh channel is well typed: calloc fills the buffer with Zero. *)
LEMMA TypeInit == ASSUME ChannelInit PROVE ChannelTypeOK
<1>1. buffer \in [0 .. Capacity - 1 -> Values]
  BY ChannelAssumption DEF ChannelInit
<1>2. /\ head \in 0 .. Capacity - 1 /\ tail \in 0 .. Capacity - 1
      /\ count \in 0 .. Capacity
  BY CapacityPositive DEF ChannelInit
<1> QED
  BY <1>1, <1>2 DEF ChannelInit, ChannelTypeOK

(* The channel's types are invariant: neither position ever leaves the     *)
(* buffer and the count never passes the capacity (channel.c:89-149).      *)
THEOREM TypeCorrect == ChannelSpec => []ChannelTypeOK
<1>1. ChannelInit => ChannelTypeOK
  BY TypeInit
<1>2. ChannelTypeOK /\ [ChannelNext]_channelVars => ChannelTypeOK'
  BY TypeStep
<1> QED
  BY <1>1, <1>2, PTL DEF ChannelSpec

-----------------------------------------------------------------------------
(* The ring equation is preserved: a send advances tail and count          *)
(* together, a receive head and count.                                     *)
LEMMA RingStep == ASSUME ChannelTypeOK, RingConsistent, [ChannelNext]_channelVars PROVE RingConsistent'
<1>1. Capacity \in Nat /\ Capacity > 0
  BY CapacityPositive
<1>2. ASSUME NEW t \in Threads, SendStore(t) PROVE RingConsistent'
  <2>1. head \in 0 .. Capacity - 1 /\ count \in 0 .. Capacity - 1 /\ count + 1 \in 0 .. Capacity
    BY <1>1, <1>2 DEF ChannelTypeOK, SendStore
  <2>2. tail' = (tail + 1) % Capacity /\ count' = count + 1 /\ head' = head
    BY <1>2 DEF SendStore
  <2>3. tail = IF head + count < Capacity THEN head + count ELSE head + count - Capacity
    BY <1>1, <2>1, Offset DEF RingConsistent
  <2>4. tail' = IF tail + 1 = Capacity THEN 0 ELSE tail + 1
    BY <2>2, Advance DEF ChannelTypeOK
  <2>5. (head + (count + 1)) % Capacity =
          IF head + (count + 1) < Capacity THEN head + (count + 1) ELSE head + (count + 1) - Capacity
    BY <2>1, Offset
  <2> QED
    BY <1>1, <2>1, <2>2, <2>3, <2>4, <2>5 DEF RingConsistent
<1>3. ASSUME NEW t \in Threads, ReceiveTake(t) PROVE RingConsistent'
  <2>1. head \in 0 .. Capacity - 1 /\ count \in 1 .. Capacity /\ count - 1 \in 0 .. Capacity
    BY <1>1, <1>3 DEF ChannelTypeOK, ReceiveTake
  <2>2. head' = (head + 1) % Capacity /\ count' = count - 1 /\ tail' = tail
    BY <1>3 DEF ReceiveTake
  <2>3. tail = IF head + count < Capacity THEN head + count ELSE head + count - Capacity
    BY <1>1, <2>1, Offset DEF RingConsistent
  <2>4. head' = IF head + 1 = Capacity THEN 0 ELSE head + 1
    BY <2>1, <2>2, Advance
  <2>5. head' \in 0 .. Capacity - 1
    BY <2>1, <2>2, Advance
  <2>6. (head' + (count - 1)) % Capacity =
          IF head' + (count - 1) < Capacity THEN head' + (count - 1) ELSE head' + (count - 1) - Capacity
    BY <2>1, <2>5, Offset
  <2> QED
    BY <1>1, <2>1, <2>2, <2>3, <2>4, <2>6 DEF RingConsistent
<1>4. CASE UNCHANGED <<head, tail, count>>
  BY <1>4 DEF RingConsistent
<1>5. CASE \E t \in Threads :
             \/ SendCall(t) \/ ReceiveCall(t) \/ Close(t) \/ SpuriousWake(t)
             \/ SendWait(t) \/ SendClosed(t) \/ ReceiveWait(t) \/ ReceiveClosed(t)
  BY <1>4, <1>5 DEF SendCall, ReceiveCall, Close, SpuriousWake, SendWait, SendClosed,
                    ReceiveWait, ReceiveClosed, chVars
<1> QED
  BY <1>2, <1>3, <1>4, <1>5 DEF ChannelNext, Step, channelVars

(* A thread goes to sleep only on the condition variable of the call it is *)
(* inside, and stays inside that call while it sleeps.                     *)
LEMMA SleepStep == ASSUME ChannelTypeOK, SleepersMatchCalls, [ChannelNext]_channelVars PROVE SleepersMatchCalls'
<1> USE DEF ChannelTypeOK, SleepersMatchCalls
<1>1. CASE UNCHANGED channelVars
  BY <1>1 DEF channelVars
<1>2. ASSUME NEW t \in Threads, SendCall(t) \/ ReceiveCall(t) PROVE SleepersMatchCalls'
  BY <1>2 DEF SendCall, ReceiveCall
<1>3. ASSUME NEW t \in Threads, SendWait(t) \/ ReceiveWait(t) PROVE SleepersMatchCalls'
  BY <1>3 DEF SendWait, ReceiveWait, Ready
<1>4. ASSUME NEW t \in Threads, SendClosed(t) \/ ReceiveClosed(t) PROVE SleepersMatchCalls'
  BY <1>4 DEF SendClosed, ReceiveClosed, Ready, Return
<1>5. ASSUME NEW t \in Threads, SendStore(t) PROVE SleepersMatchCalls'
  BY <1>5 DEF SendStore, Ready, Return, Signalled
<1>6. ASSUME NEW t \in Threads, ReceiveTake(t) PROVE SleepersMatchCalls'
  BY <1>6 DEF ReceiveTake, Ready, Return, Signalled
<1>7. ASSUME NEW t \in Threads, Close(t) \/ SpuriousWake(t) PROVE SleepersMatchCalls'
  BY <1>7 DEF Close, SpuriousWake
<1> QED
  BY <1>1, <1>2, <1>3, <1>4, <1>5, <1>6, <1>7 DEF ChannelNext, Step

-----------------------------------------------------------------------------
(* Facts about the number of threads in a set of threads. *)
LEMMA CountThreads ==
    ASSUME NEW S \in SUBSET Threads
    PROVE  /\ IsFiniteSet(S)
           /\ Cardinality(S) \in Nat
           /\ \A T \in SUBSET S : Cardinality(T) <= Cardinality(S)
           /\ \A u \in Threads \ S : Cardinality(S \cup {u}) = Cardinality(S) + 1
           /\ \A u \in S : Cardinality(S \ {u}) = Cardinality(S) - 1
<1>1. IsFiniteSet(S)
  BY ChannelAssumption, FS_Subset
<1>2. Cardinality(S) \in Nat
  BY <1>1, FS_CardinalityType
<1>3. \A T \in SUBSET S : Cardinality(T) <= Cardinality(S)
  BY <1>1, FS_Subset
<1>4. \A u \in Threads \ S : Cardinality(S \cup {u}) = Cardinality(S) + 1
  BY <1>1, FS_AddElement
<1>5. \A u \in S : Cardinality(S \ {u}) = Cardinality(S) - 1
  BY <1>1, FS_RemoveElement
<1> QED
  BY <1>1, <1>2, <1>3, <1>4, <1>5

(* The two no-lost-wakeup invariants with the facts they rest on. *)
WakeInv == ChannelTypeOK /\ SleepersMatchCalls /\ NoLostReceiver /\ NoLostSender

(* A send that stores an element while receivers sleep moves one of them   *)
(* to the awake ones; every other step that can lower the number of awake  *)
(* receivers lowers the count with it.                                     *)
LEMMA ReceiverStep == ASSUME WakeInv, [ChannelNext]_channelVars PROVE NoLostReceiver'
<1> DEFINE R == Ready("receive")
           R1 == Ready("receive")'
<1>1. R \subseteq Threads /\ R1 \subseteq Threads
  BY DEF Ready
<1>2. ChannelTypeOK /\ SleepersMatchCalls /\ NoLostReceiver /\ Capacity \in Nat
  BY CapacityPositive DEF WakeInv
<1>3. ASSUME R \subseteq R1, count' = count, closed' = closed, notEmpty' \subseteq notEmpty
      PROVE  NoLostReceiver'
  <2>1. Cardinality(R) <= Cardinality(R1) /\ Cardinality(R) \in Nat /\ Cardinality(R1) \in Nat
    BY <1>1, <1>3, CountThreads
  <2>2. SUFFICES ASSUME notEmpty' # {} PROVE ~closed' /\ count' <= Cardinality(R1)
    BY DEF NoLostReceiver
  <2>3. ~closed /\ count <= Cardinality(R)
    BY <1>2, <1>3, <2>2 DEF NoLostReceiver
  <2>4. count \in Nat
    BY <1>2 DEF ChannelTypeOK
  <2> HIDE DEF R, R1
  <2> QED
    BY <1>3, <2>1, <2>3, <2>4
<1>4. CASE UNCHANGED channelVars
  BY <1>3, <1>4 DEF channelVars, Ready
<1>5. ASSUME NEW t \in Threads, SendCall(t) \/ ReceiveCall(t) PROVE NoLostReceiver'
  <2>1. R \subseteq R1
    BY <1>2, <1>5 DEF SendCall, ReceiveCall, Ready, ChannelTypeOK
  <2> QED
    BY <1>3, <1>5, <2>1 DEF SendCall, ReceiveCall, chVars
<1>6. ASSUME NEW t \in Threads, SendWait(t) PROVE NoLostReceiver'
  <2>1. R \subseteq R1
    BY <1>2, <1>6 DEF SendWait, Ready, ChannelTypeOK
  <2> QED
    BY <1>3, <1>6, <2>1 DEF SendWait, chVars
<1>7. ASSUME NEW t \in Threads, SendClosed(t) \/ ReceiveClosed(t) PROVE NoLostReceiver'
  BY <1>2, <1>7 DEF SendClosed, ReceiveClosed, NoLostReceiver, chVars
<1>8. ASSUME NEW t \in Threads, SendStore(t) PROVE NoLostReceiver'
  <2>1. CASE notEmpty = {}
    BY <1>8, <2>1 DEF SendStore, Signalled, NoLostReceiver
  <2>2. CASE notEmpty # {}
    <3>1. PICK u \in notEmpty : notEmpty' = notEmpty \ {u}
      BY <1>8, <2>2 DEF SendStore, Signalled
    <3>2. u \in Threads \ R
      BY <1>2, <3>1 DEF ChannelTypeOK, Ready
    <3>3. R \cup {u} \subseteq R1
      BY <1>2, <1>8, <3>1 DEF ChannelTypeOK, SleepersMatchCalls, SendStore, Ready, Return
    <3>4. Cardinality(R \cup {u}) = Cardinality(R) + 1
      BY <1>1, <3>2, CountThreads
    <3>5. Cardinality(R \cup {u}) <= Cardinality(R1)
      BY <1>1, <3>3, CountThreads
    <3>6. ~closed /\ count <= Cardinality(R)
      BY <1>2, <2>2 DEF NoLostReceiver
    <3>7. count' = count + 1 /\ closed' = closed
      BY <1>8 DEF SendStore
    <3>8. count \in Nat /\ Cardinality(R) \in Nat /\ Cardinality(R1) \in Nat
      BY <1>1, <1>2, CountThreads DEF ChannelTypeOK
    <3>9. NoLostReceiver' <=> (notEmpty' # {} => ~closed' /\ count' <= Cardinality(R1))
      BY DEF NoLostReceiver
    <3> HIDE DEF R, R1
    <3> QED
      BY <3>4, <3>5, <3>6, <3>7, <3>8, <3>9
  <2> QED
    BY <2>1, <2>2
<1>9. ASSUME NEW t \in Threads, ReceiveWait(t) PROVE NoLostReceiver'
  <2>1. count' = 0 /\ ~closed'
    BY <1>9 DEF ReceiveWait, chVars
  <2>2. 0 <= Cardinality(R1)
    BY <1>1, CountThreads
  <2> QED
    BY <2>1, <2>2 DEF NoLostReceiver
<1>10. ASSUME NEW t \in Threads, ReceiveTake(t) PROVE NoLostReceiver'
  <2>1. R \ {t} \subseteq R1 /\ t \in R
    BY <1>2, <1>10 DEF ChannelTypeOK, ReceiveTake, Ready, Return, Signalled
  <2>2. Cardinality(R \ {t}) = Cardinality(R) - 1
    BY <1>1, <2>1, CountThreads
  <2>3. Cardinality(R \ {t}) <= Cardinality(R1)
    BY <1>1, <2>1, CountThreads
  <2>4. count' = count - 1 /\ closed' = closed /\ notEmpty' = notEmpty
    BY <1>10 DEF ReceiveTake
  <2>5. notEmpty # {} => ~closed /\ count <= Cardinality(R)
    BY <1>2 DEF NoLostReceiver
  <2>6. count \in Nat /\ Cardinality(R) \in Nat /\ Cardinality(R1) \in Nat
    BY <1>1, <1>2, CountThreads DEF ChannelTypeOK
  <2>7. NoLostReceiver' <=> (notEmpty' # {} => ~closed' /\ count' <= Cardinality(R1))
    BY DEF NoLostReceiver
  <2> HIDE DEF R, R1
  <2> QED
    BY <2>2, <2>3, <2>4, <2>5, <2>6, <2>7
<1>11. ASSUME NEW t \in Threads, Close(t) PROVE NoLostReceiver'
  BY <1>11 DEF Close, NoLostReceiver
<1>12. ASSUME NEW t \in Threads, SpuriousWake(t) PROVE NoLostReceiver'
  <2>1. R \subseteq R1
    BY <1>12 DEF SpuriousWake, Ready
  <2> QED
    BY <1>3, <1>12, <2>1 DEF SpuriousWake, chVars
<1> QED
  BY <1>4, <1>5, <1>6, <1>7, <1>8, <1>9, <1>10, <1>11, <1>12 DEF ChannelNext, Step

(* The mirror image on the sending side: free slots and awake senders. *)
LEMMA SenderStep == ASSUME WakeInv, [ChannelNext]_channelVars PROVE NoLostSender'
<1> DEFINE W == Ready("send")
           W1 == Ready("send")'
<1>1. W \subseteq Threads /\ W1 \subseteq Threads
  BY DEF Ready
<1>2. ChannelTypeOK /\ SleepersMatchCalls /\ NoLostSender /\ Capacity \in Nat /\ count \in Nat
  BY CapacityPositive DEF WakeInv, ChannelTypeOK
<1>a. Cardinality(W) \in Nat /\ Cardinality(W1) \in Nat
  BY <1>1, CountThreads
<1>b. NoLostSender' <=> (notFull' # {} => ~closed' /\ Capacity - count' <= Cardinality(W1))
  BY DEF NoLostSender
<1>c. notFull # {} => ~closed /\ Capacity - count <= Cardinality(W)
  BY <1>2 DEF NoLostSender
<1>3. ASSUME W \subseteq W1, count' = count, closed' = closed, notFull' \subseteq notFull
      PROVE  NoLostSender'
  <2>1. Cardinality(W) <= Cardinality(W1)
    BY <1>1, <1>3, CountThreads
  <2>2. notFull' # {} => notFull # {}
    BY <1>3
  <2> HIDE DEF W, W1
  <2> QED
    BY <1>2, <1>3, <1>a, <1>b, <1>c, <2>1, <2>2
<1>4. CASE UNCHANGED channelVars
  BY <1>3, <1>4 DEF channelVars, Ready
<1>5. ASSUME NEW t \in Threads, SendCall(t) \/ ReceiveCall(t) PROVE NoLostSender'
  <2>1. W \subseteq W1
    BY <1>2, <1>5 DEF SendCall, ReceiveCall, Ready, ChannelTypeOK
  <2> QED
    BY <1>3, <1>5, <2>1 DEF SendCall, ReceiveCall, chVars
<1>6. ASSUME NEW t \in Threads, ReceiveWait(t) PROVE NoLostSender'
  <2>1. W \subseteq W1
    BY <1>2, <1>6 DEF ReceiveWait, Ready, ChannelTypeOK
  <2> QED
    BY <1>3, <1>6, <2>1 DEF ReceiveWait, chVars
<1>7. ASSUME NEW t \in Threads, SendClosed(t) \/ ReceiveClosed(t) PROVE NoLostSender'
  BY <1>2, <1>7 DEF SendClosed, ReceiveClosed, NoLostSender, chVars
<1>8. ASSUME NEW t \in Threads, ReceiveTake(t) PROVE NoLostSender'
  <2>1. CASE notFull = {}
    BY <1>8, <2>1 DEF ReceiveTake, Signalled, NoLostSender
  <2>2. CASE notFull # {}
    <3>1. PICK u \in notFull : notFull' = notFull \ {u}
      BY <1>8, <2>2 DEF ReceiveTake, Signalled
    <3>2. u \in Threads \ W
      BY <1>2, <3>1 DEF ChannelTypeOK, Ready
    <3>3. W \cup {u} \subseteq W1
      BY <1>2, <1>8, <3>1 DEF ChannelTypeOK, SleepersMatchCalls, ReceiveTake, Ready, Return
    <3>4. Cardinality(W \cup {u}) = Cardinality(W) + 1
      BY <1>1, <3>2, CountThreads
    <3>5. Cardinality(W \cup {u}) <= Cardinality(W1)
      BY <1>1, <3>3, CountThreads
    <3>6. count' = count - 1 /\ closed' = closed
      BY <1>8 DEF ReceiveTake
    <3> HIDE DEF W, W1
    <3> QED
      BY <1>2, <1>a, <1>b, <1>c, <2>2, <3>4, <3>5, <3>6
  <2> QED
    BY <2>1, <2>2
<1>9. ASSUME NEW t \in Threads, SendWait(t) PROVE NoLostSender'
  <2>1. count' = Capacity /\ ~closed'
    BY <1>9 DEF SendWait, chVars
  <2> HIDE DEF W, W1
  <2> QED
    BY <1>2, <1>a, <1>b, <2>1
<1>10. ASSUME NEW t \in Threads, SendStore(t) PROVE NoLostSender'
  <2>1. W \ {t} \subseteq W1 /\ t \in W
    BY <1>2, <1>10 DEF ChannelTypeOK, SendStore, Ready, Return, Signalled
  <2>2. Cardinality(W \ {t}) = Cardinality(W) - 1
    BY <1>1, <2>1, CountThreads
  <2>3. Cardinality(W \ {t}) <= Cardinality(W1)
    BY <1>1, <2>1, CountThreads
  <2>4. count' = count + 1 /\ closed' = closed /\ notFull' = notFull
    BY <1>10 DEF SendStore
  <2> HIDE DEF W, W1
  <2> QED
    BY <1>2, <1>a, <1>b, <1>c, <2>2, <2>3, <2>4
<1>11. ASSUME NEW t \in Threads, Close(t) PROVE NoLostSender'
  BY <1>11 DEF Close, NoLostSender
<1>12. ASSUME NEW t \in Threads, SpuriousWake(t) PROVE NoLostSender'
  <2>1. W \subseteq W1
    BY <1>12 DEF SpuriousWake, Ready
  <2> QED
    BY <1>3, <1>12, <2>1 DEF SpuriousWake, chVars
<1> QED
  BY <1>4, <1>5, <1>6, <1>7, <1>8, <1>9, <1>10, <1>11, <1>12 DEF ChannelNext, Step

(* The conjunction is inductive. *)
LEMMA WakeInvariant == ChannelSpec => []WakeInv
<1>1. ChannelInit => WakeInv
  BY TypeInit DEF ChannelInit, WakeInv, SleepersMatchCalls, NoLostReceiver, NoLostSender
<1>2. WakeInv /\ [ChannelNext]_channelVars => WakeInv'
  BY TypeStep, SleepStep, ReceiverStep, SenderStep DEF WakeInv
<1> QED
  BY <1>1, <1>2, PTL DEF ChannelSpec

(* No wakeup is lost on the receiving side: one signal per send is enough, *)
(* for any number of senders and receivers, with spurious wakeups and      *)
(* closes at any time (channel.c:113,127-129).                             *)
THEOREM NoReceiverLost == ChannelSpec => []NoLostReceiver
<1>1. WakeInv => NoLostReceiver
  BY DEF WakeInv
<1> QED
  BY <1>1, WakeInvariant, PTL

(* No wakeup is lost on the sending side (channel.c:96-98,144). *)
THEOREM NoSenderLost == ChannelSpec => []NoLostSender
<1>1. WakeInv => NoLostSender
  BY DEF WakeInv
<1> QED
  BY <1>1, WakeInvariant, PTL

-----------------------------------------------------------------------------
(* A closed channel stays closed and takes in nothing more: every step of  *)
(* every thread, a sender woken by the close included (channel.c:100-103). *)
THEOREM ClosedForGood == ChannelSpec => ClosedStaysClosed
<1>1. ASSUME ChannelTypeOK, [ChannelNext]_channelVars PROVE [closed => closed' /\ count' <= count]_channelVars
  <2>0. count \in Int
    BY <1>1, CapacityPositive DEF ChannelTypeOK
  <2>1. CASE UNCHANGED channelVars
    BY <2>1
  <2>2. ASSUME NEW t \in Threads, SendStore(t) PROVE closed => closed' /\ count' <= count
    BY <2>2 DEF SendStore
  <2>3. ASSUME NEW t \in Threads, ReceiveTake(t) PROVE closed => closed' /\ count' <= count
    BY <2>0, <2>3 DEF ReceiveTake
  <2>4. ASSUME NEW t \in Threads, Close(t) PROVE closed => closed' /\ count' <= count
    BY <2>0, <2>4 DEF Close
  <2>5. ASSUME NEW t \in Threads,
               \/ SendCall(t) \/ ReceiveCall(t) \/ SpuriousWake(t)
               \/ SendWait(t) \/ SendClosed(t) \/ ReceiveWait(t) \/ ReceiveClosed(t)
        PROVE  closed => closed' /\ count' <= count
    <3>1. closed' = closed /\ count' = count
      BY <2>5 DEF SendCall, ReceiveCall, SpuriousWake, SendWait, SendClosed,
                  ReceiveWait, ReceiveClosed, chVars
    <3>2. count <= count
      BY <2>0
    <3> QED
      BY <3>1, <3>2, Zenon
  <2> QED
    BY <1>1, <2>1, <2>2, <2>3, <2>4, <2>5 DEF ChannelNext, Step
<1> QED
  BY <1>1, TypeCorrect, PTL DEF ChannelSpec, ClosedStaysClosed

-----------------------------------------------------------------------------
(* The abstract queue read off the ring: a sequence of `count` values. *)
LEMMA ContentsType ==
    ASSUME ChannelTypeOK
    PROVE  /\ Contents \in Seq(Values)
           /\ Len(Contents) = count
           /\ count \in Nat
           /\ \A i \in 1 .. count : Contents[i] = buffer[(head + i - 1) % Capacity]
<1>1. count \in Nat /\ count <= Capacity
  BY CapacityPositive DEF ChannelTypeOK
<1>2. ASSUME NEW i \in 1 .. count PROVE buffer[(head + i - 1) % Capacity] \in Values
  <2>1. (head + (i - 1)) % Capacity \in 0 .. Capacity - 1
    BY <1>1, CapacityPositive, Offset DEF ChannelTypeOK
  <2>2. head + i - 1 = head + (i - 1)
    BY <1>1, CapacityPositive DEF ChannelTypeOK
  <2> QED
    BY <2>1, <2>2 DEF ChannelTypeOK
<1>3. Contents \in [1 .. count -> Values]
  BY <1>2 DEF Contents
<1>4. Contents \in Seq(Values) /\ Len(Contents) = count
  BY <1>1, <1>3
<1> QED
  BY <1>1, <1>4 DEF Contents

(* A send appends to the abstract queue: the slot written is the one after *)
(* the newest element, and no slot that holds an element is overwritten.   *)
LEMMA StoreAppends ==
    ASSUME ChannelTypeOK, RingConsistent, NEW t \in Threads, SendStore(t)
    PROVE  Contents' = Append(Contents, slot[t])
<1>1. Capacity \in Nat /\ Capacity > 0 /\ head \in 0 .. Capacity - 1 /\ tail \in 0 .. Capacity - 1
  BY CapacityPositive DEF ChannelTypeOK
<1>2. count \in 0 .. Capacity - 1
  BY <1>1 DEF ChannelTypeOK, SendStore
<1>3. count' = count + 1 /\ head' = head /\ buffer' = [buffer EXCEPT ![tail] = slot[t]]
  BY DEF SendStore
<1>4. tail = (head + count) % Capacity
  BY DEF RingConsistent
<1>5. ASSUME NEW i \in 1 .. count
      PROVE  (head + i - 1) % Capacity # tail /\ (head + i - 1) % Capacity \in 0 .. Capacity - 1
  <2>1. i - 1 \in 0 .. Capacity /\ i - 1 < count /\ head + i - 1 = head + (i - 1)
    BY <1>1, <1>2
  <2>2. /\ (head + (i - 1)) % Capacity \in 0 .. Capacity - 1
        /\ (head + (i - 1)) % Capacity =
             IF head + (i - 1) < Capacity THEN head + (i - 1) ELSE head + (i - 1) - Capacity
    BY <1>1, <2>1, Offset
  <2>3. tail = IF head + count < Capacity THEN head + count ELSE head + count - Capacity
    BY <1>1, <1>2, <1>4, Offset
  <2>4. (head + (i - 1)) % Capacity # tail
    BY <1>1, <1>2, <2>1, <2>2, <2>3
  <2> QED
    BY <2>1, <2>2, <2>4
<1>6. Contents' = [i \in 1 .. count + 1 |-> [buffer EXCEPT ![tail] = slot[t]][(head + i - 1) % Capacity]]
  BY <1>3 DEF Contents
<1>7. ASSUME NEW i \in 1 .. count + 1
      PROVE  [buffer EXCEPT ![tail] = slot[t]][(head + i - 1) % Capacity] =
               IF i = count + 1 THEN slot[t] ELSE Contents[i]
  <2>0. buffer \in [0 .. Capacity - 1 -> Values]
    BY DEF ChannelTypeOK
  <2>1. CASE i = count + 1
    <3>1. head + i - 1 = head + count
      BY <1>1, <1>2, <2>1
    <3> QED
      BY <1>1, <1>4, <2>0, <2>1, <3>1
  <2>2. CASE i # count + 1
    <3>1. i \in 1 .. count
      BY <1>2, <2>2
    <3>2. Contents[i] = buffer[(head + i - 1) % Capacity]
      BY <3>1, ContentsType
    <3> QED
      BY <1>1, <1>5, <2>0, <2>2, <3>1, <3>2
  <2> QED
    BY <2>1, <2>2
<1>8. Contents \in Seq(Values) /\ Len(Contents) = count
  BY ContentsType
<1>9. Append(Contents, slot[t]) = [i \in 1 .. count + 1 |-> IF i = count + 1 THEN slot[t] ELSE Contents[i]]
  BY <1>2, <1>8
<1> QED
  BY <1>6, <1>7, <1>9

(* A receive hands out the oldest element and leaves the others in order. *)
LEMMA TakeRemovesHead ==
    ASSUME ChannelTypeOK, NEW t \in Threads, ReceiveTake(t)
    PROVE  /\ Contents # <<>>
           /\ buffer[head] = Head(Contents)
           /\ Contents' = Tail(Contents)
<1>1. Capacity \in Nat /\ Capacity > 0 /\ head \in 0 .. Capacity - 1
  BY CapacityPositive DEF ChannelTypeOK
<1>2. count \in 1 .. Capacity
  BY <1>1 DEF ChannelTypeOK, ReceiveTake
<1>3. count' = count - 1 /\ head' = (head + 1) % Capacity /\ buffer' = buffer
  BY DEF ReceiveTake
<1>4. /\ Contents \in Seq(Values) /\ Len(Contents) = count
      /\ \A i \in 1 .. count : Contents[i] = buffer[(head + i - 1) % Capacity]
  BY ContentsType
<1>5. Contents # <<>> /\ Head(Contents) = Contents[1]
  BY <1>2, <1>4
<1>6. Contents[1] = buffer[head]
  <2>1. head + 1 - 1 = head + 0 /\ (head + 0) % Capacity = head
    BY <1>1, Offset
  <2> QED
    BY <1>2, <1>4, <2>1
<1>7. ASSUME NEW i \in 1 .. count - 1
      PROVE  buffer[(head' + i - 1) % Capacity] = Contents[i + 1]
  <2>1. i \in 0 .. Capacity /\ i - 1 \in 0 .. Capacity /\ i + 1 \in 1 .. count
    BY <1>1, <1>2
  <2>2. head' \in 0 .. Capacity - 1 /\ head' = IF head + 1 = Capacity THEN 0 ELSE head + 1
    BY <1>1, <1>3, Advance
  <2>3. (head' + (i - 1)) % Capacity =
          IF head' + (i - 1) < Capacity THEN head' + (i - 1) ELSE head' + (i - 1) - Capacity
    BY <2>1, <2>2, Offset
  <2>4. (head + i) % Capacity = IF head + i < Capacity THEN head + i ELSE head + i - Capacity
    BY <1>1, <2>1, Offset
  <2>5. (head' + (i - 1)) % Capacity = (head + i) % Capacity
    BY <1>1, <1>2, <2>1, <2>2, <2>3, <2>4
  <2>6. head' + i - 1 = head' + (i - 1) /\ head + (i + 1) - 1 = head + i
    BY <1>1, <2>1, <2>2
  <2>7. Contents[i + 1] = buffer[(head + (i + 1) - 1) % Capacity]
    BY <1>4, <2>1
  <2> QED
    BY <2>5, <2>6, <2>7
<1>8. Contents' = [i \in 1 .. count - 1 |-> buffer[(head' + i - 1) % Capacity]]
  BY <1>3 DEF Contents
<1>9. Tail(Contents) = [i \in 1 .. count - 1 |-> Contents[i + 1]]
  <2>1. /\ Tail(Contents) \in Seq(Values)
        /\ Len(Tail(Contents)) = count - 1
        /\ \A i \in 1 .. Len(Tail(Contents)) : Tail(Contents)[i] = Contents[i + 1]
    BY <1>4, <1>5, HeadTailProperties
  <2> DEFINE rest == Tail(Contents)
  <2>2. rest \in [1 .. Len(rest) -> Values]
    BY <2>1, LenProperties
  <2> HIDE DEF rest
  <2>3. rest = [i \in 1 .. Len(rest) |-> rest[i]]
    BY <2>2
  <2>4. Len(rest) = count - 1 /\ \A i \in 1 .. count - 1 : rest[i] = Contents[i + 1]
    BY <2>1 DEF rest
  <2>5. rest = [i \in 1 .. count - 1 |-> Contents[i + 1]]
    BY <2>3, <2>4
  <2> QED
    BY <2>5 DEF rest
<1> QED
  BY <1>5, <1>6, <1>7, <1>8, <1>9

-----------------------------------------------------------------------------
(* The ring buffer with its mutex and condition variables implements the   *)
(* abstract bounded FIFO queue: elements come out once, in the order they  *)
(* went in, none is accepted after the close, and a receiver is turned     *)
(* away only from a closed and drained channel (channel.c:89-163).         *)
THEOREM Refinement == ChannelSpec => ImplementsFifo
<1> DEFINE Inv == ChannelTypeOK /\ RingConsistent
<1>1. ChannelInit => Inv
  <2> SUFFICES ASSUME ChannelInit PROVE Inv
    OBVIOUS
  <2>1. 0 = (0 + 0) % Capacity
    BY CapacityPositive, Offset
  <2> QED
    BY <2>1, TypeInit DEF ChannelInit, RingConsistent
<1>2. Inv /\ [ChannelNext]_channelVars => Inv'
  BY TypeStep, RingStep
<1>3. ChannelInit => Fifo!Init
  <2> SUFFICES ASSUME ChannelInit PROVE Fifo!Init
    OBVIOUS
  <2>1. Contents \in Seq(Values) /\ Len(Contents) = 0
    BY ContentsType, TypeInit DEF ChannelInit
  <2>2. Contents = <<>>
    BY <2>1
  <2> QED
    BY <2>2 DEF ChannelInit, Fifo!Init
<1>4. ASSUME Inv, [ChannelNext]_channelVars PROVE [Fifo!Next]_Fifo!vars
  <2>1. CASE UNCHANGED channelVars
    BY <2>1 DEF channelVars, Contents, Fifo!vars
  <2>2. ASSUME NEW t \in Threads, SendCall(t) PROVE Fifo!Next
    <3>1. Contents' = Contents
      BY <2>2 DEF SendCall, chVars, Contents
    <3>2. Fifo!Invoke(t, "send")
      BY <2>2, <3>1 DEF SendCall, chVars, Fifo!Invoke
    <3> QED
      BY <3>2 DEF Fifo!Next
  <2>3. ASSUME NEW t \in Threads, ReceiveCall(t) PROVE Fifo!Next
    <3>1. Contents' = Contents
      BY <2>3 DEF ReceiveCall, chVars, Contents
    <3>2. Fifo!Invoke(t, "receive")
      BY <2>3, <3>1 DEF ReceiveCall, chVars, Fifo!Invoke
    <3> QED
      BY <3>2 DEF Fifo!Next
  <2>4. ASSUME NEW t \in Threads, SendWait(t) \/ ReceiveWait(t) \/ SpuriousWake(t)
        PROVE  UNCHANGED Fifo!vars
    BY <2>4 DEF SendWait, ReceiveWait, SpuriousWake, chVars, Contents, Fifo!vars
  <2>5. ASSUME NEW t \in Threads, SendClosed(t) PROVE Fifo!Next
    <3>1. Contents' = Contents
      BY <2>5 DEF SendClosed, chVars, Contents
    <3>2. Fifo!RefuseSend(t)
      BY <2>5, <3>1 DEF SendClosed, Ready, chVars, Return, Fifo!RefuseSend, Fifo!Return
    <3> QED
      BY <3>2 DEF Fifo!Next
  <2>6. ASSUME NEW t \in Threads, SendStore(t) PROVE Fifo!Next
    <3>1. Contents' = Append(Contents, slot[t])
      BY <1>4, <2>6, StoreAppends
    <3>2. Len(Contents) < Capacity
      BY <1>4, <2>6, ContentsType, CapacityPositive DEF ChannelTypeOK, SendStore
    <3>3. Fifo!Accept(t)
      BY <2>6, <3>1, <3>2 DEF SendStore, Ready, Return, Fifo!Accept, Fifo!Return
    <3> QED
      BY <3>3 DEF Fifo!Next
  <2>7. ASSUME NEW t \in Threads, ReceiveClosed(t) PROVE Fifo!Next
    <3>1. Contents' = Contents
      BY <2>7 DEF ReceiveClosed, chVars, Contents
    <3>2. Contents = <<>>
      BY <1>4, <2>7, ContentsType DEF ReceiveClosed
    <3>3. Fifo!RefuseReceive(t)
      BY <2>7, <3>1, <3>2 DEF ReceiveClosed, Ready, chVars, Return,
                              Fifo!RefuseReceive, Fifo!Return
    <3> QED
      BY <3>3 DEF Fifo!Next
  <2>8. ASSUME NEW t \in Threads, ReceiveTake(t) PROVE Fifo!Next
    <3>1. Contents # <<>> /\ buffer[head] = Head(Contents) /\ Contents' = Tail(Contents)
      BY <1>4, <2>8, TakeRemovesHead
    <3>2. Fifo!Deliver(t)
      BY <2>8, <3>1 DEF ReceiveTake, Ready, Return, Fifo!Deliver, Fifo!Return
    <3> QED
      BY <3>2 DEF Fifo!Next
  <2>9. ASSUME NEW t \in Threads, Close(t) PROVE Fifo!Next
    <3>1. Contents' = Contents
      BY <2>9 DEF Close, Contents
    <3>2. Fifo!Close(t)
      BY <2>9, <3>1 DEF Close, Fifo!Close
    <3> QED
      BY <3>2 DEF Fifo!Next
  <2> QED
    BY <1>4, <2>1, <2>2, <2>3, <2>4, <2>5, <2>6, <2>7, <2>8, <2>9 DEF ChannelNext, Step
<1> QED
  BY <1>1, <1>2, <1>3, <1>4, PTL DEF ChannelSpec, ImplementsFifo, Fifo!Spec
=============================================================================
