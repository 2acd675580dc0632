------------------------------ MODULE Channel ------------------------------
(***************************************************************************)
(* One bounded channel of the Sigil runtime (runtime/src/channel.c): the   *)
(* ring buffer, its mutex and its two condition variables, used by any     *)
(* number of OS threads.                                                   *)
(*                                                                         *)
(* Everything between sigil_mutex_lock(&ch->lock) and the unlock, or the   *)
(* sigil_cond_wait that gives the mutex up, is one step: all of the        *)
(* struct is read and written under that mutex only.  A thread inside a    *)
(* call and not asleep is about to take the mutex, either for the first    *)
(* time or to leave sigil_cond_wait, and in both cases evaluates the same  *)
(* while condition next.                                                   *)
(***************************************************************************)
EXTENDS Integers, Sequences, FiniteSets

CONSTANTS Threads,     \* the OS threads (main and the pool's workers)
          Values,      \* the 8-byte elements a program sends
          Zero,        \* the element calloc leaves in an unused slot
          Requested    \* the capacity asked for in CHANNEL type capacity

ASSUME ChannelAssumption ==
    /\ IsFiniteSet(Threads)
    /\ Zero \in Values
    /\ Requested \in Nat

(* sigil_channel_create raises a capacity of zero to the minimum of one. *)
Capacity == IF Requested = 0 THEN 1 ELSE Requested

VARIABLES buffer,      \* ch->buffer: the ring, indexed 0 .. capacity - 1
          head,        \* ch->head: the next slot to read
          tail,        \* ch->tail: the next slot to write
          count,       \* ch->count: the number of elements held
          closed,      \* ch->closed
          notFull,     \* the threads asleep on ch->not_full
          notEmpty,    \* the threads asleep on ch->not_empty
          call,        \* call[t]: the runtime call thread t is inside
          slot,        \* slot[t]: what the call's `value` pointer points at
          result       \* result[t]: the status of t's last finished call

chVars == <<buffer, head, tail, count, closed>>
channelVars == <<buffer, head, tail, count, closed, notFull, notEmpty, call, slot, result>>

ChannelTypeOK ==
    /\ buffer \in [0 .. Capacity - 1 -> Values]
    /\ head \in 0 .. Capacity - 1
    /\ tail \in 0 .. Capacity - 1
    /\ count \in 0 .. Capacity
    /\ closed \in BOOLEAN
    /\ notFull \subseteq Threads
    /\ notEmpty \subseteq Threads
    /\ call \in [Threads -> {"idle", "send", "receive"}]
    /\ slot \in [Threads -> Values]
    /\ result \in [Threads -> {"none", "ok", "closed"}]

(* The state sigil_channel_create leaves behind. *)
ChannelInit ==
    /\ buffer = [i \in 0 .. Capacity - 1 |-> Zero]
    /\ head = 0
    /\ tail = 0
    /\ count = 0
    /\ closed = FALSE
    /\ notFull = {}
    /\ notEmpty = {}
    /\ call = [t \in Threads |-> "idle"]
    /\ slot \in [Threads -> Values]
    /\ result = [t \in Threads |-> "none"]

-----------------------------------------------------------------------------
(* Threads inside call c that are not asleep: they take the mutex next. *)
Ready(c) == {t \in Threads : call[t] = c /\ t \notin notFull \cup notEmpty}

(* A call returns with status r. *)
Return(t, r) ==
    /\ call' = [call EXCEPT ![t] = "idle"]
    /\ result' = [result EXCEPT ![t] = r]

(* sigil_cond_signal: one sleeping thread, if there is one, stops sleeping. *)
Signalled(sleepers) ==
    IF sleepers = {} THEN {{}} ELSE {sleepers \ {u} : u \in sleepers}

(* A program calls CHANNEL_SEND; the element is in the buffer passed down. *)
SendCall(t) ==
    /\ call[t] = "idle"
    /\ call' = [call EXCEPT ![t] = "send"]
    /\ \E v \in Values : slot' = [slot EXCEPT ![t] = v]
    /\ result' = [result EXCEPT ![t] = "none"]
    /\ UNCHANGED <<chVars, notFull, notEmpty>>

(* The channel is full and open: sleep on not_full. *)
SendWait(t) ==
    /\ t \in Ready("send")
    /\ count = Capacity /\ ~closed
    /\ notFull' = notFull \cup {t}
    /\ UNCHANGED <<chVars, notEmpty, call, slot, result>>

SendClosed(t) ==
    /\ t \in Ready("send")
    /\ closed
    /\ Return(t, "closed")
    /\ UNCHANGED <<chVars, notFull, notEmpty, slot>>

(* Mutation: the capacity test is dropped. *)
SendStoreUnbounded(t) ==
    /\ t \in Ready("send")
    /\ ~closed
    /\ buffer' = [buffer EXCEPT ![tail] = slot[t]]
    /\ tail' = (tail + 1) % Capacity
    /\ count' = count + 1
    /\ notEmpty' \in Signalled(notEmpty)
    /\ Return(t, "ok")
    /\ UNCHANGED <<head, closed, notFull, slot>>

(* Mutation: only the send that ends emptiness signals a receiver. *)
SendStoreSignalsFirst(t) ==
    /\ t \in Ready("send")
    /\ count # Capacity /\ ~closed
    /\ buffer' = [buffer EXCEPT ![tail] = slot[t]]
    /\ tail' = (tail + 1) % Capacity
    /\ count' = count + 1
    /\ IF count = 0 THEN notEmpty' \in Signalled(notEmpty) ELSE UNCHANGED notEmpty
    /\ Return(t, "ok")
    /\ UNCHANGED <<head, closed, notFull, slot>>

(* Mutation: a sender woken by the close goes on to store its element. *)
SendStoreAfterClose(t) ==
    /\ t \in Ready("send")
    /\ count # Capacity
    /\ buffer' = [buffer EXCEPT ![tail] = slot[t]]
    /\ tail' = (tail + 1) % Capacity
    /\ count' = count + 1
    /\ notEmpty' \in Signalled(notEmpty)
    /\ Return(t, "ok")
    /\ UNCHANGED <<head, closed, notFull, slot>>

(* Copy the element in at tail, and wake one sleeping receiver. *)
SendStore(t) ==
    /\ t \in Ready("send")
    /\ count # Capacity /\ ~closed
    /\ buffer' = [buffer EXCEPT ![tail] = slot[t]]
    /\ tail' = (tail + 1) % Capacity
    /\ count' = count + 1
    /\ notEmpty' \in Signalled(notEmpty)
    /\ Return(t, "ok")
    /\ UNCHANGED <<head, closed, notFull, slot>>

(* A program calls CHANNEL_RECEIVE with an uninitialised buffer: the       *)
(* generated code passes a fresh stack slot, which holds any value.        *)
ReceiveCall(t) ==
    /\ call[t] = "idle"
    /\ call' = [call EXCEPT ![t] = "receive"]
    /\ \E v \in Values : slot' = [slot EXCEPT ![t] = v]
    /\ result' = [result EXCEPT ![t] = "none"]
    /\ UNCHANGED <<chVars, notFull, notEmpty>>

(* The channel is empty and open: sleep on not_empty. *)
ReceiveWait(t) ==
    /\ t \in Ready("receive")
    /\ count = 0 /\ ~closed
    /\ notEmpty' = notEmpty \cup {t}
    /\ UNCHANGED <<chVars, notFull, call, slot, result>>

(* Mutation: a closed channel refuses to hand out what it still holds. *)
ReceiveClosedUndrained(t) ==
    /\ t \in Ready("receive")
    /\ closed
    /\ Return(t, "closed")
    /\ UNCHANGED <<chVars, notFull, notEmpty, slot>>

ReceiveClosed(t) ==
    /\ t \in Ready("receive")
    /\ count = 0 /\ closed
    /\ Return(t, "closed")
    /\ UNCHANGED <<chVars, notFull, notEmpty, slot>>

(* Mutation: only the receive that ends fullness signals a sender. *)
ReceiveTakeSignalsFirst(t) ==
    /\ t \in Ready("receive")
    /\ count # 0
    /\ slot' = [slot EXCEPT ![t] = buffer[head]]
    /\ head' = (head + 1) % Capacity
    /\ count' = count - 1
    /\ IF count = Capacity THEN notFull' \in Signalled(notFull) ELSE UNCHANGED notFull
    /\ Return(t, "ok")
    /\ UNCHANGED <<buffer, tail, closed, notEmpty>>

(* Copy the element at head out, and wake one sleeping sender. *)
ReceiveTake(t) ==
    /\ t \in Ready("receive")
    /\ count # 0
    /\ slot' = [slot EXCEPT ![t] = buffer[head]]
    /\ head' = (head + 1) % Capacity
    /\ count' = count - 1
    /\ notFull' \in Signalled(notFull)
    /\ Return(t, "ok")
    /\ UNCHANGED <<buffer, tail, closed, notEmpty>>

(* Mutation: the close wakes the receivers only. *)
CloseWakesReceivers(t) ==
    /\ call[t] = "idle"
    /\ closed' = TRUE
    /\ notEmpty' = {}
    /\ UNCHANGED <<buffer, head, tail, count, notFull, call, slot, result>>

(* sigil_channel_close: set the flag and wake every sleeper, in one        *)
(* critical section; closing twice is allowed.                             *)
Close(t) ==
    /\ call[t] = "idle"
    /\ closed' = TRUE
    /\ notFull' = {}
    /\ notEmpty' = {}
    /\ UNCHANGED <<buffer, head, tail, count, call, slot, result>>

(* POSIX and Windows allow a wait to end without a signal. *)
SpuriousWake(t) ==
    /\ t \in notFull \cup notEmpty
    /\ notFull' = notFull \ {t}
    /\ notEmpty' = notEmpty \ {t}
    /\ UNCHANGED <<chVars, call, slot, result>>

-----------------------------------------------------------------------------
(* What a thread inside a call does once it gets the mutex. *)
Step(t) ==
    \/ SendWait(t) \/ SendClosed(t) \/ SendStore(t)
    \/ ReceiveWait(t) \/ ReceiveClosed(t) \/ ReceiveTake(t)

ChannelNext ==
    \E t \in Threads :
        \/ SendCall(t) \/ ReceiveCall(t) \/ Close(t)
        \/ Step(t) \/ SpuriousWake(t)

ChannelSpec == ChannelInit /\ [][ChannelNext]_channelVars

(* A thread that wants the mutex gets it eventually and runs on; nothing   *)
(* forces a program to make a call, and no spurious wakeup is owed.        *)
ChannelFairSpec == ChannelSpec /\ \A t \in Threads : WF_channelVars(Step(t))

-----------------------------------------------------------------------------
(* The elements held, oldest first: the ring read from head. *)
Contents == [i \in 1 .. count |-> buffer[(head + i - 1) % Capacity]]

Fifo == INSTANCE ChannelFifo WITH queue <- Contents

(* The channel is a bounded FIFO queue with a close flag: every step of    *)
(* the ring buffer, mutex and condition variables is a step of             *)
(* ChannelFifo or changes nothing a caller can see (channel.c:89-149).     *)
ImplementsFifo == Fifo!Spec

(* The ring's two positions and its element count never drift apart, so    *)
(* tail is always the slot after the newest element (channel.c:107,139).   *)
RingConsistent == tail = (head + count) % Capacity

(* No wakeup is lost on the receiving side: while a receiver sleeps the    *)
(* channel is open and every element held has a receiver of its own that   *)
(* is already awake to take it.  One signal per send (channel.c:113) is    *)
(* enough, whatever thread wins the mutex.                                 *)
NoLostReceiver ==
    notEmpty # {} => ~closed /\ count <= Cardinality(Ready("receive"))

(* The same on the sending side: while a sender sleeps, every free slot    *)
(* has an awake sender of its own (channel.c:144).                         *)
NoLostSender ==
    notFull # {} => ~closed /\ Capacity - count <= Cardinality(Ready("send"))

(* A thread sleeps on the condition variable of the call it is inside, and *)
(* on no other, so neither a send's signal nor a receive's signal can be   *)
(* spent on a thread it does not help.                                     *)
SleepersMatchCalls ==
    /\ \A t \in notFull : call[t] = "send"
    /\ \A t \in notEmpty : call[t] = "receive"

(* Closing releases everyone: a call in progress on a closed channel       *)
(* returns, whether its thread was asleep or not (channel.c:151-163).      *)
CloseReleases ==
    \A t \in Threads : (closed /\ call[t] # "idle") ~> (call[t] = "idle")

(* A closed channel never opens again, and never holds more elements than  *)
(* when it was closed (sigil_runtime.h:147-150).                           *)
ClosedStaysClosed == [][closed => closed' /\ count' <= count]_channelVars
=============================================================================
