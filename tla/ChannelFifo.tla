---------------------------- MODULE ChannelFifo ----------------------------
(***************************************************************************)
(* What a Sigil channel promises to the threads that use it, as stated by  *)
(* runtime/include/sigil_runtime.h: a bounded first-in first-out queue     *)
(* with a close flag.  A send is accepted only while the channel is open   *)
(* and not full; a receive is answered with the oldest value while there   *)
(* is one, and is refused only when the channel is both closed and empty.  *)
(* No mutex, ring buffer or condition variable appears here: module        *)
(* Channel, which models runtime/src/channel.c, implements this one.       *)
(***************************************************************************)
EXTENDS Integers, Sequences

CONSTANTS Threads,    \* the OS threads that may call the channel
          Values,     \* the elements a channel can carry
          Capacity    \* the number of elements the channel holds at most

VARIABLES queue,      \* the elements accepted and not yet received, oldest first
          closed,     \* has the channel been closed?
          call,       \* call[t]: the channel call thread t is inside
          slot,       \* slot[t]: the element buffer thread t passed to its call
          result      \* result[t]: the status of t's last finished call

vars == <<queue, closed, call, slot, result>>

Init ==
    /\ queue = <<>>
    /\ closed = FALSE
    /\ call = [t \in Threads |-> "idle"]
    /\ slot \in [Threads -> Values]
    /\ result = [t \in Threads |-> "none"]

(* Thread t's call ends and reports status r. *)
Return(t, r) ==
    /\ call' = [call EXCEPT ![t] = "idle"]
    /\ result' = [result EXCEPT ![t] = r]

Invoke(t, c) ==
    /\ call[t] = "idle"
    /\ call' = [call EXCEPT ![t] = c]
    /\ \E v \in Values : slot' = [slot EXCEPT ![t] = v]
    /\ result' = [result EXCEPT ![t] = "none"]
    /\ UNCHANGED <<queue, closed>>

Accept(t) ==
    /\ call[t] = "send"
    /\ ~closed
    /\ Len(queue) < Capacity
    /\ queue' = Append(queue, slot[t])
    /\ Return(t, "ok")
    /\ UNCHANGED <<closed, slot>>

RefuseSend(t) ==
    /\ call[t] = "send"
    /\ closed
    /\ Return(t, "closed")
    /\ UNCHANGED <<queue, closed, slot>>

Deliver(t) ==
    /\ call[t] = "receive"
    /\ queue # <<>>
    /\ slot' = [slot EXCEPT ![t] = Head(queue)]
    /\ queue' = Tail(queue)
    /\ Return(t, "ok")
    /\ UNCHANGED closed

RefuseReceive(t) ==
    /\ call[t] = "receive"
    /\ closed
    /\ queue = <<>>
    /\ Return(t, "closed")
    /\ UNCHANGED <<queue, closed, slot>>

Close(t) ==
    /\ call[t] = "idle"
    /\ closed' = TRUE
    /\ UNCHANGED <<queue, call, slot, result>>

Next ==
    \E t \in Threads :
        \/ Invoke(t, "send") \/ Invoke(t, "receive")
        \/ Accept(t) \/ RefuseSend(t)
        \/ Deliver(t) \/ RefuseReceive(t)
        \/ Close(t)

Spec == Init /\ [][Next]_vars
=============================================================================
