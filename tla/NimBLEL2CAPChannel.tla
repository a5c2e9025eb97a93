-------------------------- MODULE NimBLEL2CAPChannel --------------------------
(***************************************************************************)
(* An L2CAP connection oriented channel: write() of application tasks,     *)
(* which blocks while the stack has no credits, the L2CAP event handlers   *)
(* of the host task, and the worker that runs the deferred onRead().       *)
(*                                                                         *)
(* write() runs step by step against the handlers, each of which is one    *)
(* step; the stack underneath is modelled as far as the code observes it.  *)
(***************************************************************************)
EXTENDS Integers, Sequences, FiniteSets, SequencesExt

CONSTANTS
  Tasks,         \* the tasks that write
  NoTask,        \* no SDU is pending in the stack
  RetryCounter,  \* sends of a fragment while the channel is busy
  QueueLength,   \* of the queue of deferred reads
  MaxFragments,  \* bound: fragments of one write
  MaxSdus        \* bound: SDUs received in a behaviour

ASSUME ChannelAssumption ==
  /\ NoTask \notin Tasks
  /\ RetryCounter \in Nat \ {0}
  /\ QueueLength \in Nat \ {0}
  /\ MaxFragments \in Nat
  /\ MaxSdus \in Nat

VARIABLES
  ch,    \* the channel object: its link to the stack, stall flag, status, semaphore
  stk,   \* the stack's channel, and the task whose SDU it could not send yet
  wr,    \* each writing task
  rx     \* received SDUs, the queue of deferred reads and its worker

vars == <<ch, stk, wr, rx>>

Channel == [open : BOOLEAN, stalled : BOOLEAN,
            status : {"ok", "unknown", "failed"}, sem : BOOLEAN]

Stack == [up : BOOLEAN, closing : BOOLEAN, owner : Tasks \cup {NoTask}]

\* lost: a fragment of this write was not sent (history).
Writer == [pc : {"idle", "frag", "send", "stall", "clear", "wait", "woken",
                 "failed", "sent"},
           left : 0..MaxFragments, tries : 1..RetryCounter,
           mine : BOOLEAN, lost : BOOLEAN]

\* received counts the SDUs, which are numbered; adding: the handler has
\* counted an SDU and not queued it; read: what onRead() got, in this order.
Reads == [received : 0..MaxSdus, adding : BOOLEAN, queue : Seq(1..MaxSdus),
          pending : Nat, hand : Seq(1..MaxSdus), counted : BOOLEAN,
          read : Seq(1..MaxSdus)]

\* The types; the queue of deferred reads is never longer than it was created.
TypeOK ==
  /\ ch \in Channel
  /\ stk \in Stack
  /\ wr \in [Tasks -> Writer]
  /\ rx \in Reads
  /\ Len(rx.queue) <= QueueLength

NotWriting == [pc |-> "idle", left |-> 0, tries |-> RetryCounter,
               mine |-> FALSE, lost |-> FALSE]

Init ==
  /\ ch = [open |-> FALSE, stalled |-> FALSE, status |-> "ok", sem |-> FALSE]
  /\ stk = [up |-> FALSE, closing |-> FALSE, owner |-> NoTask]
  /\ wr = [t \in Tasks |-> NotWriting]
  /\ rx = [received |-> 0, adding |-> FALSE, queue |-> << >>, pending |-> 0,
           hand |-> << >>, counted |-> FALSE, read |-> << >>]

-----------------------------------------------------------------------------
(* write() and writeFragment().                                            *)

Goto(t, l) == wr' = [wr EXCEPT ![t].pc = l]

\* Task t begins to wait, for its own fragment or for that of another.
Await(t, l, mine) == wr' = [wr EXCEPT ![t] = [@ EXCEPT !.pc = l, !.mine = mine]]

\* writeFragment() returned zero or more: write() takes the next fragment.
FragmentDone(t, lost) ==
  wr' = [wr EXCEPT ![t] =
    [pc |-> IF @.left = 1 THEN "sent" ELSE "frag", left |-> @.left - 1,
     tries |-> RetryCounter, mine |-> FALSE, lost |-> @.lost \/ lost]]

Write(t, n) ==
  /\ wr[t].pc = "idle" /\ ch.open
  /\ wr' = [wr EXCEPT ![t] = [NotWriting EXCEPT !.pc = "frag", !.left = n]]
  /\ UNCHANGED <<ch, stk, rx>>

\* The channel is stalled by a fragment that is not this one.
FoundStalled(t) ==
  /\ wr[t].pc = "frag" /\ ch.stalled
  /\ ch' = [ch EXCEPT !.sem = FALSE]
  /\ Await(t, "clear", FALSE)
  /\ UNCHANGED <<stk, rx>>

NotStalled(t) ==
  /\ wr[t].pc = "frag" /\ ~ch.stalled
  /\ Goto(t, "send")
  /\ UNCHANGED <<ch, stk, rx>>

Accepts == stk.up /\ ~stk.closing /\ stk.owner = NoTask

\* ble_l2cap_send() sent the fragment.
SendDone(t) ==
  /\ wr[t].pc = "send" /\ ch.open /\ Accepts
  /\ FragmentDone(t, FALSE)
  /\ UNCHANGED <<ch, stk, rx>>

\* BLE_HS_ESTALLED: the stack keeps the fragment until it has credits.
SendStalled(t) ==
  /\ wr[t].pc = "send" /\ ch.open /\ Accepts
  /\ stk' = [stk EXCEPT !.owner = t]
  /\ Await(t, "stall", TRUE)
  /\ UNCHANGED <<ch, rx>>

\* BLE_HS_EBUSY: after a delay once more, until RetryCounter is used up.
SendBusy(t) ==
  /\ wr[t].pc = "send" /\ ch.open
  /\ wr' = IF wr[t].tries > 1
           THEN [wr EXCEPT ![t].tries = @ - 1]
           ELSE [wr EXCEPT ![t].pc = "failed"]
  /\ UNCHANGED <<ch, stk, rx>>

\* Any other error of the stack, a positive number, also when the channel is
\* gone by now: writeFragment() returns it and write() goes on.
SendRefused(t) ==
  /\ wr[t].pc = "send"
  /\ FragmentDone(t, TRUE)
  /\ UNCHANGED <<ch, stk, rx>>

\* No mbuf, or a fragment longer than the MTU of a channel opened again.
SendImpossible(t) ==
  /\ wr[t].pc = "send"
  /\ Goto(t, "failed")
  /\ UNCHANGED <<ch, stk, rx>>

\* stalled = true, and xSemaphoreTake(m_unstallSem, 0) ...
Stall(t) ==
  /\ wr[t].pc = "stall"
  /\ ch' = [ch EXCEPT !.stalled = TRUE, !.sem = FALSE]
  /\ Goto(t, "clear")
  /\ UNCHANGED <<stk, rx>>

\* ... m_unstallStatus = BLE_HS_EUNKNOWN ...
ClearStatus(t) ==
  /\ wr[t].pc = "clear"
  /\ ch' = [ch EXCEPT !.status = "unknown"]
  /\ Goto(t, "wait")
  /\ UNCHANGED <<stk, rx>>

\* Mutant: the wait for TX_UNSTALLED times out.
WakeAnyway(t) ==
  /\ wr[t].pc = "wait"
  /\ ch' = [ch EXCEPT !.sem = FALSE]
  /\ Goto(t, "woken")
  /\ UNCHANGED <<stk, rx>>

\* ... xSemaphoreTake(m_unstallSem, portMAX_DELAY) ...
Wake(t) ==
  /\ wr[t].pc = "wait" /\ ch.sem
  /\ ch' = [ch EXCEPT !.sem = FALSE]
  /\ Goto(t, "woken")
  /\ UNCHANGED <<stk, rx>>

\* ... and the status.  A failure is a positive number: write() goes on with
\* the next fragment, even if this one was not sent because another failed.
Resume(t) ==
  /\ wr[t].pc = "woken"
  /\ ch' = [ch EXCEPT !.stalled = FALSE]
  /\ \/ wr[t].mine /\ FragmentDone(t, FALSE)
     \/ ~wr[t].mine /\ ch.status # "ok" /\ FragmentDone(t, TRUE)
     \/ ~wr[t].mine /\ ch.status = "ok" /\ Goto(t, "send")
  /\ UNCHANGED <<stk, rx>>

\* A negative number: write() closes the channel and returns false.
WriteFails(t) ==
  /\ wr[t].pc = "failed"
  /\ wr' = [wr EXCEPT ![t] = NotWriting]
  /\ stk' = [stk EXCEPT !.closing = stk.up /\ (@ \/ ch.open)]
  /\ UNCHANGED <<ch, rx>>

\* write() returns true.
WriteReturns(t) ==
  /\ wr[t].pc = "sent"
  /\ wr' = [wr EXCEPT ![t] = NotWriting]
  /\ UNCHANGED <<ch, stk, rx>>

\* disconnect()
Disconnect ==
  /\ ch.open /\ stk.up
  /\ stk' = [stk EXCEPT !.closing = TRUE]
  /\ UNCHANGED <<ch, wr, rx>>

-----------------------------------------------------------------------------
(* The event handlers of the host task, and what the stack did before.     *)

\* The SDU that the stack kept was not sent.
PendingLost == [t \in Tasks |-> [wr[t] EXCEPT !.lost = @ \/ stk.owner = t]]

\* The handlers run in the host task: none while it handles received data.
HostIsFree == ~rx.adding

Reset(open) == [open |-> open, stalled |-> FALSE, status |-> "ok", sem |-> FALSE]

HandleConnection ==
  /\ HostIsFree /\ ~stk.up
  /\ stk' = [up |-> TRUE, closing |-> FALSE, owner |-> NoTask]
  /\ ch' = Reset(TRUE)
  /\ UNCHANGED <<wr, rx>>

\* The waiting writer, if any, gets no semaphore.
HandleDisconnection ==
  /\ HostIsFree /\ stk.up
  /\ stk' = [up |-> FALSE, closing |-> FALSE, owner |-> NoTask]
  /\ wr' = PendingLost
  /\ ch' = Reset(FALSE)
  /\ UNCHANGED rx

\* The pending SDU was sent, or failed.
HandleTxUnstalled(status) ==
  /\ HostIsFree /\ stk.owner # NoTask
  /\ stk' = [stk EXCEPT !.owner = NoTask]
  /\ wr' = IF status = "ok" THEN wr ELSE PendingLost
  /\ ch' = [ch EXCEPT !.status = status, !.sem = TRUE]
  /\ UNCHANGED rx

\* m_pendingDeferredReads is counted before the SDU is queued ...
HandleDataReceived ==
  /\ HostIsFree /\ stk.up /\ rx.received < MaxSdus
  /\ rx' = [rx EXCEPT !.received = @ + 1, !.adding = TRUE, !.pending = @ + 1]
  /\ UNCHANGED <<ch, stk, wr>>

HasRoom == Len(rx.queue) < QueueLength

\* ... in the queue,
QueueRead ==
  /\ rx.adding /\ HasRoom
  /\ rx' = [rx EXCEPT !.adding = FALSE, !.queue = Append(@, rx.received)]
  /\ UNCHANGED <<ch, stk, wr>>

\* Mutant: the SDU that is read inline stays counted.
ReadInlineCounted ==
  /\ rx.adding /\ ~HasRoom
  /\ rx' = [rx EXCEPT !.adding = FALSE, !.read = Append(@, rx.received)]
  /\ UNCHANGED <<ch, stk, wr>>

\* or, if the queue is full, onRead() runs in the host task.
ReadInline ==
  /\ rx.adding /\ ~HasRoom
  /\ rx' = [rx EXCEPT !.adding = FALSE, !.pending = @ - 1,
                      !.read = Append(@, rx.received)]
  /\ UNCHANGED <<ch, stk, wr>>

-----------------------------------------------------------------------------
(* deferredReadWorker()                                                    *)

Receive ==
  /\ rx.hand = << >> /\ rx.queue # << >>
  /\ rx' = [rx EXCEPT !.hand = <<Head(rx.queue)>>, !.queue = Tail(@)]
  /\ UNCHANGED <<ch, stk, wr>>

\* The SDU is no longer pending: the destructor does not wait for its onRead().
CountDown ==
  /\ rx.hand # << >> /\ ~rx.counted
  /\ rx' = [rx EXCEPT !.counted = TRUE, !.pending = @ - 1]
  /\ UNCHANGED <<ch, stk, wr>>

\* Mutant: the SDU is not taken out of the worker's hands.
OnReadAgain ==
  /\ rx.counted
  /\ rx' = [rx EXCEPT !.counted = FALSE, !.read = Append(@, Head(rx.hand))]
  /\ UNCHANGED <<ch, stk, wr>>

OnRead ==
  /\ rx.counted
  /\ rx' = [rx EXCEPT !.hand = << >>, !.counted = FALSE,
                      !.read = Append(@, Head(rx.hand))]
  /\ UNCHANGED <<ch, stk, wr>>

-----------------------------------------------------------------------------
WriteStep(t) ==
  \/ FoundStalled(t) \/ NotStalled(t)
  \/ SendDone(t) \/ SendStalled(t) \/ SendBusy(t) \/ SendRefused(t) \/ SendImpossible(t)
  \/ Stall(t) \/ ClearStatus(t) \/ Wake(t) \/ Resume(t)
  \/ WriteFails(t) \/ WriteReturns(t)

WorkerStep == Receive \/ CountDown \/ OnRead

Next ==
  \/ \E t \in Tasks, n \in 1..MaxFragments : Write(t, n)
  \/ \E t \in Tasks : WriteStep(t)
  \/ Disconnect
  \/ HandleConnection \/ HandleDisconnection
  \/ \E status \in {"ok", "failed"} : HandleTxUnstalled(status)
  \/ HandleDataReceived \/ QueueRead \/ ReadInline
  \/ WorkerStep

Spec == Init /\ [][Next]_vars

-----------------------------------------------------------------------------
(* Properties.                                                             *)

\* write() does not hand a fragment to the stack while the stack still holds
\* the one before (it would be refused as busy, and the channel closed),
\* however events, stalls and reconnections interleave.
NoSendWhilePending ==
  \A t \in Tasks : wr[t].pc \in {"frag", "send"} => stk.owner # t

\* Every SDU received reaches onRead() exactly once: none is lost or read twice
\* when the queue is full and when the channel closes and opens again.
ReadsConserved ==
  LET waiting == rx.queue \o rx.hand \o (IF rx.adding THEN <<rx.received>> ELSE << >>)
      all     == rx.read \o waiting
  IN  IsInjective(all) /\ ToSet(all) = 1..rx.received

\* m_pendingDeferredReads, on which the destructor waits, counts the SDUs that
\* the worker has not begun to read.
PendingCountsQueue ==
  rx.pending = Len(rx.queue) + (IF rx.adding THEN 1 ELSE 0)
                + (IF rx.hand # << >> /\ ~rx.counted THEN 1 ELSE 0)
===============================================================================
