----------------------------- MODULE BatchWriter -----------------------------
(***************************************************************************)
(* core/batch_writer.rs: one BatchAccumulator per kind of row (symbols,    *)
(* files, relationships) buffers what is pushed, cuts it into batches of   *)
(* batch_size and sends them over one bounded channel to                   *)
(* batch_writer_task, which stores them.  A push or flush waits while the  *)
(* channel is full and its future may be dropped there; a write that fails *)
(* is only logged; the task may be aborted.                                *)
(*                                                                         *)
(* The rows of a kind are numbered as they are pushed, so that a buffer or *)
(* a batch is an interval.                                                 *)
(***************************************************************************)
EXTENDS Integers, Sequences, FiniteSets

CONSTANTS
    Kinds,
    BatchSize,      \* BatchConfig.batch_size
    Capacity,       \* BatchConfig.channel_buffer_size
    MaxRows         \* bound: rows pushed per kind

ASSUME BatchAssumption ==
    /\ BatchSize \in Nat \ {0} /\ Capacity \in Nat \ {0}
    /\ MaxRows \in Nat

VARIABLES
    pushed,     \* rows pushed so far
    taken,      \* rows that left the buffer
    acc,        \* what each accumulator does
    batch,      \* the batch its send holds, <<>> if none
    channel,    \* messages on their way
    writer,     \* what the task does
    hand,       \* the message it stores, <<>> if none
    rows,       \* rows in the store
    count,      \* the task's counters
    lost        \* history: rows dropped or refused

accVars    == <<pushed, taken, acc, batch>>
writerVars == <<writer, hand, rows, count>>
batchVars  == <<accVars, channel, writerVars, lost>>

Message == [kind : Kinds, lo : Nat \ {0}, hi : Nat]

BatchTypeOK ==
    /\ pushed \in [Kinds -> Nat] /\ taken \in [Kinds -> Nat]
    /\ acc \in [Kinds -> {"open", "push", "send", "flush", "closed"}]
    /\ batch \in [Kinds -> Message \cup {<<>>}]
    /\ channel \in Seq(Message)
    /\ writer \in {"recv", "store", "done", "aborted"}
    /\ hand \in Message \cup {<<>>}
    /\ rows \in [Kinds -> SUBSET Nat] /\ count \in [Kinds -> Nat]
    /\ lost \in [Kinds -> SUBSET Nat]

BatchInit ==
    /\ pushed = [k \in Kinds |-> 0] /\ taken = [k \in Kinds |-> 0]
    /\ acc = [k \in Kinds |-> "open"] /\ batch = [k \in Kinds |-> <<>>]
    /\ channel = <<>>
    /\ writer = "recv" /\ hand = <<>>
    /\ rows = [k \in Kinds |-> {}] /\ count = [k \in Kinds |-> 0]
    /\ lost = [k \in Kinds |-> {}]

-----------------------------------------------------------------------------
Proceed(k, step) == acc' = [acc EXCEPT ![k] = step]

Rows(msg)    == IF msg = <<>> THEN {} ELSE msg.lo..msg.hi
Buffer(k)    == (taken[k] + 1)..pushed[k]
Receiving    == writer \in {"recv", "store"}
Lose(k, set) == lost' = [lost EXCEPT ![k] = @ \cup set]

\* push: items.extend(new_items)
Push(k, n) ==
    /\ acc[k] = "open" /\ pushed[k] + n <= MaxRows
    /\ pushed' = [pushed EXCEPT ![k] = @ + n]
    /\ Proceed(k, "push")
    /\ UNCHANGED <<taken, batch, channel, writerVars, lost>>

\* n rows leave the buffer, in a message that waits to be sent.
Cut(k, n, step) ==
    /\ batch' = [batch EXCEPT ![k] = [kind |-> k, lo |-> taken[k] + 1, hi |-> taken[k] + n]]
    /\ taken' = [taken EXCEPT ![k] = @ + n]
    /\ Proceed(k, step)

\* while items.len() >= batch_size: split_off, replace
Split(k) ==
    /\ acc[k] = "push" /\ pushed[k] - taken[k] >= BatchSize
    /\ Cut(k, BatchSize, "send")
    /\ UNCHANGED <<pushed, channel, writerVars, lost>>

PushReturns(k) ==
    /\ acc[k] = "push" /\ pushed[k] - taken[k] < BatchSize
    /\ Proceed(k, "open")
    /\ UNCHANGED <<pushed, taken, batch, channel, writerVars, lost>>

\* flush(self): what is left, if anything; the sender is dropped at the end
Flush(k) ==
    /\ acc[k] = "open"
    /\ IF Buffer(k) = {}
       THEN Proceed(k, "closed") /\ UNCHANGED <<taken, batch>>
       ELSE Cut(k, pushed[k] - taken[k], "flush")
    /\ UNCHANGED <<pushed, channel, writerVars, lost>>

\* Mutant of AfterSend: flush(&mut self) keeps the accumulator, and its sender.
AfterSendOpen(k) == "push"

AfterSend(k) == IF acc[k] = "send" THEN "push" ELSE "closed"

\* sender.send(..).await gets a place in the channel.
Send(k) ==
    /\ acc[k] \in {"send", "flush"} /\ Receiving /\ Len(channel) < Capacity
    /\ channel' = Append(channel, batch[k])
    /\ batch' = [batch EXCEPT ![k] = <<>>]
    /\ Proceed(k, AfterSend(k))
    /\ UNCHANGED <<pushed, taken, writerVars, lost>>

\* The batch goes down with the send: the receiver is gone and the error carries it
\* away, or the future is dropped while it waits.  A flush takes its accumulator along.
SendFails(k) ==
    /\ acc[k] \in {"send", "flush"}
    /\ Lose(k, Rows(batch[k]))
    /\ batch' = [batch EXCEPT ![k] = <<>>]
    /\ Proceed(k, IF acc[k] = "send" THEN "open" ELSE "closed")
    /\ UNCHANGED <<pushed, taken, channel, writerVars>>

\* The accumulator is dropped without a flush.
DropAcc(k) ==
    /\ acc[k] = "open"
    /\ Lose(k, Buffer(k))
    /\ taken' = [taken EXCEPT ![k] = pushed[k]]
    /\ Proceed(k, "closed")
    /\ UNCHANGED <<pushed, batch, channel, writerVars>>

\* rx.recv(): a message
Recv ==
    /\ writer = "recv" /\ channel # <<>>
    /\ hand' = Head(channel) /\ channel' = Tail(channel)
    /\ writer' = "store"
    /\ UNCHANGED <<accVars, rows, count, lost>>

\* store.store_symbols, store_files, store_relationships
StoreBatch ==
    /\ writer = "store"
    /\ rows' = [rows EXCEPT ![hand.kind] = @ \cup Rows(hand)]
    /\ count' = [count EXCEPT ![hand.kind] = @ + (hand.hi - hand.lo + 1)]
    /\ writer' = "recv" /\ hand' = <<>>
    /\ UNCHANGED <<accVars, channel, lost>>

\* Mutant of StoreFails: what was not written is counted.
StoreFailsCounted ==
    /\ writer = "store"
    /\ Lose(hand.kind, Rows(hand))
    /\ count' = [count EXCEPT ![hand.kind] = @ + (hand.hi - hand.lo + 1)]
    /\ writer' = "recv" /\ hand' = <<>>
    /\ UNCHANGED <<accVars, channel, rows>>

\* ... returns an error: a warning, and the next message.
StoreFails ==
    /\ writer = "store"
    /\ Lose(hand.kind, Rows(hand))
    /\ writer' = "recv" /\ hand' = <<>>
    /\ UNCHANGED <<accVars, channel, rows, count>>

\* rx.recv() returns None: every sender is dropped and the channel is empty.
End ==
    /\ writer = "recv" /\ channel = <<>> /\ \A k \in Kinds : acc[k] = "closed"
    /\ writer' = "done"
    /\ UNCHANGED <<accVars, channel, hand, rows, count, lost>>

OfKind(k)    == {i \in 1..Len(channel) : channel[i].kind = k}
InChannel(k) == UNION {Rows(channel[i]) : i \in OfKind(k)}
InHand(k)    == IF hand # <<>> /\ hand.kind = k THEN Rows(hand) ELSE {}

\* The task is aborted; what it was storing may be stored, and is not counted.
Abort ==
    /\ Receiving
    /\ writer' = "aborted" /\ hand' = <<>> /\ channel' = <<>>
    /\ \E stored \in {{}, Rows(hand)} :
         /\ rows' = [k \in Kinds |-> rows[k] \cup (InHand(k) \cap stored)]
         /\ lost' = [k \in Kinds |-> lost[k] \cup InChannel(k) \cup (InHand(k) \ stored)]
    /\ UNCHANGED <<accVars, count>>

Writer == Recv \/ StoreBatch \/ StoreFails \/ End

BatchNext ==
    \/ \E k \in Kinds, n \in 1..MaxRows : Push(k, n)
    \/ \E k \in Kinds : \/ Split(k) \/ PushReturns(k) \/ Flush(k)
                        \/ Send(k) \/ SendFails(k) \/ DropAcc(k)
    \/ Writer \/ Abort

\* The task is polled until it ends; a semaphore serves the senders in their order, so
\* that one that waits gets one of the places that become free.
BatchFairness ==
    /\ WF_batchVars(Writer)
    /\ \A k \in Kinds : SF_batchVars(Send(k))

BatchSpec == BatchInit /\ [][BatchNext]_batchVars /\ BatchFairness

-----------------------------------------------------------------------------
\* Where a row that was pushed can be.
Places(k) == <<rows[k], lost[k], InHand(k), InChannel(k), Rows(batch[k]), Buffer(k)>>

\* Every row that was pushed is in exactly one place: stored, reported or dropped, in the
\* task's hands, in the channel, with a send, or in the buffer; the counters the task
\* returns are the rows it stored.
Accounted ==
    \A k \in Kinds :
        /\ UNION {Places(k)[i] : i \in 1..6} = 1..pushed[k]
        /\ \A i, j \in 1..6 : i < j => Places(k)[i] \cap Places(k)[j] = {}
        /\ writer # "aborted" => count[k] = Cardinality(rows[k])

\* Once every accumulator was flushed or dropped the task returns, also when sends
\* still wait for a place.
Drains ==
    (\A k \in Kinds : acc[k] \in {"flush", "closed"}) ~> ~Receiving
=============================================================================
