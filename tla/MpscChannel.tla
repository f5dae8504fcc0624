---------------------------- MODULE MpscChannel ----------------------------
(***************************************************************************)
(* The bounded channels of futures::channel::mpsc that link the parts of a *)
(* program.  They are created by main with room for 16 messages.           *)
(***************************************************************************)
EXTENDS Naturals, Sequences

CONSTANT ChanBuffer   \* the buffer of a channel: 16 in the code

ASSUME ChanBufferAssumption == ChanBuffer \in Nat

\* A channel gives each of its senders one slot besides the buffer, and wakes
\* a sender that had to wait with the next message taken out: with a single
\* sender, it holds at most one message more than its buffer.
HasRoom(chan) == Len(chan) <= ChanBuffer
=============================================================================
