-------------------------------- MODULE Link ---------------------------------
(***************************************************************************)
(* The two halves of the library at the two ends of a serial line: a       *)
(* sender encodes Messages one after the other, and the line (Line) and    *)
(* the receiver do what they may.                                          *)
(***************************************************************************)
EXTENDS Line

CONSTANT Messages   \* the packets to send, in this order

ASSUME LinkAssumption ==
  Messages \in Seq(PacketType) /\ \A n \in DOMAIN Messages : Sendable(Messages[n])

VARIABLE sent       \* how many of Messages have been put on the line

linkVars == <<lineVars, sent>>

Frames == [n \in DOMAIN Messages |-> EncodedFrame(Messages[n])]

LinkInit == LineInit /\ sent = 0

SendFrame ==
  /\ sent < Len(Messages)
  /\ PutOnLine(Frames[sent + 1])
  /\ sent' = sent + 1

LinkNext == SendFrame \/ (LineStep /\ UNCHANGED sent)

\* A sender with something to send sends it, a byte on the line arrives, and
\* the application keeps reading.  Nothing is assumed about the faults.
LinkSpec ==
  LinkInit /\ [][LinkNext]_linkVars /\ WF_linkVars(SendFrame)
    /\ WF_linkVars(Receive /\ UNCHANGED sent)

-----------------------------------------------------------------------------
(***************************************************************************)
(* Properties.                                                             *)
(***************************************************************************)

\* Type invariant of the line and of the application: whatever the line did, a
\* packet that fusain_decode_byte reports OK is complete, and its msg_type is
\* the type in its message header.
LinkTypeOK ==
  /\ sent \in 0 .. Len(Messages) /\ faults \in 0 .. MaxFaults
  /\ line \in Seq(Byte)
  /\ \A k \in DOMAIN received : Complete(received[k])

\* Whatever the faults, the application gets nothing that was not sent, nothing
\* twice and nothing out of order: received is a subsequence of what was sent
\* (the messages of an instance differ).
OnlySentInOrder ==
  \E origin \in [DOMAIN received -> 1 .. sent] :
    /\ \A k \in DOMAIN received :
         received[k] = AsDelivered(Messages[origin[k]])
    /\ \A j, k \in DOMAIN received : j < k => origin[j] < origin[k]

\* A fault costs at most two messages: the one it hits, and the next if what it
\* leaves behind is a pending escape that swallows the next START.  It never
\* costs more, because the next frame resynchronizes the decoder; and without
\* faults every message arrives.
LossBound ==
  line = <<>> => Len(received) + 2 * faults >= sent

\* In the end everything has been sent, and what the faults did not cost has
\* arrived: no sequence of faults leaves the decoder deaf.
EventuallyDelivered ==
  <>[](sent = Len(Messages) /\ Len(received) >= Len(Messages) - 2 * faults)
=============================================================================
