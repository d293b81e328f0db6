----------------------------- MODULE VideoStream -----------------------------
(***************************************************************************)
(* A screen stream, from the recovering capture pipeline                   *)
(* (video/src/recovering_pipeline.cpp) over the packetizer and the         *)
(* multicast publisher (common/src/video_transport.cpp,                    *)
(* video/src/video_publisher.cpp) to the reassembler and the jitter buffer *)
(* of a receiver (common/src/frame_reassembler.cpp).                       *)
(*                                                                         *)
(* Datagrams are lost, repeated and overtake each other.  A publisher that *)
(* is opened again counts its frames from the start, under the stream id   *)
(* its caller gives it, so two captures can bear the same frame id.  The   *)
(* time of a capture is when the desktop was last presented: it is 0 when  *)
(* only the pointer moved, and two captures may have the same.  What a     *)
(* payload shows is the number of its capture, which no header carries.    *)
(* Deadlines are events, not numbers.                                      *)
(***************************************************************************)
EXTENDS Naturals, Sequences, FiniteSets, FiniteSetsExt, SequencesExt

CONSTANTS
    MaxCaptures,        \* bound: frames that are captured
    MaxFrameFragments,  \* datagrams a frame is cut into, at most
    FramesInFlight,     \* max_frames_in_flight
    RecentCapacity,     \* completed frames the reassembler remembers (64)
    JitterFrames,       \* maximum_frames of the jitter buffer
    MaxFailures,        \* maximum_consecutive_failures
    MaxOpens,           \* bound: openings of the publisher
    MaxTime,            \* bound: times the desktop was presented at
    Streams             \* stream ids

ASSUME VideoAssumption ==
    /\ MaxCaptures \in Nat /\ MaxFrameFragments \in Nat \ {0}
    /\ FramesInFlight \in Nat \ {0} /\ RecentCapacity \in Nat
    /\ JitterFrames \in Nat \ {0} /\ MaxFailures \in Nat \ {0} /\ MaxOpens \in Nat
    /\ MaxTime \in Nat /\ Streams \subseteq Nat \ {0}

VARIABLES
    recovery,      \* RecoveryController: state, failures in a row, attempt due
    capturing,     \* the duplicator is initialised
    encoder_key,   \* the encoder is fresh: its next frame is a keyframe
    capture,       \* captures so far
    publisher,     \* is it open, its stream, the next frame id
    opens,
    air,           \* datagrams sent: each may arrive any number of times
    stream,        \* the stream the receiver was reset to, 0 before that
    partial,       \* frames_ of the reassembler: id -> what has arrived
    completed,     \* completed_order_: frames it remembers, oldest first
    jitter,        \* frames_ of the jitter buffer
    last_released, \* last_released_frame_id_
    released       \* history: frames handed to the decoder since the reset

videoVars == <<recovery, capturing, encoder_key, capture, publisher, opens, air,
               stream, partial, completed, jitter, last_released, released>>

Stopped == [state |-> "stopped", failures |-> 0, due |-> FALSE]

VideoInit ==
    /\ recovery = Stopped /\ capturing = FALSE /\ encoder_key = FALSE
    /\ capture = 0
    /\ publisher = [open |-> FALSE, stream |-> 0, next |-> 1] /\ opens = 0
    /\ air = {}
    /\ stream = 0 /\ partial = <<>> /\ completed = <<>>
    /\ jitter = {} /\ last_released = 0 /\ released = <<>>

receiverVars == <<stream, partial, completed, jitter, last_released, released>>

-----------------------------------------------------------------------------
(* The capture pipeline.                                                   *)

reset_components == capturing' = FALSE /\ encoder_key' = FALSE

pipeline_start ==
    /\ recovery.state = "stopped"
    /\ recovery' = [state |-> "recovering", failures |-> 0, due |-> TRUE]
    /\ reset_components
    /\ UNCHANGED <<capture, publisher, opens, air, receiverVars>>

pipeline_stop ==
    /\ recovery.state # "stopped"
    /\ recovery' = Stopped
    /\ reset_components
    /\ UNCHANGED <<capture, publisher, opens, air, receiverVars>>

\* The failure after which it gives up is counted too; before that the next
\* attempt has to wait for its back-off.
record_failure ==
    recovery' = [state |-> IF recovery.failures + 1 >= MaxFailures THEN "failed"
                           ELSE "recovering",
                 failures |-> recovery.failures + 1, due |-> FALSE]

backoff_over ==
    /\ recovery.state = "recovering" /\ ~recovery.due
    /\ recovery' = [recovery EXCEPT !.due = TRUE]
    /\ UNCHANGED <<capturing, encoder_key, capture, publisher, opens, air, receiverVars>>

enter_recovery == reset_components /\ record_failure

\* poll() while recovering: the capture is initialised again, or not.
poll_recovering ==
    /\ recovery.state = "recovering" /\ recovery.due
    /\ \/ enter_recovery
       \/ /\ recovery' = [state |-> "running", failures |-> 0, due |-> FALSE]
          /\ capturing' = TRUE /\ encoder_key' = TRUE
    /\ UNCHANGED <<capture, publisher, opens, air, receiverVars>>

\* poll() while running, when capturing, converting or encoding fails.
poll_fails ==
    /\ recovery.state = "running"
    /\ enter_recovery
    /\ UNCHANGED <<capture, publisher, opens, air, receiverVars>>

-----------------------------------------------------------------------------
(* The publisher.                                                          *)

\* An open publisher is closed first.
open_publisher(id) ==
    /\ opens < MaxOpens
    /\ publisher' = [open |-> TRUE, stream |-> id, next |-> 1]
    /\ opens' = opens + 1
    /\ UNCHANGED <<recovery, capturing, encoder_key, capture, air, receiverVars>>

close_publisher ==
    /\ publisher.open
    /\ publisher' = [publisher EXCEPT !.open = FALSE]
    /\ UNCHANGED <<recovery, capturing, encoder_key, capture, opens, air, receiverVars>>

\* The header, the capture in the payload and the opening it comes from.
packetize(time, n) ==
    {[stream |-> publisher.stream, frame |-> publisher.next, index |-> i, count |-> n,
      time |-> time, key |-> encoder_key, capture |-> capture + 1, opening |-> opens] :
        i \in 1 .. n}

\* A bug the checks must catch: a frame that was not sent whole gives its id back.
publish_keeping_id ==
    /\ recovery.state = "running" /\ capturing
    /\ publisher.open /\ capture < MaxCaptures
    /\ capture' = capture + 1
    /\ encoder_key' = FALSE
    /\ \E time \in 0 .. MaxTime, n \in 1 .. MaxFrameFragments : \E sent \in 0 .. n :
           /\ air' = air \cup {d \in packetize(time, n) : d.index <= sent}
           /\ publisher' = IF sent = n THEN [publisher EXCEPT !.next = @ + 1] ELSE publisher
    /\ UNCHANGED <<recovery, capturing, opens, receiverVars>>

\* poll() that processes a frame, and publish(), which stops at the first
\* datagram that cannot be sent: the frame id is used up all the same.
publish ==
    /\ recovery.state = "running" /\ capturing
    /\ publisher.open /\ capture < MaxCaptures
    /\ capture' = capture + 1
    /\ encoder_key' = FALSE
    /\ \E time \in 0 .. MaxTime, n \in 1 .. MaxFrameFragments : \E sent \in 0 .. n :
           air' = air \cup {d \in packetize(time, n) : d.index <= sent}
    /\ publisher' = [publisher EXCEPT !.next = @ + 1]
    /\ UNCHANGED <<recovery, capturing, opens, receiverVars>>

-----------------------------------------------------------------------------
(* The receiver.                                                           *)

\* reset() of the reassembler and of the jitter buffer, to the stream the control
\* plane names.
receiver_reset(id) ==
    /\ stream' = id
    /\ partial' = <<>> /\ completed' = <<>>
    /\ jitter' = {} /\ last_released' = 0 /\ released' = <<>>
    /\ UNCHANGED <<recovery, capturing, encoder_key, capture, publisher, opens, air>>

\* A frame of which fragments have arrived.
Partial(d) == [count |-> d.count, time |-> d.time, got |-> {}, key |-> d.key]

conflicting(p, d) == p.count # d.count \/ p.time # d.time

remember_completed(id) ==
    LET all == Append(completed, id)
    IN  completed' = SubSeq(all, IF Len(all) > RecentCapacity
                                 THEN Len(all) - RecentCapacity + 1 ELSE 1, Len(all))

IdsOf(frames) == {f.frame : f \in frames}

Forget(f, id) == Restrict(f, DOMAIN f \ {id})

\* FrameJitterBuffer::push(): what was overtaken by a released frame or is
\* already there is dropped; a full buffer drops its oldest frame.
jitter_push(f) ==
    IF f.frame <= last_released \/ f.frame \in IdsOf(jitter) THEN jitter
    ELSE {f} \cup (IF Cardinality(jitter) >= JitterFrames
                   THEN {g \in jitter : g.frame # Min(IdsOf(jitter))} ELSE jitter)

\* FrameReassembler::push() of an authenticated datagram, and what becomes of
\* the frame it completes.
push(d) ==
    LET p == IF d.frame \in DOMAIN partial THEN partial[d.frame] ELSE Partial(d)
        q == [p EXCEPT !.got = @ \cup {d}, !.key = @ \/ d.key]
    IN  /\ d.stream = stream /\ d.index \in 1 .. d.count
        /\ d.frame \notin ToSet(completed)
        /\ d.frame \in DOMAIN partial \/ Cardinality(DOMAIN partial) < FramesInFlight
        /\ ~conflicting(p, d)
        /\ \A g \in p.got : g.index # d.index
        /\ IF Cardinality(q.got) = q.count
           THEN /\ partial' = Forget(partial, d.frame)
                /\ remember_completed(d.frame)
                /\ jitter' = jitter_push([frame |-> d.frame, count |-> q.count,
                                          got |-> q.got, key |-> q.key])
           ELSE /\ partial' = [id \in DOMAIN partial \cup {d.frame} |->
                                 IF id = d.frame THEN q ELSE partial[id]]
                /\ UNCHANGED <<completed, jitter>>
        /\ UNCHANGED <<recovery, capturing, encoder_key, capture, publisher, opens,
                       air, stream, last_released, released>>

\* The deadline of an incomplete frame passes, or the frame is dropped for
\* want of memory.
expire(id) ==
    /\ partial' = Forget(partial, id)
    /\ UNCHANGED <<recovery, capturing, encoder_key, capture, publisher, opens, air,
                   stream, completed, jitter, last_released, released>>

pop_ready ==
    /\ jitter # {}
    /\ LET f == CHOOSE g \in jitter : g.frame = Min(IdsOf(jitter))
       IN  /\ jitter' = jitter \ {f}
           /\ last_released' = f.frame
           /\ released' = Append(released, f)
    /\ UNCHANGED <<recovery, capturing, encoder_key, capture, publisher, opens, air,
                   stream, partial, completed>>

VideoNext ==
    \/ pipeline_start
    \/ pipeline_stop
    \/ backoff_over
    \/ poll_recovering
    \/ poll_fails
    \/ \E id \in Streams : open_publisher(id)
    \/ close_publisher
    \/ publish
    \/ \E id \in Streams : receiver_reset(id)
    \/ \E d \in air : push(d)
    \/ \E id \in DOMAIN partial : expire(id)
    \/ pop_ready

VideoSpec == VideoInit /\ [][VideoNext]_videoVars

-----------------------------------------------------------------------------
\* The decoder gets whole pictures in order.  A released frame has all its
\* fragments, and they show one capture, although datagrams repeat after the
\* reassembler has forgotten a completed frame and a failing send uses its frame
\* id up.  The exception is a publisher that was opened again under the same
\* stream id (docs/PACKET_LOSS.md wants a new one): it uses its frame ids again,
\* and two captures with the same time, 0 when only the pointer moved, may be put
\* together.  The id of a released frame is above that of every frame released
\* before (FrameReassembler::push(), FrameJitterBuffer).
PicturesWholeInOrder ==
    /\ \A i \in 1 .. Len(released) :
           /\ {g.index : g \in released[i].got} = 1 .. released[i].count
           /\ \A g, h \in released[i].got :
                 \/ g.capture = h.capture
                 \/ g.opening # h.opening /\ g.stream = h.stream /\ g.time = h.time
    /\ \A i \in 1 .. Len(released) - 1 : released[i].frame < released[i + 1].frame

=============================================================================
