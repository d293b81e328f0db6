----------------------------- MODULE PacketLoss -----------------------------
(***************************************************************************)
(* The packet-loss tracker of a video receiver (common/src/packet_loss.cpp): *)
(* a window over the packet sequence numbers, kept as a ring, that declares *)
(* a packet lost when the window moves past it.  Packets arrive in any     *)
(* order, any number of times, after any gap.                              *)
(***************************************************************************)
EXTENDS Naturals, FiniteSets

CONSTANTS
    ReorderWindow,    \* slots of the ring
    MaxForwardJump,   \* max_forward_jump_
    MaxPacket         \* bound: packets of the stream are 0 .. MaxPacket

ASSUME LossAssumption ==
    ReorderWindow \in Nat \ {0} /\ MaxForwardJump \in Nat \ {0} /\ MaxPacket \in Nat

VARIABLES
    ring,            \* received_: slot -> has its packet arrived
    head,            \* head_: the slot of window_start
    window_start, highest,
    sequence_set, packet_seen,
    lossStats,       \* finalized_received, confirmed_lost, unique_received
    loss_first,      \* history: where the first window began
    loss_arrived     \* history: packets the tracker counted as received

lossVars == <<ring, head, window_start, highest, sequence_set, packet_seen, lossStats,
              loss_first, loss_arrived>>

Slots == 0 .. ReorderWindow - 1

NoneReceived == [s \in Slots |-> FALSE]

\* reset() of a stream, with or without a sequence number to start from.
LossReset(with_initial, initial) ==
    /\ ring = NoneReceived /\ head = 0
    /\ window_start = initial /\ highest = initial
    /\ sequence_set = with_initial /\ packet_seen = FALSE
    /\ lossStats = [received |-> 0, lost |-> 0, unique |-> 0]
    /\ loss_first = initial /\ loss_arrived = {}

LossInit ==
    \/ LossReset(FALSE, 0)
    \/ \E initial \in 0 .. MaxPacket : LossReset(TRUE, initial)

-----------------------------------------------------------------------------

\* The window as advance() leaves it: its ring, head, start and counts.
Window == [ring |-> ring, head |-> head, start |-> window_start, stats |-> lossStats]

\* What finalize_slot() adds for a set of slots.
finalize_slots(stats, slots) ==
    [stats EXCEPT !.received = @ + Cardinality({s \in slots : ring[s]}),
                  !.lost = @ + Cardinality({s \in slots : ~ring[s]})]

\* The slots of the first n packets of the window.
Leading(n) == {(head + i) % ReorderWindow : i \in 0 .. n - 1}

\* A bug the checks must catch: packets beyond the window that were jumped
\* over are not counted.
advance_in_window(n) ==
    IF n >= ReorderWindow
    THEN [ring |-> NoneReceived, head |-> 0, start |-> window_start + n,
          stats |-> finalize_slots(lossStats, Slots)]
    ELSE [ring |-> [s \in Slots |-> ring[s] /\ s \notin Leading(n)],
          head |-> (head + n) % ReorderWindow, start |-> window_start + n,
          stats |-> finalize_slots(lossStats, Leading(n))]

advance(n) ==
    IF n >= ReorderWindow
    THEN [ring |-> NoneReceived, head |-> 0, start |-> window_start + n,
          stats |-> [finalize_slots(lossStats, Slots)
                        EXCEPT !.lost = @ + n - ReorderWindow]]
    ELSE [ring |-> [s \in Slots |-> ring[s] /\ s \notin Leading(n)],
          head |-> (head + n) % ReorderWindow, start |-> window_start + n,
          stats |-> finalize_slots(lossStats, Leading(n))]

\* The first packet of a stream without an initial number opens the window.
observe_first(seq) ==
    /\ ~sequence_set
    /\ sequence_set' = TRUE /\ packet_seen' = TRUE
    /\ window_start' = seq /\ highest' = seq
    /\ ring' = [ring EXCEPT ![head] = TRUE]
    /\ lossStats' = [lossStats EXCEPT !.unique = @ + 1]
    /\ loss_first' = seq /\ loss_arrived' = {seq}
    /\ UNCHANGED head

ForwardReference == IF packet_seen THEN highest ELSE window_start

\* observe() of a packet that is neither too late nor too far ahead: the
\* window moves until the packet is in it.
observe(seq) ==
    /\ sequence_set
    /\ seq >= window_start
    /\ seq <= ForwardReference + MaxForwardJump
    /\ LET w == IF seq - window_start >= ReorderWindow
                THEN advance(seq - window_start - ReorderWindow + 1) ELSE Window
           slot == (w.head + (seq - w.start)) % ReorderWindow
       IN  /\ head' = w.head /\ window_start' = w.start
           /\ IF w.ring[slot]
              THEN /\ ring' = w.ring /\ lossStats' = w.stats
                   /\ UNCHANGED <<highest, packet_seen, loss_arrived>>
              ELSE /\ ring' = [w.ring EXCEPT ![slot] = TRUE]
                   /\ lossStats' = [w.stats EXCEPT !.unique = @ + 1]
                   /\ highest' = IF ~packet_seen \/ seq > highest THEN seq ELSE highest
                   /\ packet_seen' = TRUE
                   /\ loss_arrived' = loss_arrived \cup {seq}
    /\ UNCHANGED <<sequence_set, loss_first>>

\* finalize_through(), and flush() for the highest number seen.
finalize_through(seq) ==
    /\ packet_seen /\ seq \in window_start .. highest
    /\ LET w == advance(seq - window_start + 1)
       IN  /\ ring' = w.ring /\ head' = w.head /\ window_start' = w.start
           /\ lossStats' = w.stats
    /\ UNCHANGED <<highest, sequence_set, packet_seen, loss_first, loss_arrived>>

LossNext ==
    \/ \E seq \in 0 .. MaxPacket : observe_first(seq)
    \/ \E seq \in 0 .. MaxPacket : observe(seq)
    \/ \E seq \in 0 .. MaxPacket : finalize_through(seq)

LossSpec == LossInit /\ [][LossNext]_lossVars

-----------------------------------------------------------------------------
\* The loss a receiver reports is exact: of the packets the window has passed,
\* those that arrived are counted as received and all others as lost, and no
\* packet is counted twice, whatever the order, the gaps and the repetitions
\* (observe(), advance()).
LossExact ==
    LET passed == loss_first .. window_start - 1
    IN  /\ lossStats.received = Cardinality(passed \cap loss_arrived)
        /\ lossStats.lost = Cardinality(passed \ loss_arrived)
        /\ lossStats.unique = Cardinality(loss_arrived)

=============================================================================
