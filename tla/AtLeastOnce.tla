---------------------------- MODULE AtLeastOnce ----------------------------
(***************************************************************************)
(* What the outbox promises whoever reads the topic: an event that was     *)
(* written is told or still waits, it is marked only after it was told,    *)
(* and neither is ever taken back.  How many relays there are, how often   *)
(* they tell it and in which order is left open: telling an event again    *)
(* is no step here.                                                        *)
(*                                                                         *)
(* OutboxRelay implements it with polls, locks, failures and restarts;     *)
(* Pipeline, whose relay steps leave those out, implements it too.         *)
(***************************************************************************)
VARIABLES
    written,  \* events in the outbox
    told,     \* events the topic holds
    marked    \* events marked as published

avars == <<written, told, marked>>

AInit == written = {} /\ told = {} /\ marked = {}

\* A business transaction commits the events it enqueued.
Write ==
    /\ written \subseteq written'
    /\ UNCHANGED <<told, marked>>

Tell ==
    /\ \E e \in written \ told : told' = told \cup {e}
    /\ UNCHANGED <<written, marked>>

MarkTold ==
    /\ \E e \in told \ marked : marked' = marked \cup {e}
    /\ UNCHANGED <<written, told>>

ANext == Write \/ Tell \/ MarkTold

ASpec == AInit /\ [][ANext]_avars
=============================================================================
