----------------------------- MODULE DedupStream -----------------------------
(***************************************************************************)
(* One Director's frames arriving at a DedupRing.  The Director numbers    *)
(* its frames 1, 2, 3, ...; next_seq() of espnow_broadcast_driver.cpp puts *)
(* them on the wire modulo 255, skipping 0.  The air loses, repeats and    *)
(* reorders copies, within two limits: a copy is in the air for less than  *)
(* Spread later frames, and no more than MaxLoss frames in a row are lost. *)
(***************************************************************************)
EXTENDS DedupRing

CONSTANTS
    Director,   \* the source_id all frames carry
    SeqMod,     \* 255: sequence numbers run 1 .. SeqMod
    Spread,     \* how many frames a copy may lag behind the newest
    MaxLoss,    \* how many frames in a row the receiver may miss
    MaxFrames   \* bound: frames the Director sends

ASSUME StreamAssumption ==
    /\ {SeqMod, Spread} \subseteq Nat \ {0}
    /\ {MaxLoss, MaxFrames} \subseteq Nat
    /\ NoEntry \notin {Director} \X (1 .. SeqMod)

\* How far copies may lag and how many frames may be lost for the ring to do
\* its work: it holds every frame that can overtake one, and has let go of a
\* number before the number comes round again.  The ring of 16 and 255
\* numbers leave room for a lag of 8 frames and 14 frames lost in a row.
RingFitsTheStream ==
    /\ 2 * Spread - 1 <= DedupRingSize
    /\ DedupRingSize * (MaxLoss + 1) + 2 * Spread <= SeqMod + 1

VARIABLES
    newest,     \* the number of the last frame sent
    heard,      \* the frames of which a copy arrived
    accepted    \* how often each frame was let through; saturates at 2

streamVars == <<dedup_ring_, dedup_head_, newest, heard, accepted>>

Frames == 1 .. MaxFrames

\* next_seq(): 1, 2, ..., SeqMod, 1, 2, ...
WireSeq(k) == ((k - 1) % SeqMod) + 1

InFlight == {k \in Frames : k <= newest /\ newest < k + Spread}

StreamInit ==
    /\ EmptyRing
    /\ newest = 0
    /\ heard = {}
    /\ accepted = [k \in Frames |-> 0]

\* The Director may go on only while the receiver has not missed MaxLoss + 1
\* frames in a row that are out of the air for good.
Send ==
    /\ newest < MaxFrames
    /\ newest' = newest + 1
    /\ LET gone == {k \in Frames : k + Spread <= newest'}
       IN  \A k \in gone : (\E i \in k .. k + MaxLoss : i \in heard \/ i \notin gone)
    /\ UNCHANGED <<dedup_ring_, dedup_head_, heard, accepted>>

\* A copy of frame k arrives: the dedup test of on_recv().
Arrive(k) ==
    /\ k \in InFlight
    /\ heard' = heard \cup {k}
    /\ IF SeenRecently(Director, WireSeq(k))
       THEN UNCHANGED <<dedup_ring_, dedup_head_, accepted>>
       ELSE /\ MarkSeen(Director, WireSeq(k))
            /\ accepted' = [accepted EXCEPT ![k] = IF @ < 2 THEN @ + 1 ELSE 2]
    /\ UNCHANGED newest

StreamNext == Send \/ \E k \in Frames : Arrive(k)

StreamSpec == StreamInit /\ [][StreamNext]_streamVars

-----------------------------------------------------------------------------
StreamTypeOK ==
    /\ dedup_ring_ \in [Slots -> ({Director} \X (1 .. SeqMod)) \cup {NoEntry}]
    /\ dedup_head_ \in Slots
    /\ newest \in 0 .. MaxFrames
    /\ heard \subseteq Frames
    /\ accepted \in [Frames -> 0 .. 2]

\* "Duplicates from the Director's redundant TX drop here to prevent double
\* IR fires" (lume_mode.cpp): a frame that is heard is let through once.  Not
\* twice, in whatever order its copies arrive (needs DedupRingSize >=
\* 2 * Spread - 1); and not never: it is not taken for a copy of an older one
\* when the sequence number comes round again, lost frames included, for the
\* entry with that number has left the ring by then.
HeardOnce == \A k \in Frames : accepted[k] = IF k \in heard THEN 1 ELSE 0
=============================================================================
