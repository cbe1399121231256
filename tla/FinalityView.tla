---------------------------- MODULE FinalityView ----------------------------
(***************************************************************************)
(* What the indexer promises its readers: the chain tables are at every    *)
(* moment what some prefix of the final events makes of an empty database. *)
(* A reader may be behind, and may be thrown back, but never sees an event *)
(* that is not final, out of order, twice, or with a gap before it.        *)
(***************************************************************************)
EXTENDS Sequences, Naturals

CONSTANT Replay(_)      \* the chain tables that a sequence of events makes

VARIABLES final,        \* the event of every block that can no longer be dropped
          view          \* the chain tables

Init ==
    /\ final = <<>>
    /\ view = Replay(<<>>)

(* Another block becomes final. *)
Finalize ==
    /\ Len(final') = Len(final) + 1
    /\ SubSeq(final', 1, Len(final)) = final
    /\ UNCHANGED view

(* The reader moves to some prefix of the final events. *)
Refresh ==
    /\ \E n \in 0 .. Len(final) : view' = Replay(SubSeq(final, 1, n))
    /\ UNCHANGED final

Next == Finalize \/ Refresh

Spec == Init /\ [][Next]_<<final, view>>
=============================================================================
