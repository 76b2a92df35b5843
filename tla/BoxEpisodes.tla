---------------------------- MODULE BoxEpisodes ----------------------------
(***************************************************************************)
(* What the active box selector promises about its boxes, whatever its     *)
(* policy: at most one episode is open, an episode that was frozen stays   *)
(* frozen, and one episode gives way to another in a single step.          *)
(***************************************************************************)
VARIABLES
    open,       \* the open episode, as a set of at most one element
    frozen      \* every episode that was ever frozen

Init == open = {} /\ frozen = {}

(* A new episode, never seen frozen, is the only one open. *)
Opens == \E e \in open' : open' = {e} /\ e \notin frozen \cup open

Create == open = {} /\ Opens /\ frozen' = frozen

Freeze == open # {} /\ open' = {} /\ frozen' = frozen \cup open

Replace == open # {} /\ Opens /\ frozen' = frozen \cup open

Next == Create \/ Freeze \/ Replace

Spec == Init /\ [][Next]_<<open, frozen>>
=============================================================================
