---------------------------- MODULE AtomicUpgrade ----------------------------
(***************************************************************************)
(* What a guarded promotion promises, without its steps: the live release  *)
(* is the old one until a single step makes it the accepted one.  While an *)
(* upgrade is under way nothing is promised of the live prefix; it ends    *)
(* either committed or as if it had never begun.                           *)
(***************************************************************************)
VARIABLES release, busy

vars == <<release, busy>>

Init == release = "old" /\ busy = FALSE

Begin == ~busy /\ release = "old" /\ busy' = TRUE /\ UNCHANGED release

Commit == busy /\ busy' = FALSE /\ release' = "good"

Abort == busy /\ busy' = FALSE /\ UNCHANGED release

Next == Begin \/ Commit \/ Abort

Spec == Init /\ [][Next]_vars

=============================================================================
