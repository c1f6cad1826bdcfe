----------------------------- MODULE MCX11Input -----------------------------
(* Instance of X11Input for TLC: a mouse button, and the two keys of the    *)
(* paste chord, which the client may hold itself.                           *)
EXTENDS X11Input

CONSTANT button

MCInputs == {Shift, Insert, button}
Move(i, d) == [input |-> i, down |-> d]

\* Presses of keys, and a wheel step: one event that presses and releases.
MCEvents ==
  {<<Move(Shift, TRUE)>>, <<Move(Insert, TRUE)>>, <<Move(button, TRUE), Move(button, FALSE)>>}
=============================================================================
