----------------------------- MODULE MCRowSlider -----------------------------
(* A front row of two lights and a rear row of one. *)
EXTENDS RowSlider

CONSTANTS left, right, rear

TwoRows == <<{left, right}, {rear}>>
==============================================================================
