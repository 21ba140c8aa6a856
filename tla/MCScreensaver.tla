---------------------------- MODULE MCScreensaver ----------------------------
(* Model checking of Screensaver: three keys at any moments, an integer of *)
(* three bits, and sleep times that are disabled, none, of one frame, of   *)
(* three, and of nine, which do not fit and wrap to one.                   *)
EXTENDS Screensaver

MCClocks == BOOLEAN
MCSettings == {<<-1, 3>>, <<0, 1>>, <<1, 1>>, <<1, 3>>, <<3, 3>>}
MCOneFrame == {<<1, 1>>}
=============================================================================
