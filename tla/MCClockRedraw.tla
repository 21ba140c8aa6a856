---------------------------- MODULE MCClockRedraw ----------------------------
(* A font of two digits and times of two glyphs, for TLC.                  *)
EXTENDS ClockRedraw

Yes == TRUE
No  == FALSE
MCFont == [g \in {"0", "1", Space} |->
            CASE g = "0"   -> << <<Yes, Yes>>, <<Yes, No>> >>
              [] g = "1"   -> << <<No, Yes>>, <<No, Yes>> >>
              [] g = Space -> << <<No>>, <<No>> >>]
MCTimes == {<<"0", "0">>, <<"0", "1">>, <<"1", "0">>}
MCPositions == {[row |-> 0, col |-> 0], [row |-> 1, col |-> 2],
                [row |-> 2, col |-> 4]}
MCScales == {1, 2}
MCLooks == {[colour |-> 0, fill |-> "#"], [colour |-> 90, fill |-> ""]}
MCTermSizes == {[row |-> 3, col |-> 6], [row |-> 4, col |-> 10]}
MCPrompt == 5
=============================================================================
