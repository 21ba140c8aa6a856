---------------------------- MODULE MCPromptLine ----------------------------
(* Model checking of PromptLine over PasswdBuffer: capacities 3, 4, 6 and  *)
(* 9 in place of 10, 15, 22 and 33, and terminals as much narrower.        *)
EXTENDS PromptLine

MCInitCapacity == 3
MCMaxSize == 6
MCTerminals == [cols : {3, 4, 7, 12}, prompt : {2, 3}]
=============================================================================
