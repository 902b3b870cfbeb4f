------------------------------ MODULE MCShell ------------------------------
(* The shell with two letters, lines of two characters and a log of two.   *)
EXTENDS Shell

MCChar == {" ", "w", "+", "-", "|", "#", ".", "%", "/", ":", "?", "_", ">"}
          \cup {"0", "1", "2", "3", "4", "5", "6", "7", "8", "9"}
          \cup {"a", "b", "h", "i", "j", "q", "r", "s", "t", "u", "x", "y", "z"}

MCTexts == {Rep(Newline, 9) \o <<"a">>, Rep("b", 20)}

Sample(load) == [load |-> load, secs |-> 59, ticks |-> 59000, used |-> load + 3, total |-> 127,
                 heap |-> 64, saved |-> 0, ratio |-> 100]
MCStats == {Sample(100), Sample(5)}

\* help logs more lines than the log has; pf logs one and faults.
MCOutput == [line \in Lines |->
  CASE line = <<"q", "q">> -> <<Rep("h", 9), Rep("i", 48), Rep("j", 27)>>
    [] line = <<"r">>      -> <<Rep("t", 46)>>
    [] line = <<"r", "q">> -> <<Rep("s", 14)>>
    [] line = <<"r", "r">> -> <<Rep("u", 37)>>
    [] OTHER -> << >>]

MCEffect == [line \in Lines |->
  CASE line = <<"q">>      -> "dashboard"
    [] line = <<"r">>      -> "fault"
    [] line = <<"q", "r">> -> "clear"
    [] line = <<"r", "q">> -> "halt"
    [] OTHER -> "none"]

MCReadyMessages == <<Rep("y", 27), Rep("z", 54)>>
MCRestoredMessage == Rep("x", 58)
=============================================================================
