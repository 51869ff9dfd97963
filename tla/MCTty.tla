------------------------------- MODULE MCTty -------------------------------
EXTENDS Tty

MCShells == {"tty1"}
MCTtys == {"tty1", "tty2"}
MCChars == {"2", "LF", "BS"}
Press(ks) == [key : ks, down : {TRUE}]
Release(ks) == [key : ks, down : {FALSE}]
MCCodes == << Press({"LF", "LSHIFT"}), Press({"LF", "LALT"}),
              Press({"2"}) \cup Release({"LSHIFT"}), Press({"LF", "BS"}) >>
MCSwitch == [ch \in {"2"} |-> "tty2"]
MCPrompt == <<"$">>
=============================================================================
