------------------------------ MODULE MC_Options ------------------------------
(* Model of option.py: a small sample of every kind of command-line value:  *)
(* absent, well formed, not an integer, negative, zero and non-dividing.    *)
EXTENDS Options

MCIntText == ("0" :> 0) @@ ("1" :> 1) @@ ("2" :> 2) @@ ("3" :> 3)
             @@ ("-2" :> -2)

MCWordsText == ("a b" :> <<"a", "b">>) @@ ("'a b'" :> <<"a b">>)

MCModeArgs == {None, "cpu", "bogus"}
MCGpuArgs == {None, "1", "x"}
MCNoticeArgs == {None, "3", "x"}
MCMsgFileArgs == {None, "f1"}
MCSharedFileArgs == {None, "f2"}
MCNRankArgs == {None, "2", "3", "0", "-2", "x"}
MCDomainArgs == {None, "2", "x"}
MCUserArgs == {None, "a b"}
MCFlagArgs == {{"linear"}}
MCNoticeInputs == {"1", "x", "3"}
MCFiles == {"f1", "f2"}
MCPeriods == {0}

\* set_notice_level also accepts Python ints; int(3) = 3

=============================================================================
