----------------------- MODULE MCRecoveryConsole -----------------------
(* Lines of two characters; one letter in both cases, one in one case.     *)
EXTENDS RecoveryConsole

MCBytes == {"a", "A", "b", "\n", "\r", "nul"}
MCLineEnds == {"\n", "\r"}
MCLower == [c \in MCBytes |-> IF c = "A" THEN "a" ELSE c]
MCTexts == {<<"a">>, <<"b">>, <<"a", "b">>, <<"b", "a">>, <<"b", "b">>}
MCCommandOf == [t \in MCTexts |->
    CASE t = <<"a">> -> "STATUS"
      [] t = <<"b">> -> "REBOOT"
      [] t = <<"a", "b">> -> "UPDATE"
      [] t = <<"b", "a">> -> "ERASE"
      [] t = <<"b", "b">> -> "BOOT"]
=============================================================================
