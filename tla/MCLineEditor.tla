---------------------------- MODULE MCLineEditor ----------------------------
(* An instance of LineEditor for TLC: lines of up to four characters on a   *)
(* terminal with room for three, and a history of three lines.              *)
EXTENDS LineEditor

MCCharacters == {"x", Space}
MCOldHistories == {<< >>, << <<"x">>, <<"x", "x">>, <<Space, "x">> >>}
MCPlainLines == {<< >>, <<"x">>, <<"x", CarriageReturn>>, <<"x", Space, "x", "x">>}
=============================================================================
