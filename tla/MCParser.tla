----------------------------- MODULE MCParser ------------------------------
(* Short scripts: pipelined requests, an argument that is empty, null, of    *)
(* ten bytes, or made of what the protocol uses itself.                      *)
EXTENDS Parser

Tricky == <<CR, LF>>
Long == <<"x", "*", "1", CR, LF, "$", "1", CR, LF, "x">>

MCScripts == {<< << <<"x">> >>, << <<>>, NoArgument >> >>,
              << << Tricky, <<"$">> >>, << <<"x">> >> >>,
              << << Long >> >>}
MCByte == {CR, LF, "*", "$", "-", "x"} \cup ToSet(Digits)
MCNoise == {"*", "$", "-", "0", "2", "x", CR, LF}
=============================================================================
