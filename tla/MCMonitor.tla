----------------------------- MODULE MCMonitor -----------------------------
(* Monitor with a small buffer, arguments of two digits and texts chosen   *)
(* to bring out each command, each way to get an argument wrong and each   *)
(* end of a line.                                                          *)
EXTENDS Monitor, TLC

MCChars == {"NUL", "FF", "CR", "^C", "DEL", "BS", "SP", ",", "z"}
           \cup {Digits[d] : d \in 1..16} \cup {Capitals[d] : d \in 1..16}
           \cup {"c", "t", "d", "e", "f", "a", "w", "r", "l", "i", "s", "m", "h", "x", "b", "p", "n"}

Entered(S) == {Append(l, "CR") : l \in S}
Names == {<<"e","t">>, <<"r","l">>, <<"i","l">>, <<"m","t">>, <<"r","c">>, <<"r","d">>,
          <<"h","e">>, <<"s","x">>, <<"s","i">>, <<"p","i">>, <<"c","t">>, <<"c","f">>,
          <<"a","f">>, <<"w","f">>, <<"b","i">>, <<"i","i">>}
One(name, digits) == {name \o <<d>> : d \in digits}

MCTexts ==
  Entered(
    Names
    \cup One(<<"d","c">>, {"0", "5"}) \cup One(<<"m","i">>, {"0", "6", "8"})
    \cup One(<<"t","i">>, {"0", "1"}) \cup One(<<"s","l">>, {"7"})
    \cup One(<<"r","h">>, {"1", "2"}) \cup One(<<"r","w">>, {"2", "4"})
    \cup One(<<"e","f">>, {"1"}) \cup One(<<"s","n">>, {"1"}) \cup One(<<"s","r">>, {"1"})
    \cup { <<"r","b","SP","1","z">>, <<"r","b","A","b","3">>, <<"r","b","z">>, <<"r","b">>,
           <<"SP","SP","h","e">>, <<"SP","SP","SP","SP","SP","SP","SP">>, <<"h">>, <<>>, <<"z","e">>,
           <<"w","b","1",",","2">>, <<"w","b","1","SP","SP","F">>, <<"w","b","1">>,
           <<"w","b","1",",">>, <<"w","b","1","SP",",","2">>, <<"w","h","1","SP","2">>,
           <<"w","h","2","SP","2">>, <<"w","w","2","SP","2">>, <<"w","w","4","SP","2">>,
           <<"s","w","1","SP","2">>,
           <<"s","w","1","2","3","SP","4","5","6">>, <<"h","e","NUL">>, <<"NUL","h","e">>,
           <<"h","FF","e">>, <<"FF","FF","p","i">> })
  \cup {<<"r","^C">>, <<"r","b","BS","h","e","CR">>, <<"DEL">>,
        <<"m","i","2","CR","i","i","CR">>, <<"m","i","4","CR","r","h","3","CR">>,
        <<"w","f","CR","c","f","CR">>, <<"a","f","CR","w","f","CR","c","f","CR">>,
        <<"w","b","2","SP","2","CR","c","f","CR">>,
        <<"r","b","c","CR","p","i","CR">>, <<"r","h","e","CR","e","t","CR">>,
        <<"r","w","d","CR","h","e","CR">>}

(* 38 pages of 2048 bytes, 19456 words and 304 rows of 64 words are one    *)
(* length; no two commands of a board have the same name.                  *)
ASSUME 38 * 2048 = 4 * 19456 /\ 4 * 19456 = 4 * 64 * 304 /\ 52224 - 32768 = 19456
=============================================================================
