--------------------------- MODULE MCTradingMain ---------------------------
(* TradingMain with every format of up to two characters, three % in a row *)
(* and no, one or two arguments, one of them empty.                        *)
EXTENDS TradingMain

MCFormats == BoundedSeq({"c", "%"}, 2) \cup {<<"%", "%", "%">>}

MCLines ==
  [s : MCFormats, args : {<< >>, << <<"a">> >>, << <<"a", "b">>, << >> >>}]
=============================================================================
