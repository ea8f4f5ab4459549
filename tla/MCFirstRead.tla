---------------------------- MODULE MCFirstRead ----------------------------
(* FirstRead with first reads that are whole requests and such that end in *)
(* the middle of a keyword.                                                *)
EXTENDS FirstRead

SomeTexts ==
  {<<"PO", "ST", "host">>, <<"PO">>, <<"CO", "NN">>, <<"CO", "NN", "EC">>, <<"5n", "--">>, <<"00">>}
============================================================================
