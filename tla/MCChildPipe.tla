---------------------------- MODULE MCChildPipe ----------------------------
(* What gpg and an update archive write, as far as the parsers care.       *)
EXTENDS ChildPipe, TLC

Checked == { <<"NOTINSTALLED">>, << >>, <<"other", "NO_PUBKEY", "other">>,
             <<"other", "BADSIG">>, <<"other", "VALIDSIG", "other", "other">> }

MCOutput ==
  [c \in Calls |->
     CASE c \in {"verify", "reverify"} -> Checked
       [] c = "fetch" -> { <<"NOTINSTALLED">>, << >>, <<"other", "IMPORT_RES 0">>,
                           <<"IMPORT_RES 1", "other">> }
       [] c = "install" -> { << >>, <<"other", "other", "other">> }]
=============================================================================
