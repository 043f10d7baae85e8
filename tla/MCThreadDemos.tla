--------------------------- MODULE MCThreadDemos ---------------------------
(***************************************************************************)
(* ThreadDemos on a screen of two rows of two columns, with two thread     *)
(* slots, and three users: one types whatever the keyboard has and starts  *)
(* no thread, one starts threads that print, and one starts races.         *)
(***************************************************************************)
EXTENDS ThreadDemos

MCPrinters == 0..2
MCUsers ==
    {[keys |-> Keys, ahead |-> 2, commands |-> {"other", "clear"}],
     [keys |-> {"letter"}, ahead |-> 1, commands |-> {"threads"}],
     [keys |-> {"letter"}, ahead |-> 1, commands |-> {"race"}]}
MCPrompt == <<"newline">>
MCMessage == <<"letter">>
MCRoundText == <<"letter">>
MCEndText == <<"letter">>
=============================================================================
