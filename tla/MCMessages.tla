----------------------------- MODULE MCMessages -----------------------------
(***************************************************************************)
(* Messages for TLC: a program of each kind, one whose name has a slash,   *)
(* one whose name is no format, one of no class there is, and a page.      *)
(***************************************************************************)
EXTENDS Messages

MCClass == [board |-> "Board", slashed |-> "Module", controller |-> "Controller",
            logger |-> "Logger", braced |-> "Board", foreign |-> "Foreign",
            page |-> "WebBrowser"]
MCName == [board |-> <<"Digitizer", "one">>, slashed |-> <<"Module", "a", "b">>,
           controller |-> <<"Controller", "me">>, logger |-> <<"Logger", "log">>,
           braced |-> <<"Digitizer", "{two}">>, foreign |-> <<"Foreign", "f">>,
           page |-> <<"WebBrowser", "Browser">>]

MCBracedNames == {<<"Digitizer", "{two}">>}
=============================================================================
