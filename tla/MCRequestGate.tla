--------------------------- MODULE MCRequestGate ---------------------------
(* Model values for RequestGate: two verbs, one unknown flag, and numerals *)
(* below, at and above both the design's size and the default cap.         *)
EXTENDS RequestGate, TLC

MCFlags    == {"--max-nodes", "--cancelled", "--other"}
MCWords    == {"eval", "new"}
MCNumerals == {"0", "2", "9"}
MCValue    == ("0" :> 0) @@ ("2" :> 2) @@ ("9" :> 9)
=============================================================================
