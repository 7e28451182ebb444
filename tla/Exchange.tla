------------------------------- MODULE Exchange -------------------------------
(***************************************************************************)
(* What an encryption job promises whoever looks at the two files only     *)
(* (src/CLI/cli/main.cpp, lines 3024 to 3051): the output is always the    *)
(* source as it is at that moment, or nothing, and the source is given up  *)
(* for nothing else.  A version stands for the content of the source.      *)
(***************************************************************************)
CONSTANTS Versions, None

VARIABLES
  source,   \* the version of the source, or None once it is disposed of
  output    \* the version the output decrypts to, or None

vars == <<source, output>>

Init == source \in Versions /\ output = None

\* The user edits the source.
Edit == source # None /\ source' \in Versions /\ UNCHANGED output

\* The old output goes, while the source is there.
Withdraw == source # None /\ output' = None /\ UNCHANGED source

\* The output appears, whole.
Deliver == source # None /\ output' = source /\ UNCHANGED source

\* The source goes, in exchange for the output.
Dispose == source # None /\ output = source /\ source' = None /\ UNCHANGED output

Next == Edit \/ Withdraw \/ Deliver \/ Dispose

Spec == Init /\ [][Next]_vars
=============================================================================
