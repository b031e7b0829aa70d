----------------------------- MODULE MCPipeline -----------------------------
(***************************************************************************)
(* Pipeline with the media of its TLC runs: how many packets each stream   *)
(* has from any position to the end of the file.                           *)
(***************************************************************************)
EXTENDS Pipeline

MCVideo2 == [video |-> 2]
MCAudio6 == [audio |-> 6]
MCBoth53 == [audio |-> 5, video |-> 3]
=============================================================================
