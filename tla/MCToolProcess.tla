---------------------------- MODULE MCToolProcess ----------------------------
(***************************************************************************)
(* The instance of ToolProcess that TLC checks: the output limit falls     *)
(* inside a chunk, and the pipe fills before two chunks are in it.         *)
(***************************************************************************)
EXTENDS ToolProcess

MCChunk == 2
MCLimit == 5
MCPipe  == 3
=============================================================================
