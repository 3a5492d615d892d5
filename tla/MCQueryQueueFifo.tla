--------------------------- MODULE MCQueryQueueFifo ---------------------------
(* The instances of MCQueryQueue for QueryQueueFifo.                         *)
EXTENDS MCQueryQueue, QueryQueueFifo
=============================================================================
