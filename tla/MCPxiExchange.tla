---------------------------- MODULE MCPxiExchange -----------------------------
\* The pxi module with two or three of its services, of which pxi:mc needs no static
\* buffer and the others one each, and with just enough buffers, or one too few.
EXTENDS PxiExchange

CONSTANTS mc, fs, am

NeedsOfServices == [s \in Services |-> IF s = mc THEN 0 ELSE 1]

=============================================================================
