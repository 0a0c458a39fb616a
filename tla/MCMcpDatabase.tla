--------------------------- MODULE MCMcpDatabase ---------------------------
\* One MCP server and one other process over one store.
EXTENDS McpDatabase, TLC

MCSymmetry == Permutations(TempNames) \cup Permutations(Contents)
=============================================================================
