-------------------------- MODULE MCMcpSessions --------------------------
EXTENDS McpSessions
==========================================================================
