---------------------------- MODULE MCMcpSession ----------------------------
\* One session of an MCP server beside a command line that updates the store.
\* Direct handles a refused call as it handles a direct one: one of them is sent.
EXTENDS McpSession

CONSTANTS i1, i2, d1

Msg(i, c, a) == [id |-> i, call |-> c, args |-> a]
MCMessages == {Msg(i1, "read", "ok"),
               Msg(i2, "update", "ok"), Msg(i1, "update", "refused"),
               Msg(None, "update", "ok")}

\* Databases are interchangeable: let the one at the start be d1 (RemoveStore may follow).
MCInit == SInit /\ Read(store) = d1
MCSpec == MCInit /\ [][SNext]_allvars /\ \A s \in Servers : WF_allvars(Handle(s))
=============================================================================
