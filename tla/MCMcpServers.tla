---------------------------- MODULE MCMcpServers ----------------------------
EXTENDS McpServers

MCBuiltIn == [n \in {"b"} |-> "plain"]

MCFormServers == {Server("plain", {}), Server("bare", {"claude"}), Server("holed", {"claude", "codex"})}
=============================================================================
