\* The server serves at its root path and is down when the client starts.
CONSTANTS
    pods = pods
    nodes = nodes
    McpTool = {pods}
    Configured = {"base", "mcp"}
    MaxOutages = 1
SPECIFICATION FairMcpSpec
PROPERTIES
    Reconnects
CHECK_DEADLOCK FALSE
