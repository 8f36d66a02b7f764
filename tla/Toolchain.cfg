SPECIFICATION Spec
CONSTANT Hosts <- ManyHosts
INVARIANTS RunsOnlyTrusted ProxiesAreResolved ToolsAreMounted NothingPrivateBesides
CHECK_DEADLOCK FALSE
