SPECIFICATION FairProcessSpec
CONSTANTS
  Kinds = {"background"}
  MaxConnects = 2
PROPERTIES ConnectedTunnelRuns
