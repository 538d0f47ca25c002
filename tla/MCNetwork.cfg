CONSTANTS
  Call = {"c1", "c2"}
  Url <- MCUrl
  Status = {200, 404}
  MaxHttpStarts = 2
  Fd = {1, 2, 3}
  MaxClients = 2
  MaxServerStarts = 2
  MaxConn = 2
  MaxRequest = 3
  MaxBridgeStarts = 3
  MaxPackets = 2
  Clients = {"c1", "c2"}
  MaxPaperStarts = 2
SPECIFICATION Spec
PROPERTIES HttpAnswers WebSocketServes RconInStep BridgeConnects PaperReports NetworkProgress
CHECK_DEADLOCK FALSE
