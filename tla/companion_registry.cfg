CONSTANTS
    Window = {w1, w2}
    ToolCall = {c1}
    Port = {p1, p2}
    NoWindow = NoWindow
    NoPort = NoPort
    Capacity = 1
    MaxSelections = 1
    MaxEvents = 1
    MaxMishaps = 1
SPECIFICATION RegistrySpec
  
PROPERTIES Findable
CHECK_DEADLOCK FALSE
