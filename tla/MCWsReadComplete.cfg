\* wsclient.go:313, "ReadMessage returns the next complete text message".
CONSTANTS
    Heartbeat = 2
    WriteTimeout = 3
    Writers = 0
    PongDelay = 1
    Layouts <- MCFragmented
    MaxFragments = 2
    MaxMessages = 2
    MaxPings = 1
    MaxWire = 2
    NoTimer = NoTimer
SPECIFICATION Spec
INVARIANT MessagesComplete
