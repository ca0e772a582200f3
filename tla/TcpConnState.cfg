SPECIFICATION Spec
CONSTANTS
    MaxSend = 3
    Exp = 3
    MaxReceive = 2
    MaxRequests = 2
PROPERTIES ConnectedCallback
