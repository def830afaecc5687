SPECIFICATION LongSpec
CONSTANT NumDevices = 2
PROPERTIES
    AllJoined
