SPECIFICATION FairSpec
CONSTANTS
    MaxGenerations = 2
    Foreign = {}
    Clients = {c1}
PROPERTIES ConfirmedIsTaken
CHECK_DEADLOCK FALSE
