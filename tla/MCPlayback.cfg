SPECIFICATION Spec
CONSTANTS
    zip = zip
    local = local
    remote = remote
    preview = preview
    NoSong = NoSong
    Songs <- MCSongs
    Graphics <- MCGraphics
    MediaG <- MCMediaG
    Whole <- MCWhole
    Remote <- MCRemote
    Previews <- MCPreviews
    MaxRequests = 2
    Choices <- MCChoices
    Removable <- MCRemovable
    MaxInputs = 2
    MaxQueue = 1
INVARIANTS
    TypeOK
    LatestRequestWins
    DismissedStaysGone
    AnnouncedIsCurrent
    CandidateIsLastRequested
    CdgFollowsTransport
PROPERTIES
    StoppedStaysStopped
    GenerationNamesOneSong
    LoadSettles
CHECK_DEADLOCK FALSE
