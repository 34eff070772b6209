SPECIFICATION FairSpec
CONSTANTS
    DirKeys = {"W"}
    QueueLen = 1
    MaxEvents = 3
INVARIANTS
    TypeOK
    NothingUsedAfterUse
    SentOnceInOrder
    NewestSurvives
    OnlyDraggedButtonsIgnore
    ButtonAsksItsMode
PROPERTIES
    NewestIsSent
CHECK_DEADLOCK FALSE
