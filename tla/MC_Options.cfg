\* option.py: import, parse, then any sequence of option calls
CONSTANTS
    None = None
    NotAnInt = NotAnInt
    IntText <- MCIntText
    WordsText <- MCWordsText
    ModeArgs <- MCModeArgs
    GpuArgs <- MCGpuArgs
    NoticeArgs <- MCNoticeArgs
    MsgFileArgs <- MCMsgFileArgs
    SharedFileArgs <- MCSharedFileArgs
    NRankArgs <- MCNRankArgs
    DomainArgs <- MCDomainArgs
    UserArgs <- MCUserArgs
    FlagArgs <- MCFlagArgs
    NoticeInputs <- MCNoticeInputs
    Files <- MCFiles
    Periods <- MCPeriods
    NRanksGlobal = 4
SPECIFICATION Spec
\* an exception during import ends the process: that state has no successor
CHECK_DEADLOCK FALSE
INVARIANTS
    TypeOK
    ExecutionModeSound
    NoticeLevelAgrees
    MpiOptionsNeedMpi
