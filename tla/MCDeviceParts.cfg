SPECIFICATION PartsSpec
CONSTANTS
    uart = uart
    adc = adc
    t1 = t1
    t2 = t2
    t3 = t3
    pin1 = pin1
    pin2 = pin2
    name1 = name1
    name2 = name2
    None = None
    Unset = Unset
    NoFile = NoFile
    Missing = Missing
    Uarts <- MCUarts
    Adcs <- MCAdcs
    Tasks <- MCTasks
    Pins <- MCPins
    MAX_WATCH = 2
    EVT_Q_LEN = 1
    Loggers <- MCLoggers
    LOG_VERBOSE = 2
    LOG_INFO = 1
    LOGGER_QUEUE_LEN = 2
    MaxEvents = 3
    Builtins <- MCBuiltins
    Project <- MCProject
    Lines <- MCLines
    MAX_CMDS = 3
    MAX_NAME = 3
    MAX_ARGV = 2
    Codes = {2, 4}
    I2cPorts = {0}
    SpiHosts = {0}
    DacChannels = {0}
    AdcChannels = {0, 1}
    PwmChannels = {0, 2}
    LEDC_TIMER_MAX = 2
    Resolutions <- MCResolutions
    Paths = {"a", "b"}
    MAX_FILE_BYTES = 3
    MaxWrites = 3
    Records <- MCRecords
    Answers <- MCAnswers
    Breaks <- MCBreaks
    Nameless = ""
    MAX_DEVICES = 2
    MaxAnswers = 3
    OldLines <- MCOldLines
    Existing <- MCExisting
    TokenOf <- MCTokenOf
INVARIANT TypesOK
INVARIANT OneTaskEach
INVARIANT StartHolds
INVARIANT TablesAgree
INVARIANT LastEventCurrent
INVARIANT LateEvents
INVARIANT ReplyIsOwn
INVARIANT OneWriteEach
INVARIANT ListedCanBeLoaded
PROPERTY StopEnds
PROPERTY ReachableAgain
