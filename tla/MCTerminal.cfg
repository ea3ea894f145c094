SPECIFICATION Spec
CONSTANTS
    Rows = 2
    Cols = 4
    Printable <- Characters
    LengthCap = 2
    Leftover <- Stack
    Chunk = 2
    MaxLine = 5
    Key <- Typing
    Marker <- Shown
    Prompt <- Asks
    Typeable <- Lines
    FirstTexts <- Notes
    Thirds <- Names
    MaxNodes = 4
    MaxText = 3
    MaxEdits = 2
    Granule = 1
    BlockSize = 16
    Wide = 2
    Junk = 102
    Slots = 7
    Earlier = {0, 3}
    MaxCommands = 3
    MaxPrint = 9
    MaxDraw = 3
    Oscillator = 5
    Requested = 2
    Second = 2
    Word = 12
    Sleeper = {1, 2, 3}
    MaxSleep = 4
    MaxRead = 13
CHECK_DEADLOCK FALSE
INVARIANTS
    TypeOK
    
    StaysInBuffer
    ScreenShowsText
    ReadIsContent
    CommandIsFound
    TableLasts
PROPERTIES
    ImplementsLine
    ImplementsFile
    ProgramsSeeSaved
    SleepersWakeOnTime
