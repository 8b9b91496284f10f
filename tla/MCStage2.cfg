SPECIFICATION Spec
CONSTANTS
    h = h
    b = b
    Blank = Blank
    Glyph = {h, b, Blank}
    Nul = Nul
    Bell = Bell
    Feed = Feed
    Erase = Erase
    Prompt <- MCPrompt
    Name <- MCName
    BufferSize = 4
INVARIANTS TypeOK LineInBuffer ScreenShowsLine
PROPERTY RunsWhatWasTyped
CHECK_DEADLOCK FALSE
