SPECIFICATION Spec
CONSTANTS
    Char <- Characters
    Newline = "n"
    Blank = " "
    Digits <- DigitValues
    LOGIN <- LoginText
    QUIT <- QuitText
    MAX_RPC_BUF_LEN = 4
    MAX_UTXT_LINEBUF_LEN = 6
    Texts <- SmallTexts
    MaxLen = 6
INVARIANTS SanitiseExact LinesArrive BalanceExact
CHECK_DEADLOCK FALSE
