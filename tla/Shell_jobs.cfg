SPECIFICATION FairSpec
CONSTANTS
  MaxChildren = 3
  Shell = Shell
  None = None
  Commands <- CommandLines
INVARIANTS TerminalInv ForegroundFinished
PROPERTIES KeyboardSparesBackground EventuallyReaped PromptAgain
CHECK_DEADLOCK FALSE
