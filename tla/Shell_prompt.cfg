SPECIFICATION MCSpec
CONSTANTS
  Lexeme <- MCLexeme
  Dirs <- MCDirs
  Typed <- MCTyped
  MAXHISTSIZE = 2
  MaxEntered = 3
INVARIANTS PromptInv HistoryInOrder ParsesLikeGrammar WatchListRead SearchFinds
