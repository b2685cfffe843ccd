SPECIFICATION ConsoleSpec
CONSTANTS
  Chars = {a, b}
  NoKey = NoKey
  Size = 3
  Builds = {{"countFirst", "countLoaded"}}
INVARIANT CountIsContents
