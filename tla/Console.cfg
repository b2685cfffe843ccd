SPECIFICATION ConsoleSpec
CONSTANTS
  Chars = {a, b}
  NoKey = NoKey
  Size = 3
  Builds = {{}, {"countFirst"}, {"countLoaded"}, {"countFirst", "countLoaded"}}
INVARIANTS ConsoleTypeOK ReadsInOrder
PROPERTY CountedKeysAreRead
