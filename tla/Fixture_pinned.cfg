\* Nobody but the commands themselves: two of them are enough.
CONSTANTS
  Docs <- MCDocs
  Events = 0
  Commands = 2
SPECIFICATION FixtureSpec
INVARIANT PublishedFromPinned
CHECK_DEADLOCK FALSE
