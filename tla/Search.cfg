SPECIFICATION Spec
CONSTANTS
  Searches <- MCSearches
  Fetches <- MCFetches
  Answers <- MCAnswers
  Robots <- MCRobots
  Delay = 1
  NameParts = {"mozilla", "zilla"}
INVARIANTS
  ObeysRobots
  SearchAnswers
PROPERTIES
  Polite
