SPECIFICATION Spec
CONSTANTS
  Runs = {1, 2}
  Cases <- MCCases
  NoRun = 0
  Channels = {"main"}
  Promotions = {p1, p2, p3, p4}
SYMMETRY Symmetry
INVARIANTS
  BaselineBacked
  WinnersFormAChain
  LosersWereOvertaken
