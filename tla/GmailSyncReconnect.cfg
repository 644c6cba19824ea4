\* A connection that is authorized again while a page is half done.
CONSTANTS
  Messages = {m1, m2}
  Workers = {w1}
  NoOne = NoOne
  Dead = Dead
  Human = Human
  Callback = Callback
  MaxAttempts = 1
  TurnLimit = 1
  PageLimit = 1
  BackfillLimit = 1
  MaxMailbox = 2
  MaxGeneration = 4
SPECIFICATION ReconnectSpec
SYMMETRY Alike
PROPERTIES
  PagesAccounted
