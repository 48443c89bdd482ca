\* Two terminals, a user who types while a program reads, programs that prompt.
SPECIFICATION FairSpec
CONSTANTS
  Terms = {0, 1}
  Keys = {"l", "1", "tab", "bs", "enter", "ctrl", "caps"}
  BufLen = 3
  LastRow = {TRUE, FALSE}
  Patient = TRUE
  Roomy = TRUE
  Prompts = TRUE
  
PROPERTIES  EnterReturns
