\* Two terminals.
SPECIFICATION Spec
CONSTANTS
  Terms = {0, 1}
  Keys = {"a", "enter"}
  BufLen = 3
  LastRow = {FALSE}
  Patient = TRUE
  Roomy = TRUE
  Prompts = TRUE
PROPERTIES Delivers
