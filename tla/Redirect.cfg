CONSTANTS
  Words <- Numbered
  MaxArgs = 4
  Existing = {"old", "cat"}
  Builtins = {"echo"}
  Env = "env"
SPECIFICATION RedirectSpec
INVARIANTS WordsKept PlainRedirects
CHECK_DEADLOCK FALSE
