\* One prompt, sent to a session whose model needs a key nobody has given yet.
SPECIFICATION Spec
CONSTANTS
  Message = {m1}
  Post = {p1}
  Update = {u1}
  Model = {local, cloud}
  Cloud = {cloud}
  FirstModel = cloud
  FirstKey = FALSE
  IdCap = 1
INVARIANT AcceptedPromptRuns
CHECK_DEADLOCK FALSE
