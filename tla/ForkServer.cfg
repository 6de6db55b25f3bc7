SPECIFICATION Spec
CONSTANTS
  Pids = {100, 101}
  Ends = {0, 5120, 5376, 6}
  Rejections = {21}
  HardKills = {TRUE, FALSE}
  RunsPerSeed = 3
INVARIANTS InStep JudgedByOwnChild NoStrayKill EndsCleanly
PROPERTY RunsReturn
