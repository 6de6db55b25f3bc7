SPECIFICATION Spec
CONSTANTS
  Pids = {100, 101}
  Ends = {0, 5120, 5376, 6}
  Rejections = {21}
  HardKills = {FALSE}
  RunsPerSeed = 3
INVARIANT JudgedWhileServed
