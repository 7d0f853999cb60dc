SPECIFICATION Spec
CONSTANTS
  a1 = a1
  a2 = a2
  s1 = s1
  s2 = s2
  c1 = c1
  c2 = c2
  Command = {c1, c2}
  Account = {a1, a2}
  Pds = {s1, s2}
  Home <- MCHome
  Stem <- MCStem
  Setting <- MCSetting
  Override = {"unset", "play", a1}
  Moving = {a1}
  MaxCmd = 2
INVARIANTS
  TypeOK OneAccountPerFragment SettingsSurvive RecordedAfterStored CleanLoginServes
  ReadTokensStayHome
SYMMETRY Commands
CHECK_DEADLOCK FALSE
