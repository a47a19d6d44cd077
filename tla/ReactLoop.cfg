CONSTANTS
  Backends = {b1, b2}
  NoBackend = NoBackend
  Names = {shell, read_file}
  Args = {a1, a2}
  JointArgs = {a1}
  LocalTools = {read_file}
  MaxIter = 5
  NameRepeatMax = 3
  NoSig = NoSig
SPECIFICATION Spec
INVARIANTS TypeOK TurnIsBounded ShortcutIsFresh TraceMatchesReply
PROPERTY TurnEnds
