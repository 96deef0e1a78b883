\* Two workloads of one safe name and one of another, every order of commands
\* and edits, every failure; one torn file at a time.
SPECIFICATION Spec
CONSTANTS
  Manifests <- MCManifests
  None = None
  Torn = Torn
  MaxTorn = 1
CONSTRAINT FewTorn
INVARIANTS
  TypeOK
  BuiltFromValid
  MixedOnlyAfterFailure
  StepsInOrderAreCurrent
  AnnouncedIsLinked
