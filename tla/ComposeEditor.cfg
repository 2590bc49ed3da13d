SPECIFICATION Spec
CONSTANTS
  ann = ann
  bob = bob
  y1 = y1
  y2 = y2
  e1 = e1
  Absent = Absent
  Unversioned = Unversioned
  Editor <- MCEditor
  Yaml <- MCYaml
  Env <- MCEnv
  Retention = 2
  MaxCommits = 2
  MaxDeletes = 1
SYMMETRY MCSymmetry
INVARIANTS
  OverwrittenSourceIsKept
  OneCreator
PROPERTIES
  UndisturbedCommitIsAtomic
