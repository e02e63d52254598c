SPECIFICATION MCSpec
CONSTANTS
  Sources = {"a.py"}
  Binaries = {"b.pyc"}
  s1 = s1
  s2 = s2
  s3 = s3
  Statements = {s1, s2, s3}
  LabelOf <- TwoLabels
  Kinds = {"unsupported"}
  Outcomes <- SomeOutcomes
  Starts <- SomeStarts
  MaxEdits = 2
  Entries = {"e1", "e2"}
  Pythons = {"3.9", "3.13"}
  DiagnosticKinds = {"unsupported"}
  Trials <- SomeTrials
  Corpora <- SomeCorpora
  MaxChanges = 2
INVARIANTS
  PassMeansNoneWorse
  FailMeansSomethingWorse
  PassMeansAllRecorded
  FailMeansWorse
  SomeAgreeWithAll
CHECK_DEADLOCK FALSE
