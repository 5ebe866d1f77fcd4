SPECIFICATION Spec
CONSTANTS
  Targets = {"auto-merge-pr"}
  Reviewers = {r1, r2}
  Findings = {f}
  Safety = {}
  MaxPasses = 1
  MaxRevisions = 0
  MaxMain = 0
  MaxAttempts = 1
  MaxTransient = 1
  MaxTries = 2
  FromSteps = {}
PROPERTIES EscalationHolds
CHECK_DEADLOCK FALSE
