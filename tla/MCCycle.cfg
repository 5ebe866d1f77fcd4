SPECIFICATION Spec
CONSTANTS
  Targets = {"auto-merge-pr", "direct-push"}
  Reviewers = {r1, r2}
  Findings = {f, s}
  Safety = {s}
  MaxPasses = 2
  MaxRevisions = 1
  MaxMain = 1
  MaxAttempts = 2
  MaxTransient = 2
  MaxTries = 2
  FromSteps = {"ship"}
INVARIANTS PushIsGated PushedMarkersAreTheAuthors CompletedIsDelivered
PROPERTIES BranchOutlivesDelivery SafetyFindingsStay ReviewStandsBeforeShip AttemptEnds
CHECK_DEADLOCK FALSE
