SPECIFICATION Spec
CONSTANTS
  Children = {a, b}
  Modes = {"required_internal"}
  Asked = {"submit", "approve"}
  Deciders = {"r1"}
  Editors = {"e1"}
  Autosavers = {"u1"}
  Marks = {"pending_review", "approved"}
  Edits = {"queue"}
PROPERTIES ScheduledWasReviewed
SYMMETRY AccountSymmetry
