SPECIFICATION Spec
CONSTANTS
  Children = {a, b}
  Modes = {"optional"}
  Asked = {"approve", "hold"}
  Deciders = {"r1"}
  Editors = {"e1"}
  Autosavers = {"u1"}
  Marks = {"draft", "pending_review", "approved", "scheduled"}
  Edits = {"save", "queue", "submit", "autosave", "unaware", "api"}
INVARIANTS TypeOK ApprovedIsReviewed
SYMMETRY AccountSymmetry
