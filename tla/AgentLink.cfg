SPECIFICATION Spec
CONSTANTS
  Hosts = {h1, h2}
  Ids = {m1}
  Bodies = {b1, b2}
  NoBody = NoBody
  Attempts = {p1, p2}
SYMMETRY Symmetry
INVARIANTS ReceiptHonest
PROPERTIES InboxImmutable ImplementsMail
