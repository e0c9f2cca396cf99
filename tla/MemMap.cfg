\* Every way three users can share a file, split over two files, and reopen
\* one after handles and views were reused: for at most two records, three
\* handles and three views leave a free one at every moment.
CONSTANTS
  Path = {p1, p2}
  Client = {c1, c2, c3}
  Handle = {h1, h2, h3}
  View = {v1, v2, v3}
  NULL = NULL
  NoImage = NoImage
SPECIFICATION Spec
INVARIANTS
  CloseFindsOwnRecord
  NoDanglingUser
  NoLeak
PROPERTY LeaseSpec
