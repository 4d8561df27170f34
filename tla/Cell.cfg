\* Two cells, three pages, the string of one of which is no URL.
SPECIFICATION Spec
CONSTANTS
  Cells = {c1, c2}
  Pages = {p1, p2, p3}
  Readable = {p1, p2}
  NoPage = NoPage
SYMMETRY CellSymmetry
INVARIANTS
  OwnPictureOrBlank
