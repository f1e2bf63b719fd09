SPECIFICATION Spec
CONSTANTS
  f = f p = p q = q
  File = {f}
  NoFile = NoFile
  Point = {p, q}
  SnippetOf <- MCSnippetOf
  CategoryOf <- MCCategoryOf
  MaxVersion = 3
  PageSize = 1
  MaxFaults = 1
INVARIANTS
  DocumentsFollowRows
  CurrentIsUsable
PROPERTIES
  KeptOrAffected
