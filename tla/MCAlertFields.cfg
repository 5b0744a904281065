SPECIFICATION Spec
CONSTANTS
  Null = Null
  Host = "35.182.97.114"
  Site = "SITE"
  Texts <- MCTexts
  RawImages <- MCRawImages
  RawDates <- MCRawDates
INVARIANTS
  DateIsInstant
  DetailKeepsImage
  ElsewhereKept
\* An alert on the detail page has arrived.
CHECK_DEADLOCK FALSE
