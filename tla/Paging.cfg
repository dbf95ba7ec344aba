\* Up to eight rows: with one row to a page, more pages than the bar has links.
CONSTANTS
  PageSizes = {1, 2, 3}
  DefaultSize = 2
  MaxRows = 8
SPECIFICATION Spec
INVARIANTS WalkSeesAll LinksLead
