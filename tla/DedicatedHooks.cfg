SPECIFICATION HooksSpec
CONSTANT MaxUnpacked = 2
INVARIANT ArxanErrorFixKept
CHECK_DEADLOCK FALSE
