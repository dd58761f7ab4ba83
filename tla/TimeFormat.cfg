\* 400 years of days, a whole period of the calendar; two seconds of one
\* minute and the last second of the day.
CONSTANTS
  Sods = {0, 59, 86399}
  LastDay = 146097
SPECIFICATION Spec
INVARIANTS ShowsDate ShowsTime IndInv
