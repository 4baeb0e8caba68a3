SPECIFICATION FairSpec
PROPERTIES
    PartsGetOn
\* The bounds of a part are reached, and its work is done.
CHECK_DEADLOCK FALSE
