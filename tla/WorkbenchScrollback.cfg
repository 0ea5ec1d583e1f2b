\* One session with one tab.
CONSTANTS
    Session = {s1}
    Tab = {t1}
SPECIFICATION BenchSpec
PROPERTY ScrollbackKept
CHECK_DEADLOCK FALSE
