SPECIFICATION Spec
CONSTANTS
    u = u
    v = v
    Rows = 3
    Messages = {2}
    Values = {u, v}
    Absent = Absent
    ValueOf <- OneValue
    Reinsert = FALSE
    MaxCalls = 4
INVARIANTS TypeOK ReadsSeeTheLastCall
PROPERTIES CommitKeepsWhatWasRead IterationMeetsEveryRow
