SPECIFICATION Spec
CONSTANTS
    u = u
    v = v
    Rows = 3
    Messages = {2}
    Values = {u, v}
    Absent = Absent
    ValueOf <- AnyValue
    Reinsert = FALSE
    MaxCalls = 4
INVARIANT ReadsSeeTheLastCall
