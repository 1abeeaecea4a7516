SPECIFICATION FairSpec
CONSTANTS
    c1 = c1
    c2 = c2
    Callers = {c1, c2}
    Duties <- Creating
    DayEnd = 3
    Horizon = 4
    LunchStart = 2
    LunchHours = 1
    LunchThreshold = 1
    Requests <- ForgottenOut
    Entries <- ByHR
    DeviceDays <- ByDevice
    MaxSessions = 2
    MaxCorrections = 1
INVARIANTS TypeOK OneOpenSession PaidWithinDay HoursExplained PunchesRecorded OpenDayIsFound
PROPERTY DayIsClosed
