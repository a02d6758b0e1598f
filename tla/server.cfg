\* Tickets that change while they are pulled, pulls that overlap, requests that fail, restarts; one ticket in the hands of people; starts on databases of seven releases.
SPECIFICATION MCSpec
CONSTANTS
    ann = ann  bob = bob
    Tickets = {1, 2}
    Types = {"maintenance", "retrofit"}
    Users <- MCUsers
    Managers = {bob}
    PageSize = 1
    MaxChanges = 2
    MaxFaults = 1
    MaxRefreshes = 1
    Databases <- Bootable
    Rules = {1, 2}
    Techs = {"tess"}
    TypeNames = {"maintenance", "retrofit", "service"}
    MaxCrashes = 2
    Absent = Absent
    None = None
INVARIANT UpgradeComplete
PROPERTIES PullComplete CatchesUp ServerComesUp
CHECK_DEADLOCK FALSE
