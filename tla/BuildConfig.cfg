SPECIFICATION Spec
CONSTANTS
    Types = {t1, t2}
    ModuleNames <- MCNames
    Avail <- MCAvail
    ModuleLists <- MCLists
    Schedulers = {"flux", "squeue", "slurm"}
    Requests <- MCRequests
    ReservLists <- MCReservs
    MaxReservs = 2
INVARIANTS
    NoModuleLost
    ReservationsServed
