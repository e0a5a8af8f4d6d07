SPECIFICATION Spec
CONSTANTS
    d1 = d1
    d2 = d2
    r0 = r0
    None = None
    Devices = {d1, d2}
    Requests = {r0, r1, r2, r3}
    DeviceOf <- MCDeviceOf
INVARIANTS
    TypeOK
    InputsCarryAnswers
CHECK_DEADLOCK FALSE
