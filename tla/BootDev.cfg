SPECIFICATION LiveSpec
CONSTANTS num_cyl = 2  num_heads = 2  num_track_sect = 2  TIMEOUT = 4  MaxCount = 2  MaxSlip = 2
CONSTANTS Events = {e1, e2}  Funcs = {"floppy_motors_off"}  Delays = {4}
INVARIANT ReadsWhatWasAsked
PROPERTIES NotOffEarly MotorStops
