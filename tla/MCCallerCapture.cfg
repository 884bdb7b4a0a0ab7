SPECIFICATION Spec
CONSTANTS
  Pids = {10, 11}
  Client = 20
  Elders = {10, 11}
  Executables = {"shell", "agent"}
  Names <- MCNames
  Opaque = {11}
  Fields <- MCFields
  ClientStart = 1
  MaxTicks = 1
  MaxGenerations = 2
INVARIANTS
  TypeOK
  StartTimeVouchesForCaller
  LivingCallerIsDescribed
CHECK_DEADLOCK FALSE
