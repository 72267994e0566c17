SPECIFICATION Spec
CONSTANTS
  state = state
  wallet = wallet
  Account = {state, wallet}
  Stateful = {state}
  Entry <- MCEntry
  Gate <- MCGate
  MAX_PERMITTED_DATA_INCREASE = 1
  MaxLen = 1
  U64_MAX = 4
  LAUNCH_RENT <- MCLaunchRent
  LIVE_RENT <- MCLiveRent
  Amount = {2}
  PROGRAM = PROGRAM
  SYSTEM = SYSTEM
  NoAccount = NoAccount
INVARIANT NeverPastReserve NoStaleBytes
PROPERTY ViewsUndisturbed AllOrNothing LamportsConserved ReallocLeavesExempt ClosedIsBlank UndeclaredUntouched
